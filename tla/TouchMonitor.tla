---------------------------- MODULE TouchMonitor ----------------------------
(***************************************************************************)
(* The touch monitor: Monitor.Run of internal/touch/linux.go.  It scans    *)
(* the hidraw interfaces once a second, reads those of security keys,      *)
(* feeds what they send to a tracker each, and tells its sink (the touch   *)
(* popups) when one begins and stops to wait for a touch.                  *)
(*                                                                         *)
(* The world is what sysfs, /dev and the devices show: an interface comes, *)
(* goes, changes its permissions or is replaced between any two steps of   *)
(* the monitor.  A reader that has lost its device is "gone": poll reports *)
(* a hangup and read an error.                                             *)
(***************************************************************************)
EXTENDS TouchTracker, HidDescriptor

CONSTANTS
    Path,        \* names of hidraw interfaces
    NoPath,      \* no interface
    MaxDevices,  \* how many are read
    Kinds,       \* bound: per path what may be plugged in under this name
    Contents,    \* per kind its report descriptor, <<>> if it cannot be read
    Talks,       \* bound: per path the channels its devices use
    Delayed,     \* bound: the paths whose answers may be read late
    ScanEvery,   \* the time between two scans
    MaxBurst,    \* reports read in a row, 64 in the code
    Failures     \* whether poll fails

\* Nothing; a key that can be opened and one that cannot; a key that shares its
\* input report with another application; no key; a descriptor that cannot be
\* read or understood.
AllKinds == {"absent", "fido", "locked", "shared", "other", "strange"}

ASSUME MonitorAssumption ==
    /\ IsFiniteSet(Path) /\ NoPath \notin Path
    /\ MaxDevices \in Nat \ {0} /\ ScanEvery \in Nat \ {0}
    /\ MaxBurst \in Nat \ {0} /\ Failures \in BOOLEAN
    /\ Kinds \in [Path -> SUBSET AllKinds] /\ Delayed \subseteq Path
    /\ Talks \in [Path -> SUBSET Channel]

VARIABLES
    node,     \* per path "absent" or what is there
    waits,    \* per path the channels on which the device waits for a touch
    late,     \* those of them that the tracker still knows from an older wait,
              \* whose answer may be queued in the node
    reader,   \* per path the open handle with its tracker, or NoReader
    sink,     \* the paths that were last reported as waiting
    covered,  \* every security key is watched: Covered says so
    pc,       \* where Run is: "top", "scan", "poll", "handle", "over"
    todo,     \* the paths that the scan or the round still has to look at
    seen,     \* the security keys that this scan has found
    missed,   \* this scan has found something that cannot be watched
    hup,      \* the readers of which poll has reported a hangup
    turn,     \* the reader that is being read, or NoPath
    burst,    \* how often it was read in this round
    scanIn,   \* the time until the next scan
    stop,     \* the context is cancelled
    known     \* history: per path "known" if it has not changed since the
              \* latest complete scan looked at it, "looked" for this scan

world == <<node, waits, late>>
scan == <<seen, missed, scanIn>>
round == <<hup, turn, burst>>
vars == <<world, reader, sink, covered, pc, todo, scan, round, stop, known>>

NoReader == [state |-> "none", tracker |-> NewTracker, active |-> FALSE]
NewReader == [NoReader EXCEPT !.state = "same"]

Init ==
    /\ node \in [Path -> AllKinds]
    /\ \A p \in Path : node[p] \in Kinds[p] \cup {"absent"}
    /\ waits = [p \in Path |-> {}]
    /\ late = [p \in Path |-> {}]
    /\ reader = [p \in Path |-> NoReader]
    /\ sink = {}
    /\ covered = FALSE
    /\ pc = "top"
    /\ todo = {}
    /\ seen = {}
    /\ missed = FALSE
    /\ hup = {}
    /\ turn = NoPath
    /\ burst = 0
    /\ scanIn = 0
    /\ stop = FALSE
    /\ known = [p \in Path |-> "changed"]

Open(R) == {p \in Path : R[p] # NoReader}

\* Mistake: a reader is dropped without a word to the sink.
SilentAfter(P) == sink

\* remove: the readers in P are closed, the sink learns of the waiting ones.
SinkAfter(P) == sink \ {p \in P : reader[p].active}

ReaderAfter(P) == [p \in Path |-> IF p \in P THEN NoReader ELSE reader[p]]

\* Mistake: coverage is left to the next scan.
CoverageKept(P) == covered

CoverageAfter(P) == covered /\ P = {}

\* Mistake: the end of an episode is reported but not remembered.
TrackBeginnings(p, tracker) ==
    /\ reader' = [reader EXCEPT ![p].tracker = tracker,
                                ![p].active = @ \/ Active(tracker)]
    /\ sink' = IF Active(tracker) = reader[p].active THEN sink
               ELSE IF Active(tracker) THEN sink \cup {p} ELSE sink \ {p}

\* The tracker of p has changed: an edge of its activity goes to the sink.
Track(p, tracker) ==
    /\ reader' = [reader EXCEPT ![p].tracker = tracker,
                                ![p].active = Active(tracker)]
    /\ sink' = IF Active(tracker) = reader[p].active THEN sink
               ELSE IF Active(tracker) THEN sink \cup {p} ELSE sink \ {p}

---------------------------------------------------------------------------
(* The scan.                                                               *)

StartScan ==
    /\ pc = "top" /\ ~stop /\ scanIn = 0
    /\ scanIn' = ScanEvery
    /\ todo' = {p \in Path : node[p] # "absent"}
    /\ seen' = {}
    /\ missed' = FALSE
    /\ pc' = "scan"
    /\ UNCHANGED <<world, reader, sink, covered, round, stop, known>>

SkipScan ==
    /\ pc = "top" /\ ~stop /\ scanIn > 0
    /\ pc' = "poll"
    /\ UNCHANGED <<world, reader, sink, covered, todo, scan, round, stop, known>>

\* The parser's result for every kind of interface.
LayoutOf == [kind \in AllKinds |-> Descriptor(Contents[kind])]

IsKey(p) == LayoutOf[node[p]].layout # Malformed.layout

\* What the parser takes for a key's is called "fido" or "locked".
ASSUME KindsAssumption ==
    \A kind \in AllKinds : LayoutOf[kind].layout # Malformed.layout
                               => kind \in {"fido", "locked"}

\* A descriptor that cannot be read or understood, or of no security key.
PassBy(p) ==
    /\ ~IsKey(p)
    /\ missed' = (missed \/ ~LayoutOf[node[p]].ok)
    /\ UNCHANGED <<reader, sink, covered, seen>>

Keep(p) ==
    /\ IsKey(p) /\ reader[p].state = "same"
    /\ seen' = seen \cup {p}
    /\ UNCHANGED <<reader, sink, covered, missed>>

Crowded(R) == Cardinality(Open(R)) >= MaxDevices

\* A reader of what was there before is removed; then a new one if possible.
Watch(p) ==
    /\ IsKey(p) /\ reader[p].state # "same"
    /\ seen' = seen \cup {p}
    /\ LET P == {p} \cap Open(reader)
           R == ReaderAfter(P)
       IN /\ sink' = SinkAfter(P)
          /\ covered' = CoverageAfter(P)
          /\ \/ /\ Crowded(R) \/ node[p] = "locked"
                /\ reader' = R
                /\ missed' = TRUE
             \/ /\ ~Crowded(R) /\ node[p] = "fido"
                /\ reader' = [R EXCEPT ![p] = NewReader]
                /\ UNCHANGED missed

ScanPath(p) ==
    /\ pc = "scan" /\ p \in todo
    /\ todo' = todo \ {p}
    /\ known' = [known EXCEPT ![p] = IF @ = "changed" THEN "looked" ELSE @]
    /\ PassBy(p) \/ Keep(p) \/ Watch(p)
    /\ UNCHANGED <<world, pc, scanIn, round, stop>>

\* Readers whose path was not found are removed; coverage is published.
EndScan ==
    /\ pc = "scan" /\ todo = {}
    /\ LET P == Open(reader) \ seen
       IN /\ reader' = ReaderAfter(P)
          /\ sink' = SinkAfter(P)
    /\ covered' = (seen # {} /\ Open(reader') = seen /\ ~missed)
    /\ pc' = "poll"
    /\ seen' = {}
    /\ missed' = FALSE
    /\ known' = [p \in Path |-> IF known[p] = "looked" THEN "known" ELSE known[p]]
    /\ UNCHANGED <<world, todo, scanIn, round, stop>>

---------------------------------------------------------------------------
(* The round: poll, and then every reader in turn.                         *)

Poll ==
    /\ pc = "poll"
    /\ todo' = Open(reader)
    /\ \/ hup' = {p \in Open(reader) : reader[p].state = "gone"} /\ UNCHANGED covered
       \/ Failures /\ hup' = {} /\ covered' = FALSE
    /\ pc' = "handle"
    /\ UNCHANGED <<world, reader, sink, scan, turn, burst, stop, known>>

InTurn(p) == pc = "handle" /\ p \in todo /\ turn \in {p, NoPath}

Served(p) ==
    /\ todo' = todo \ {p} /\ hup' = hup \ {p}
    /\ turn' = NoPath /\ burst' = 0

\* A hangup, or a read that fails.
Lose(p) ==
    /\ InTurn(p)
    /\ \/ p \in hup
       \/ reader[p].state = "gone" /\ burst < MaxBurst
    /\ reader' = ReaderAfter({p})
    /\ sink' = SinkAfter({p})
    /\ covered' = CoverageAfter({p})
    /\ Served(p)
    /\ UNCHANGED <<world, pc, scan, stop, known>>

\* What may be read: a keepalive only of a channel that waits, an answer of one
\* that does not or, before the first keepalive of a new wait, of the old one.
ReadReport(p, r) ==
    /\ InTurn(p) /\ p \notin hup /\ reader[p].state # "gone" /\ burst < MaxBurst
    /\ Track(p, Report(reader[p].tracker, r))
    /\ late' = [late EXCEPT ![p] = IF r.command = "other" THEN @ ELSE @ \ {r.channel}]
    /\ turn' = p
    /\ burst' = burst + 1
    /\ UNCHANGED <<node, waits, covered, pc, todo, scan, hup, stop, known>>

AsksForTouch(p, c) ==
    c \in waits[p] /\ ReadReport(p, Header(c, "keepalive", 1, UpNeeded))

SaysOther(p) ==
    \/ \E c \in waits[p] : ReadReport(p, Header(c, "keepalive", 1, Processing))
    \/ \E c \in (Talks[p] \ waits[p]) \cup late[p] :
          \/ ReadReport(p, Header(c, "cbor", 1, 0))
          \/ ReadReport(p, Header(c, "error", 1, 0))
          \/ ReadReport(p, Header(c, "init", 17, 0))
    \/ \E c \in Talks[p] : ReadReport(p, Header(c, "other", 1, 0))
    \/ ReadReport(p, Header(Broadcast, "cbor", 1, 0))

\* Nothing more to read: what was not repeated in time is forgotten.
Settle(p) ==
    /\ InTurn(p) /\ p \notin hup
    /\ Track(p, Expire(reader[p].tracker))
    /\ Served(p)
    /\ UNCHANGED <<world, covered, pc, scan, stop, known>>

EndRound ==
    /\ pc = "handle" /\ todo = {}
    /\ pc' = "top"
    /\ UNCHANGED <<world, reader, sink, covered, todo, scan, round, stop, known>>

\* The deferred calls of Run.
Leave ==
    /\ pc = "top" /\ stop
    /\ covered' = FALSE
    /\ sink' = SinkAfter(Open(reader))
    /\ reader' = ReaderAfter(Open(reader))
    /\ pc' = "over"
    /\ UNCHANGED <<world, todo, scan, round, stop, known>>

RunStep ==
    \/ StartScan \/ SkipScan \/ EndScan \/ Poll \/ EndRound \/ Leave
    \/ \E p \in Path : ScanPath(p) \/ Lose(p) \/ Settle(p)

---------------------------------------------------------------------------
(* The world.                                                              *)

\* The node of p becomes kind; what that means for an open reader.
Changes(p, kind, state) ==
    /\ node' = [node EXCEPT ![p] = kind]
    /\ waits' = [waits EXCEPT ![p] = IF kind = "absent" THEN {} ELSE @]
    /\ late' = [late EXCEPT ![p] = IF kind = "absent" THEN {} ELSE @]
    /\ reader' = IF p \in Open(reader) /\ reader[p].state # "gone"
                 THEN [reader EXCEPT ![p].state = state] ELSE reader
    /\ known' = [known EXCEPT ![p] = "changed"]
    /\ UNCHANGED <<sink, covered, pc, todo, scan, round, stop>>

Plug(p) ==
    node[p] = "absent" /\ \E kind \in Kinds[p] : Changes(p, kind, "gone")

Unplug(p) == node[p] # "absent" /\ Changes(p, "absent", "gone")

\* udev grants or revokes the session's access: the node's ctime changes.
ChangeAccess(p) ==
    \/ node[p] = "fido" /\ "locked" \in Kinds[p] /\ Changes(p, "locked", "touched")
    \/ node[p] = "locked" /\ Changes(p, "fido", "touched")

\* On an interface that is never opened nobody would notice it.  If the tracker
\* still knows the channel, the answer to the older wait may be unread.
BeginWaiting(p, c) ==
    /\ node[p] \in {"fido", "locked"} /\ c \notin waits[p]
    /\ waits' = [waits EXCEPT ![p] = @ \cup {c}]
    /\ late' = [late EXCEPT ![p] = IF p \in Delayed /\ Tracks(reader[p].tracker, c)
                                   THEN @ \cup {c} ELSE @]
    /\ UNCHANGED <<node, reader, sink, covered, pc, todo, scan, round, stop, known>>

\* The last keepalive has been read or was dropped; the answer may be read, be
\* read late, or get lost.
StopWaiting(p, c) ==
    /\ c \in waits[p]
    /\ waits' = [waits EXCEPT ![p] = @ \ {c}]
    /\ late' = [late EXCEPT ![p] = @ \ {c}]
    /\ UNCHANGED <<node, reader, sink, covered, pc, todo, scan, round, stop, known>>

Tick ==
    /\ scanIn' = IF scanIn = 0 THEN 0 ELSE scanIn - 1
    /\ reader' = [p \in Path |-> [reader[p] EXCEPT !.tracker = Older(@)]]
    /\ <<scanIn', reader'>> # <<scanIn, reader>>
    /\ UNCHANGED <<world, sink, covered, pc, todo, seen, missed, round, stop, known>>

Cancel ==
    /\ ~stop
    /\ stop' = TRUE
    /\ UNCHANGED <<world, reader, sink, covered, pc, todo, scan, round, known>>

Next ==
    \/ RunStep
    \/ \E p \in Path :
          \/ \E c \in Talks[p] : AsksForTouch(p, c) \/ BeginWaiting(p, c)
                                  \/ StopWaiting(p, c)
          \/ SaysOther(p) \/ Plug(p) \/ Unplug(p) \/ ChangeAccess(p)
    \/ Tick
    \/ Cancel

Spec == Init /\ [][Next]_vars

\* The monitor is scheduled, time passes, and a device that waits repeats its
\* keepalive so often that the monitor reads one now and then.
FairSpec ==
    /\ Spec
    /\ WF_vars(RunStep)
    /\ WF_vars(Tick)
    /\ \A p \in Path, c \in Channel : SF_vars(AsksForTouch(p, c))

---------------------------------------------------------------------------
(* Properties.                                                             *)

\* Types: the readers, their trackers and the place where Run is.
TypeOK ==
    /\ node \in [Path -> AllKinds]
    /\ waits \in [Path -> SUBSET Channel]
    /\ late \in [Path -> SUBSET Channel] /\ \A p \in Path : late[p] \subseteq waits[p]
    /\ \A p \in Path :
          /\ reader[p].state \in {"none", "same", "touched", "gone"}
          /\ reader[p].tracker \in Trackers
          /\ Cardinality(DOMAIN reader[p].tracker) <= MaxChannels
    /\ sink \subseteq Path /\ todo \subseteq Path /\ seen \subseteq Path
    /\ hup \subseteq todo /\ turn \in todo \cup {NoPath}
    /\ pc \in {"top", "scan", "poll", "handle", "over"}
    /\ burst \in 0..MaxBurst /\ scanIn \in 0..ScanEvery

\* What the sink believes is what the open readers last saw, also after a
\* reader was lost, replaced under the same name (linux.go:182) or given up at
\* shutdown: nothing waits there for an end that is never reported.
SinkAgrees ==
    /\ sink = {p \in Path : reader[p].active}
    /\ \A p \in Path : reader[p].active = Active(reader[p].tracker)

\* The sink never has to drop a device (touch.go:64), not even for the moment
\* in which one reader is replaced by another.
SinkWithinLimit == Cardinality(sink) <= MaxDevices

\* The parser understands this interface and finds no input report that is a
\* security key's alone: it is no key's, or a key shares its report with another
\* application (report.go:128).
PassedSilently(p) == LayoutOf[node[p]].ok /\ ~IsKey(p)

\* What "passive monitoring covers the connected interfaces" (DESIGN.md) means:
\* of what has not changed since the latest scan everything is watched but
\* what linux.go:176 passes by without counting it, and something is watched
\* (linux.go:205).  A descriptor that is not understood prevents coverage.
CoveredMeansWatched ==
    covered =>
        /\ Open(reader) # {}
        /\ \A p \in Path :
              known[p] = "known" /\ node[p] # "absent"
                  => p \in Open(reader) \/ PassedSilently(p)

KeyKinds == {kind \in AllKinds : ByPosition(Contents[kind]).layout # Malformed.layout}

\* What is read is a security key by the items of its descriptor, and no
\* nesting of them makes the parser take another interface for one
\* (report.go:19).
DescriptorsUnderstood ==
    /\ ParsedAsDescribed
    /\ \A p \in Open(reader) : reader[p].state = "same" => node[p] \in KeyKinds

\* After shutdown nothing is left open, waiting or covered.
ShutdownClears == pc = "over" => Open(reader) = {} /\ sink = {} /\ ~covered

\* Readers and sink at any time: they agree, the sink has room, and shutdown
\* leaves nothing in either.
MonitorInv == TypeOK /\ SinkAgrees /\ SinkWithinLimit /\ ShutdownClears

\* A popup is not closed while its device still waits on a tracked channel
\* whose keepalives are read: the answer of another channel does not end the
\* episode (report.go:203-214).  Left out are channels on which the answer to an
\* older wait is unread: it ends the episode until the next keepalive.
NotClosedEarly ==
    [][\A p \in sink \ sink' :
          \/ stop
          \/ reader[p].state # "same"
          \/ \A c \in (waits[p] \ late[p]) \cap DOMAIN reader[p].tracker :
                reader[p].tracker[c] = 0]_vars

\* A device that is touched, gives up or is unplugged stops being reported,
\* although its answer may get lost.
SilentIsForgotten ==
    \A p \in Path : waits[p] = {} ~> (p \notin sink \/ waits[p] # {})

Readable(p) ==
    /\ node[p] = "fido" /\ waits[p] # {}
    /\ p \in Open(reader) \/ ~Crowded(reader)

\* A device that waits, and whose interface can be read, is reported.
WaitingIsReported ==
    \A p \in Path : Readable(p) ~> (p \in sink \/ ~Readable(p) \/ stop)
===========================================================================
