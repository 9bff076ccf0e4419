------------------------- MODULE DevicePreferences -------------------------
(***************************************************************************)
(* The device preferences (internal/preferences/store.go): which security  *)
(* key was chosen for which SSH key, in memory and in the only file that   *)
(* the service writes.  Save and Preferred run under one mutex; the steps  *)
(* of Save are separate because the service may be killed, and the machine *)
(* lose power, between any two of them.                                    *)
(*                                                                         *)
(* The file system keeps per name what programs see and what would be left *)
(* after a power loss.  A rename is seen at once and survives once the     *)
(* directory has been flushed; data survives once the file has been synced *)
(* or flushed.                                                             *)
(***************************************************************************)
EXTENDS Naturals, FiniteSets

CONSTANTS
    Fingerprint,   \* of SSH keys
    Device,        \* stable identifiers of security keys
    NoDevice,      \* a key without a serial number has none
    Missing,       \* there is no file
    Torn,          \* a part of a document, or nothing of it
    Foreign,       \* a file that New does not accept
    MaxPreferred,  \* how many preferences there may be, 256 in the code
    MaxPending     \* bound: what a power loss may leave

Documents ==
    UNION {[S -> Device] : S \in {T \in SUBSET Fingerprint :
                                     Cardinality(T) <= MaxPreferred}}

Empty == [k \in {} |-> NoDevice]

ASSUME PreferencesAssumption ==
    /\ IsFiniteSet(Fingerprint) /\ NoDevice \notin Device
    /\ MaxPreferred \in Nat /\ MaxPending \in Nat \ {0}
    /\ \A m \in {Missing, Torn, Foreign} : m \notin Documents
    /\ Missing # Torn /\ Missing # Foreign /\ Torn # Foreign

VARIABLES
    process,  \* the service is "up" or "down"
    memory,   \* Store.data
    refused,  \* Store.err is set
    at,       \* Save: "idle", "temp", "written" or "synced"
    document, \* what Save is about to write, the d of the code
    temp,     \* the content of Save's temporary file
    file,     \* what devices.json holds
    left      \* what it may hold after a power loss

vars == <<process, memory, refused, at, document, temp, file, left>>
ours == <<process, memory, refused>>
disk == <<file, left>>

Init ==
    /\ process = "down"
    /\ memory = Empty /\ refused = FALSE
    /\ at = "idle" /\ document = Empty /\ temp = Missing
    /\ file \in Documents \cup {Missing, Foreign}
    /\ left = {file}

---------------------------------------------------------------------------
(* New: the service starts.                                                *)

Readable == file \in Documents \cup {Missing}

Start ==
    /\ process = "down"
    /\ process' = "up"
    /\ \/ /\ Readable
          /\ memory' = IF file = Missing THEN Empty ELSE file
          /\ refused' = FALSE
       \/ memory' = Empty /\ refused' = TRUE
    /\ UNCHANGED <<at, document, temp, disk>>

---------------------------------------------------------------------------
(* Save, step by step.                                                     *)

Full(k) == Cardinality(DOMAIN memory) >= MaxPreferred /\ k \notin DOMAIN memory

With(m, k, d) == [j \in DOMAIN m \cup {k} |-> IF j = k THEN d ELSE m[j]]

Writable == ~refused

\* A Save without effect is not a step: no identifier, a limit, a directory
\* or a target that is not as it should be.
CreateTemp ==
    /\ process = "up" /\ at = "idle" /\ Writable
    /\ \E k \in Fingerprint, d \in Device :
          ~Full(k) /\ document' = With(memory, k, d)
    /\ at' = "temp"
    /\ temp' = Torn
    /\ UNCHANGED <<ours, disk>>

Write ==
    /\ at = "temp"
    /\ at' = "written"
    /\ temp' = document
    /\ UNCHANGED <<ours, document, disk>>

Sync ==
    /\ at = "written"
    /\ at' = "synced"
    /\ UNCHANGED <<ours, document, temp, disk>>

\* Mistake: the file is renamed as soon as it is written.
WrittenEnough == {"written", "synced"}

ReadyToRename == {"synced"}

Done ==
    /\ at' = "idle" /\ document' = Empty /\ temp' = Missing

\* What a power loss makes of the renamed file.
Survives == IF at = "synced" THEN temp ELSE Torn

Rename ==
    /\ at \in ReadyToRename /\ Cardinality(left) < MaxPending
    /\ file' = temp
    /\ left' = left \cup {Survives}
    /\ memory' = document
    /\ Done
    /\ UNCHANGED <<process, refused>>

\* Mistake: the document was made in the map that Store.data holds.
SharedMemory == document

KeptMemory == memory

\* A call fails: the temporary file is removed.
Fail ==
    /\ at # "idle"
    /\ memory' = KeptMemory
    /\ Done
    /\ UNCHANGED <<process, refused, disk>>

SaveStep == CreateTemp \/ Write \/ Sync \/ Rename \/ Fail

---------------------------------------------------------------------------
(* The world.                                                              *)

Stopped ==
    /\ process' = "down" /\ memory' = Empty /\ refused' = FALSE
    /\ Done

\* The service ends or is killed; a temporary file of it is left behind.
Crash ==
    /\ process = "up"
    /\ Stopped
    /\ UNCHANGED disk

PowerLoss ==
    /\ Stopped
    /\ file' \in left
    /\ left' = {file'}

\* The kernel writes back what it has not written yet.
Flush ==
    /\ left' = {file} /\ left' # left
    /\ UNCHANGED <<ours, at, document, temp, file>>

Next == Start \/ SaveStep \/ Crash \/ PowerLoss \/ Flush

Spec == Init /\ [][Next]_vars

---------------------------------------------------------------------------
(* Properties.                                                             *)

\* Types: what is in memory, under way and in the file.
TypeOK ==
    /\ process \in {"up", "down"} /\ refused \in BOOLEAN
    /\ memory \in Documents /\ document \in Documents
    /\ at \in {"idle", "temp", "written", "synced"}
    /\ temp \in Documents \cup {Missing, Torn}
    /\ file \in Documents \cup {Missing, Foreign}
    /\ left \subseteq Documents \cup {Missing, Foreign}

\* What a running service answers is what it would read again after a restart:
\* a Save that fails half way changes neither memory nor the file.
MemoryIsFile ==
    process = "up" /\ ~refused => memory = IF file = Missing THEN Empty ELSE file

\* Memory, file and the steps of a Save at any time.
PreferencesInv == TypeOK /\ MemoryIsFile

Meaning(content) == IF content = Missing THEN Empty ELSE content

Map == INSTANCE DurableMap
          WITH value <- Meaning(file), floor <- {Meaning(c) : c \in left}

\* "fsync, and atomic rename" (DESIGN.md): whenever the service is killed or
\* power is lost, the file is a whole document, the one before or after a
\* Save, and no entry but the saved one has changed; and a file that was not
\* understood is not overwritten: "Reject malformed/unsupported documents
\* rather than silently overwriting them".
ImplementsMap == Map!Spec
=============================================================================
