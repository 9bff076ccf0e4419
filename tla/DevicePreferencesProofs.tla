---------------------- MODULE DevicePreferencesProofs ----------------------
(***************************************************************************)
(* Theorems about DevicePreferences for any number of SSH keys, devices    *)
(* and preferences: the invariant, and that the file implements DurableMap.*)
(***************************************************************************)
EXTENDS DevicePreferences, FiniteSetTheorems, TLAPS

\* The document that is being saved differs from memory in one entry.
OneEntryAway == \E k \in Fingerprint, d \in Device : document = With(memory, k, d)

\* PreferencesInv made inductive: a Save that is under way is one entry away
\* from what is in memory, and runs only in a service that understood its file.
SaveInv ==
    /\ PreferencesInv
    /\ file \in left
    /\ at # "idle" => process = "up" /\ ~refused /\ OneEntryAway
    /\ at \in {"written", "synced"} => temp = document

---------------------------------------------------------------------------
(* Documents.                                                              *)

\* A document of the code: a function on few fingerprints.
LEMMA DocumentMeans ==
  ASSUME NEW m
  PROVE  m \in Documents <=>
            \E S \in SUBSET Fingerprint :
                Cardinality(S) <= MaxPreferred /\ m \in [S -> Device]
  BY DEF Documents

LEMMA EmptyIsDocument == Empty \in Documents
  <1>1. Cardinality({}) = 0
    BY FS_EmptySet
  <1>2. Cardinality({}) <= MaxPreferred
    BY <1>1, PreferencesAssumption
  <1>3. Empty \in [{} -> Device]
    BY DEF Empty
  <1> QED
    BY <1>2, <1>3, DocumentMeans

\* The limit that Save compares keeps what it writes readable.
LEMMA WithIsDocument ==
  ASSUME NEW m \in Documents, NEW k \in Fingerprint, NEW d \in Device,
         ~(Cardinality(DOMAIN m) >= MaxPreferred /\ k \notin DOMAIN m)
  PROVE  With(m, k, d) \in Documents
  <1>1. PICK S \in SUBSET Fingerprint :
            Cardinality(S) <= MaxPreferred /\ m \in [S -> Device]
    BY DocumentMeans
  <1>2. DOMAIN m = S /\ IsFiniteSet(S) /\ Cardinality(S) \in Nat
    BY <1>1, PreferencesAssumption, FS_Subset, FS_CardinalityType
  <1> DEFINE T == S \cup {k}
  <1>3. Cardinality(T) <= MaxPreferred
    <2>1. CASE k \in S
      <3>1. T = S
        BY <2>1
      <3> QED
        BY <1>1, <3>1
    <2>2. CASE k \notin S
      <3>1. Cardinality(T) = Cardinality(S) + 1
        BY <1>2, <2>2, FS_AddElement
      <3>2. ~(Cardinality(S) >= MaxPreferred)
        BY <1>2, <2>2
      <3> QED
        BY <1>2, <3>1, <3>2, PreferencesAssumption
    <2> QED
      BY <2>1, <2>2
  <1>4. With(m, k, d) \in [T -> Device]
    BY <1>1, <1>2 DEF With
  <1>5. T \in SUBSET Fingerprint
    OBVIOUS
  <1> QED
    BY <1>3, <1>4, <1>5, DocumentMeans

---------------------------------------------------------------------------
(* The invariant.                                                          *)

LEMMA SaveInvInitial == Init => SaveInv
  BY EmptyIsDocument DEF Init, SaveInv, PreferencesInv, TypeOK, MemoryIsFile

\* The service ends; what the file holds is one of what could be left of it.
LEMMA StoppedKeeps ==
  ASSUME SaveInv, Stopped, file' \in left, left' \subseteq left, file' \in left'
  PROVE  SaveInv'
  BY EmptyIsDocument
     DEF SaveInv, PreferencesInv, TypeOK, MemoryIsFile, Stopped, Done

\* A step of the service that goes on with a Save, or has none to go on with.
LEMMA GoesOn ==
  ASSUME SaveInv, UNCHANGED <<ours, document>>, file' \in left',
         left' \subseteq left, file' = file, TypeOK',
         at' # "idle" => at # "idle",
         at' \in {"written", "synced"} => temp' = document
  PROVE  SaveInv'
  <1>1. OneEntryAway => OneEntryAway'
    BY DEF OneEntryAway, With, ours
  <1> QED
    BY <1>1 DEF SaveInv, PreferencesInv, MemoryIsFile, ours

LEMMA SaveInvStep == SaveInv /\ [Next]_vars => SaveInv'
  <1> SUFFICES ASSUME SaveInv, [Next]_vars
               PROVE  SaveInv'
    OBVIOUS
  <1>1. CASE Start
    BY <1>1, EmptyIsDocument, PreferencesAssumption
       DEF Start, Readable, SaveInv, PreferencesInv, TypeOK, MemoryIsFile, disk
  <1>2. CASE CreateTemp
    <2>1. PICK k \in Fingerprint, d \in Device :
              ~Full(k) /\ document' = With(memory, k, d)
      BY <1>2 DEF CreateTemp
    <2>2. memory \in Documents
      BY DEF SaveInv, PreferencesInv, TypeOK
    <2>3. document' \in Documents
      BY <2>1, <2>2, WithIsDocument DEF Full
    <2>4. process' = "up" /\ ~refused' /\ memory' = memory
      BY <1>2 DEF CreateTemp, Writable, ours
    <2>5. document' = With(memory', k, d)
      BY <2>1, <2>4
    <2>6. OneEntryAway'
      BY <2>5 DEF OneEntryAway, With
    <2> QED
      BY <1>2, <2>3, <2>4, <2>6
         DEF CreateTemp, SaveInv, PreferencesInv, TypeOK, MemoryIsFile, ours, disk
  <1>3. CASE Write \/ Sync
    BY <1>3, GoesOn DEF Write, Sync, SaveInv, PreferencesInv, TypeOK, ours, disk
  <1>4. CASE Rename
    <2>1. at = "synced" /\ temp = document /\ Survives = document
      BY <1>4 DEF Rename, ReadyToRename, SaveInv, Survives
    <2>2. document \in Documents /\ document # Missing
      BY PreferencesAssumption DEF SaveInv, PreferencesInv, TypeOK
    <2> QED
      BY <1>4, <2>1, <2>2, EmptyIsDocument
         DEF Rename, Done, SaveInv, PreferencesInv, TypeOK, MemoryIsFile
  <1>5. CASE Fail
    BY <1>5, EmptyIsDocument
       DEF Fail, KeptMemory, Done, SaveInv, PreferencesInv, TypeOK, MemoryIsFile, disk
  <1>6. CASE Crash
    BY <1>6, StoppedKeeps DEF Crash, SaveInv, disk
  <1>7. CASE PowerLoss
    BY <1>7, StoppedKeeps DEF PowerLoss
  <1>8. CASE Flush
    BY <1>8, GoesOn DEF Flush, SaveInv, PreferencesInv, TypeOK, ours
  <1>9. CASE UNCHANGED vars
    BY <1>9, GoesOn DEF vars, SaveInv, PreferencesInv, TypeOK, ours
  <1> QED
    BY <1>1, <1>2, <1>3, <1>4, <1>5, <1>6, <1>7, <1>8, <1>9 DEF Next, SaveStep

LEMMA SaveInvariant == Spec => []SaveInv
  BY SaveInvInitial, SaveInvStep, PTL DEF Spec

\* Whatever fails in a Save, and whenever the service or the machine stops, a
\* running service answers what it would read again after a restart.
THEOREM PreferencesInvariant == Spec => []PreferencesInv
  <1>1. SaveInv => PreferencesInv
    BY DEF SaveInv
  <1> QED
    BY SaveInvariant, <1>1, PTL

---------------------------------------------------------------------------
(* The refinement.                                                         *)

LEMMA MapInitial == Init => Map!Init
  <1> SUFFICES ASSUME Init PROVE Map!Init
    OBVIOUS
  <1>1. Documents \subseteq Map!Maps
    BY DEF Documents, Map!Maps
  <1>2. Meaning(file) \in Map!Maps \cup {Foreign}
    BY <1>1, EmptyIsDocument DEF Init, Meaning
  <1>3. {Meaning(c) : c \in left} = {Meaning(file)}
    BY DEF Init
  <1> QED
    BY <1>2, <1>3 DEF Map!Init

\* What a running service has understood is what its file means.
LEMMA MemoryMeans ==
  ASSUME SaveInv, process = "up", ~refused
  PROVE  memory = Meaning(file) /\ memory \in Map!Maps
  <1>1. memory \in Documents /\ MemoryIsFile
    BY DEF SaveInv, PreferencesInv, TypeOK
  <1>2. memory = Meaning(file)
    BY <1>1 DEF MemoryIsFile, Meaning
  <1> QED
    BY <1>1, <1>2 DEF Documents, Map!Maps

LEMMA MapStep == SaveInv /\ [Next]_vars => [Map!Next]_(Map!vars)
  <1> SUFFICES ASSUME SaveInv, [Next]_vars
               PROVE  [Map!Next]_(Map!vars)
    OBVIOUS
  <1>1. ASSUME UNCHANGED disk
        PROVE  UNCHANGED Map!vars
    BY <1>1 DEF disk, Map!vars, Meaning
  <1>2. CASE Rename
    <2>1. at = "synced" /\ temp = document /\ process = "up" /\ ~refused
      BY <1>2 DEF Rename, ReadyToRename, SaveInv
    <2>2. PICK k \in Fingerprint, d \in Device : document = With(memory, k, d)
      BY <2>1 DEF SaveInv, OneEntryAway
    <2>3. memory = Meaning(file) /\ Meaning(file) \in Map!Maps
      BY <2>1, MemoryMeans
    <2>4. file' = document /\ left' = left \cup {document}
      BY <1>2, <2>1 DEF Rename, Survives
    <2>5. document # Missing
      BY PreferencesAssumption DEF SaveInv, PreferencesInv, TypeOK
    <2>6. Meaning(file)' = Map!With(Meaning(file), k, d)
      BY <2>2, <2>3, <2>4, <2>5 DEF Meaning, With, Map!With
    <2>7. {Meaning(c) : c \in left}' = {Meaning(c) : c \in left} \cup {Meaning(file)'}
      BY <2>4 DEF Meaning
    <2>8. Map!Put(k, d)
      BY <2>3, <2>6, <2>7 DEF Map!Put
    <2> QED
      BY <2>8 DEF Map!Next
  <1>3. CASE PowerLoss
    <2>1. file' \in left /\ left' = {file'}
      BY <1>3 DEF PowerLoss
    <2>2. Meaning(file)' \in {Meaning(c) : c \in left}
      BY <2>1 DEF Meaning
    <2>3. {Meaning(c) : c \in left}' = {Meaning(file)'}
      BY <2>1 DEF Meaning
    <2>4. Map!PowerLoss
      BY <2>2, <2>3 DEF Map!PowerLoss
    <2> QED
      BY <2>4 DEF Map!Next
  <1>4. CASE Flush
    <2>1. file' = file /\ left' = {file}
      BY <1>4 DEF Flush
    <2>2. {Meaning(c) : c \in left}' = {Meaning(file)} /\ Meaning(file)' = Meaning(file)
      BY <2>1 DEF Meaning
    <2>3. Map!Flush
      BY <2>2 DEF Map!Flush
    <2> QED
      BY <2>3 DEF Map!Next
  <1>5. CASE Start \/ CreateTemp \/ Write \/ Sync \/ Fail \/ Crash \/ UNCHANGED vars
    <2>1. UNCHANGED disk
      BY <1>5 DEF Start, CreateTemp, Write, Sync, Fail, Crash, vars, disk
    <2> QED
      BY <2>1, <1>1
  <1> QED
    BY <1>2, <1>3, <1>4, <1>5 DEF Next, SaveStep

\* However the steps of Save fail and wherever it is interrupted, the file
\* changes like a map, one entry at one instant, and a power loss takes it back
\* at most to what it was since the last flush.
THEOREM FileIsDurableMap == Spec => ImplementsMap
  <1>1. Spec => Map!Init /\ [][Map!Next]_(Map!vars)
    BY MapInitial, MapStep, SaveInvariant, PTL DEF Spec
  <1> QED
    BY <1>1 DEF ImplementsMap, Map!Spec
=============================================================================
