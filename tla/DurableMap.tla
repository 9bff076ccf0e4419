----------------------------- MODULE DurableMap -----------------------------
(***************************************************************************)
(* What the device preferences promise: a map that changes by one entry at *)
(* a time, at one instant each, which a crash of the service does not      *)
(* touch and a power loss takes back to a value it had since it was last   *)
(* flushed - never to anything it was not.  A value that is no map is kept  *)
(* as it is.                                                               *)
(***************************************************************************)
EXTENDS Naturals

CONSTANTS
    Fingerprint,  \* of SSH keys
    Device,       \* stable device identifiers
    Foreign       \* what somebody else put there, no map

VARIABLES
    value,  \* the map
    floor   \* what a power loss may leave of it

vars == <<value, floor>>

Maps == UNION {[S -> Device] : S \in SUBSET Fingerprint}

\* Choices of former sessions.
Init == value \in Maps \cup {Foreign} /\ floor = {value}

With(m, k, d) == [j \in DOMAIN m \cup {k} |-> IF j = k THEN d ELSE m[j]]

Put(k, d) ==
    /\ value \in Maps
    /\ value' = With(value, k, d)
    /\ floor' = floor \cup {value'}

Flush ==
    /\ floor' = {value}
    /\ UNCHANGED value

PowerLoss ==
    /\ value' \in floor
    /\ floor' = {value'}

Next ==
    \/ \E k \in Fingerprint, d \in Device : Put(k, d)
    \/ Flush \/ PowerLoss

Spec == Init /\ [][Next]_vars
=============================================================================
