---------------------------- MODULE TouchTracker ----------------------------
(***************************************************************************)
(* The tracker of one FIDO HID interface (internal/touch/report.go): which *)
(* channels of the device wait for a touch.  It sees the first packet of   *)
(* every message of the device, reduced here to channel, command, length   *)
(* and status byte, and never sends anything.                              *)
(*                                                                         *)
(* A tracker is the map pending.  Where the code stores a deadline it      *)
(* holds the time that is left until then; 0 is a deadline that is due.    *)
(***************************************************************************)
EXTENDS Naturals, FiniteSets

CONSTANTS
    Channel,      \* the channels of a device
    Broadcast,    \* the channel numbers 0 and 0xffffffff
    MaxChannels,  \* how many are tracked
    StaleAfter    \* a keepalive counts this long

ASSUME TrackerAssumption ==
    /\ IsFiniteSet(Channel) /\ Broadcast \notin Channel
    /\ MaxChannels \in Nat \ {0} /\ StaleAfter \in Nat \ {0}

NewTracker == [c \in {} |-> 0]

Trackers == UNION {[S -> 0..StaleAfter] : S \in SUBSET Channel}

Active(t) == DOMAIN t # {}

Header(channel, command, length, status) ==
    [channel |-> channel, command |-> command, length |-> length,
     status |-> status]

UpNeeded == 2
Processing == 1

\* Mistake: one answer ends the waiting of all channels.
WithoutAny(t, c) == NewTracker

Without(t, c) == [d \in DOMAIN t \ {c} |-> t[d]]

Refreshed(t, c) ==
    [d \in DOMAIN t \cup {c} |-> IF d = c THEN StaleAfter ELSE t[d]]

Tracks(t, c) == c \in DOMAIN t

HasRoom(t) == Cardinality(DOMAIN t) < MaxChannels

Keepalive(t, r) ==
    CASE r.length = 1 /\ r.status = UpNeeded
           /\ (Tracks(t, r.channel) \/ HasRoom(t))
                -> Refreshed(t, r.channel)
      [] r.length = 1 /\ r.status = Processing /\ Tracks(t, r.channel)
                -> Refreshed(t, r.channel)
      [] OTHER  -> t

\* Response, error, or resynchronization of the channel.
Completes(r) ==
    \/ r.command = "cbor" /\ r.length >= 1
    \/ r.command = "error" /\ r.length = 1
    \/ r.command = "init" /\ r.length = 17

Report(t, r) ==
    IF r.channel = Broadcast THEN t
    ELSE CASE r.command = "keepalive" -> Keepalive(t, r)
           [] Completes(r)            -> Without(t, r.channel)
           [] OTHER                   -> t

\* Mistake: a deadline only matters when a report comes in.
NeverExpire(t) == t

Expire(t) == [c \in {d \in DOMAIN t : t[d] > 0} |-> t[c]]

\* A unit of time passes.
Older(t) == [c \in DOMAIN t |-> IF t[c] = 0 THEN 0 ELSE t[c] - 1]
===========================================================================
