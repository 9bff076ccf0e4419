---------------------------- MODULE CacheStore ----------------------------
(***************************************************************************)
(* The credential store of internal/cache/store.go as operators on a store *)
(* value.  Every method of Store runs under one mutex, so a method is one  *)
(* atomic function of the store, the clock and its arguments; the modules  *)
(* that own a store variable (CredentialCache, PinRequest) apply them.     *)
(* An operator marked "Mistake" is a wrong variant of the one that follows *)
(* it; nothing uses it.  Put in its place, it must break a property.       *)
(*                                                                         *)
(* A store is a record                                                     *)
(*   seq      the counter behind next(): generations and lease tokens      *)
(*   entries  per key the entry, or Absent where the map has no such key   *)
(*   tickets  the outstanding leases, each with the token that indexes it  *)
(*   seen     per caller and key the generation last handed to or stored   *)
(*            by that caller (0: asked and was refused a candidate), or    *)
(*            Absent where the map has no such record                      *)
(***************************************************************************)
EXTENDS Naturals, FiniteSets, Functions

CONSTANTS
    Key,             \* cache keys: path, kind and fingerprint
    AgentKey,        \* the keys without a path: PIN prompts of ssh-agent
    Stamp,           \* file metadata and device connection of an identity
    Caller,          \* pid:start-time of the process that asks
    Secret,          \* the responses askpass.Validate accepts, never empty
    NoSecret,        \* nil, or a response that Commit refuses
    Absent,          \* a key that a map does not hold
    TTL,             \* lifetime of a credential; 0 disables the cache
    TicketLifetime,  \* lifetime of a lease
    MaxKeys,         \* bounds of the three maps
    MaxCallers,
    MaxTickets

Identity == [key : Key, stamp : Stamp]

Entry == [stamp : Stamp, generation : Nat, secret : Secret \cup {NoSecret},
          expires : Nat]

Ticket == [token : Nat, id : Identity, generation : Nat, caller : Caller,
           expires : Nat]

Store == [seq : Nat,
          entries : [Key -> Entry \cup {Absent}],
          tickets : SUBSET Ticket,
          seen : [Caller \X Key -> Nat \cup {Absent}]]

ASSUME KeysAssumption == IsFiniteSet(Key) /\ AgentKey \subseteq Key

ASSUME CallersAssumption == IsFiniteSet(Caller)

ASSUME MarkersAssumption ==
    /\ NoSecret \notin Secret
    /\ Absent \notin Nat
    /\ Absent \notin Entry

ASSUME LimitsAssumption ==
    /\ {TTL, TicketLifetime, MaxKeys, MaxCallers, MaxTickets} \subseteq Nat

---------------------------------------------------------------------------
(* The empty store, and what a store holds.                                *)

NewStore == [seq     |-> 0,
             entries |-> [k \in Key |-> Absent],
             tickets |-> {},
             seen    |-> [p \in Caller \X Key |-> Absent]]

HeldKeys(s) == {k \in Key : s.entries[k] # Absent}

SeenPairs(s) == {p \in Caller \X Key : s.seen[p] # Absent}

FilledKeys(s) == {k \in HeldKeys(s) : s.entries[k].secret # NoSecret}

---------------------------------------------------------------------------
(* Generations.                                                            *)

\* An entry without a secret.  Its expiry is never read, hence 0.
Vacant(stamp, generation) ==
    [stamp |-> stamp, generation |-> generation, secret |-> NoSecret,
     expires |-> 0]

\* Mistake: erase draws a generation but forgets to clear the secret.
RenewKeepingSecret(s, k, stamp) ==
    [s EXCEPT !.seq = @ + 1,
              !.entries[k] = IF s.entries[k] = Absent
                             THEN Vacant(stamp, s.seq + 1)
                             ELSE [@ EXCEPT !.stamp = stamp,
                                            !.generation = s.seq + 1]]

\* A fresh generation for k: a new entry, erase, or erase and a new identity.
Renew(s, k, stamp) ==
    [s EXCEPT !.seq = @ + 1,
              !.entries[k] = Vacant(stamp, s.seq + 1)]

---------------------------------------------------------------------------
(* expire: wipe the overdue secrets and drop the overdue leases.  Go walks *)
(* the map in any order, so any numbering of the wiped entries may result. *)

Overdue(s, t) == {k \in FilledKeys(s) : t >= s.entries[k].expires}

Numberings(s, K) ==
    {g \in [K -> (s.seq + 1)..(s.seq + Cardinality(K))] : IsInjective(g)}

Wiped(s, g) ==
    [k \in Key |-> IF k \in DOMAIN g THEN Vacant(s.entries[k].stamp, g[k])
                                     ELSE s.entries[k]]

Expire(s, t) ==
    {[s EXCEPT !.seq = @ + Cardinality(Overdue(s, t)),
               !.entries = Wiped(s, g),
               !.tickets = {k \in @ : t < k.expires}] :
        g \in Numberings(s, Overdue(s, t))}

---------------------------------------------------------------------------
(* Begin, on a store that has just expired at time t.                      *)

Retrying(s, id, c) ==
    /\ id.key \notin AgentKey
    /\ s.seen[<<c, id.key>>] # Absent

NoRoom(s, id, c) ==
    \/ /\ id.key \notin AgentKey
       /\ ~Retrying(s, id, c)
       /\ Cardinality(SeenPairs(s)) >= MaxCallers
    \/ Cardinality(s.tickets) >= MaxTickets
    \/ /\ s.entries[id.key] = Absent
       /\ Cardinality(HeldKeys(s)) >= MaxKeys

\* Mistake: a changed file keeps the generation of its entry.
OpenedInPlace(s, id) ==
    IF id.key \in HeldKeys(s)
    THEN [s EXCEPT !.entries[id.key].stamp = id.stamp]
    ELSE Renew(s, id.key, id.stamp)

\* The entry exists and belongs to the identity that asks.
Opened(s, id) ==
    IF id.key \in HeldKeys(s) /\ s.entries[id.key].stamp = id.stamp
    THEN s
    ELSE Renew(s, id.key, id.stamp)

\* A retry erases the very candidate this caller was handed or stored, and
\* never a newer one.
Retracted(s, id, c) ==
    IF /\ Retrying(s, id, c)
       /\ s.seen[<<c, id.key>>] = s.entries[id.key].generation
    THEN Renew(s, id.key, id.stamp)
    ELSE s

\* Mistake: no record is reserved for a caller that gets no candidate.
RememberHandouts(s, id, c, generation) ==
    IF id.key \in AgentKey \/ generation = 0
    THEN s
    ELSE [s EXCEPT !.seen[<<c, id.key>>] = generation]

Remember(s, id, c, generation) ==
    IF id.key \in AgentKey
    THEN s
    ELSE [s EXCEPT !.seen[<<c, id.key>>] = generation]

Issue(s, id, c, t) ==
    [s EXCEPT !.seq = @ + 1,
              !.tickets = @ \cup
                  {[token |-> s.seq + 1, id |-> id,
                    generation |-> s.entries[id.key].generation,
                    caller |-> c, expires |-> t + TicketLifetime]}]

\* "file-changed" and "retry" are wordings of a miss that only tracing shows.
NoLookup(reason) ==
    [reason |-> reason, generation |-> 0, secret |-> NoSecret, token |-> 0]

Begin(s, t, id, c) ==
    LET ready == Retracted(Opened(s, id), id, c)
        entry == ready.entries[id.key]
    IN IF TTL = 0
       THEN [store |-> s, lookup |-> NoLookup("disabled")]
       ELSE IF NoRoom(s, id, c)
       THEN [store |-> s, lookup |-> NoLookup("capacity")]
       ELSE IF ~Retrying(s, id, c) /\ entry.secret # NoSecret
       THEN [store  |-> Remember(ready, id, c, entry.generation),
             lookup |-> [reason |-> "hit", generation |-> entry.generation,
                         secret |-> entry.secret, token |-> 0]]
       ELSE [store  |-> Issue(Remember(ready, id, c, 0), id, c, t),
             lookup |-> [reason |-> "miss", generation |-> 0,
                         secret |-> NoSecret, token |-> ready.seq + 1]]

---------------------------------------------------------------------------
(* Current and Commit, on a store that has just expired; Reject and Forget *)
(* on any store.                                                           *)

Holds(s, id, generation) ==
    /\ id.key \in HeldKeys(s)
    /\ s.entries[id.key].stamp = id.stamp
    /\ s.entries[id.key].generation = generation

IsCurrent(s, id, generation) ==
    Holds(s, id, generation) /\ id.key \in FilledKeys(s)

Reject(s, id, generation) ==
    IF Holds(s, id, generation) THEN Renew(s, id.key, id.stamp) ELSE s

Fill(s, id, secret, t) ==
    [s EXCEPT !.seq = @ + 1,
              !.entries[id.key] =
                  [stamp |-> id.stamp, generation |-> s.seq + 1,
                   secret |-> secret, expires |-> t + TTL]]

\* Mistake: a lease is good in anybody's hands.
PresentedByAnyone(s, token, c) == {k \in s.tickets : k.token = token}

Presented(s, token, c) == {k \in s.tickets : k.token = token /\ k.caller = c}

Commit(s, t, token, id, c, secret) ==
    LET presented == Presented(s, token, c)
        spent == [s EXCEPT !.tickets = @ \ presented]
    IN IF \E k \in presented : /\ k.id = id
                               /\ Holds(s, id, k.generation)
                               /\ secret # NoSecret
       THEN [store  |-> Remember(Fill(spent, id, secret, t), id, c, s.seq + 1),
             stored |-> TRUE]
       ELSE [store |-> spent, stored |-> FALSE]

\* Mistake: the leases outlive the entries.
ForgetEntries(s, K) ==
    [s EXCEPT !.seq = @ + Cardinality(HeldKeys(s) \cap K),
              !.entries = [k \in Key |-> IF k \in K THEN Absent ELSE @[k]]]

\* Forget(&key) is Forget(s, {key}); Forget(nil) is Forget(s, Key).
Forget(s, K) ==
    [s EXCEPT !.seq = @ + Cardinality(HeldKeys(s) \cap K),
              !.entries = [k \in Key |-> IF k \in K THEN Absent ELSE @[k]],
              !.tickets = {k \in @ : k.id.key \notin K}]

---------------------------------------------------------------------------
(* Sweep, on a store that has just expired: the seen records and leases    *)
(* whose caller its two loops found dead, then the entries nobody needs.   *)

Pruned(s, deadPairs, deadTickets) ==
    [s EXCEPT !.seen = [p \in Caller \X Key |->
                           IF p \in deadPairs THEN Absent ELSE @[p]],
              !.tickets = @ \ deadTickets]

Unneeded(s) ==
    {k \in HeldKeys(s) : /\ s.entries[k].secret = NoSecret
                         /\ \A l \in s.tickets : l.id.key # k}

Sweep(s, deadPairs, deadTickets) ==
    LET pruned == Pruned(s, deadPairs, deadTickets)
    IN [pruned EXCEPT !.entries =
            [k \in Key |-> IF k \in Unneeded(pruned) THEN Absent ELSE @[k]]]

---------------------------------------------------------------------------
(* What every store that the methods produce satisfies.                    *)

\* The three maps stay within their limits.  Commit adds a seen record
\* without looking at the limit: Begin has reserved it (store.go:77, 110) and
\* Sweep drops a lease together with the record (store.go:193-202).
WithinLimits(s) ==
    /\ Cardinality(HeldKeys(s)) <= MaxKeys
    /\ IsFiniteSet(s.tickets) /\ Cardinality(s.tickets) <= MaxTickets
    /\ Cardinality(SeenPairs(s)) <= MaxCallers

\* A lease never outlives what its holder needs to use it: the entry of its
\* key and, for a file key, the seen record of its caller.
LeasesTracked(s) ==
    \A l \in s.tickets :
        /\ l.id.key \in HeldKeys(s)
        /\ l.id.key \notin AgentKey => <<l.caller, l.id.key>> \in SeenPairs(s)

\* A generation or a token is used once: every number in the store was drawn
\* from seq, no two leases share a token, no two entries share a generation.
NumbersUsedOnce(s) ==
    /\ \A k \in HeldKeys(s) : s.entries[k].generation \in 1..s.seq
    /\ \A l \in s.tickets : l.token \in 1..s.seq /\ l.generation \in 1..s.seq
    /\ \A p \in SeenPairs(s) : s.seen[p] \in 0..s.seq
    /\ \A l, m \in s.tickets : l.token = m.token => l = m
    /\ \A j, k \in HeldKeys(s) :
          s.entries[j].generation = s.entries[k].generation => j = k

\* What a generation stands for, although entries, leases and seen records
\* are written by different calls: a lease of the entry's generation was
\* issued for the entry's identity, and a seen record of that generation
\* means that this very secret was handed to, or stored by, the caller.
GenerationsMeanWhatTheySay(s) ==
    /\ \A l \in s.tickets :
          l.id.key \in HeldKeys(s) =>
              (s.entries[l.id.key].generation = l.generation
                   => s.entries[l.id.key].stamp = l.id.stamp)
    /\ \A p \in SeenPairs(s) :
          /\ p[2] \notin AgentKey
          /\ p[2] \in HeldKeys(s) =>
                (s.seen[p] = s.entries[p[2]].generation
                     => p[2] \in FilledKeys(s))

StoreOK(s) ==
    /\ s \in Store
    /\ WithinLimits(s)
    /\ LeasesTracked(s)
    /\ NumbersUsedOnce(s)
    /\ GenerationsMeanWhatTheySay(s)

===========================================================================
