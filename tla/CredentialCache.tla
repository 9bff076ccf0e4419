-------------------------- MODULE CredentialCache --------------------------
(***************************************************************************)
(* The credential cache of the service: one Store (internal/cache) called  *)
(* by any number of requests, of the forget and identity operations of     *)
(* internal/cacheipc, and of its sweep ticker, while callers exit and time *)
(* passes.  A call is atomic, as in the code (Store.mu); everything        *)
(* between two calls of one request is an interleaving.                    *)
(*                                                                         *)
(* now is time.Since(start) of Serve.  The store reads it a second time at *)
(* the end of Begin and Commit, without giving up its mutex: the two reads *)
(* of one call are one instant here.                                       *)
(***************************************************************************)
EXTENDS CacheStore

CONSTANTS
    MaxNow,  \* bound: the clock stops here
    MaxSeq   \* bound: Begin and Commit are called below this counter

ASSUME BoundsAssumption == MaxNow \in Nat /\ MaxSeq \in Nat

\* A lease lasts; what stands for an absent credential is none.
ASSUME LeaseAssumption ==
    /\ TicketLifetime > 0
    /\ Absent \notin [stamp : Stamp, secret : Secret, deadline : Nat,
                      holders : SUBSET Caller]

VARIABLES
    store,   \* the Store
    now,     \* the monotonic clock
    alive,   \* the callers whose process still exists
    reply,   \* what the last call gave its caller
    asked,   \* history: who has been answered for which file key
    again    \* history: a living caller was handed a second candidate

vars == <<store, now, alive, reply, asked, again>>

Quiet == [what |-> "quiet"]

Supplied(c, id, secret) ==
    [what |-> "supplied", caller |-> c, id |-> id, secret |-> secret]

Stored(c, id, secret) ==
    [what |-> "stored", caller |-> c, id |-> id, secret |-> secret]

Forgot(K) == [what |-> "forgot", keys |-> K]

Replies ==
    {Quiet}
        \cup {Supplied(c, id, v) : c \in Caller, id \in Identity, v \in Secret}
        \cup {Stored(c, id, v) : c \in Caller, id \in Identity, v \in Secret}
        \cup {Forgot(K) : K \in SUBSET Key}

\* Types: the store's maps, the clock and the history hold what they should.
TypeOK ==
    /\ store \in Store
    /\ now \in Nat
    /\ alive \subseteq Caller
    /\ reply \in Replies
    /\ asked \subseteq Caller \X (Key \ AgentKey)
    /\ again \in BOOLEAN

Init ==
    /\ store = NewStore
    /\ now = 0
    /\ alive = Caller
    /\ reply = Quiet
    /\ asked = {}
    /\ again = FALSE

---------------------------------------------------------------------------
(* A request asks for a candidate.  Its caller may have exited already:    *)
(* the request learns of that only when its connection closes.             *)

BeginReply(c, id, lookup) ==
    IF lookup.reason = "hit" THEN Supplied(c, id, lookup.secret) ELSE Quiet

BeginCall(c, id) ==
    \E s \in Expire(store, now) :
        LET r == Begin(s, now, id, c)
            answered == {p \in {<<c, id.key>>} :
                           /\ id.key \notin AgentKey
                           /\ r.lookup.reason \in {"hit", "miss"}}
        IN /\ store.seq < MaxSeq
           /\ store' = r.store
           /\ reply' = BeginReply(c, id, r.lookup)
           /\ asked' = asked \cup answered
           /\ again' = (again \/ ( /\ r.lookup.reason = "hit"
                                   /\ <<c, id.key>> \in asked
                                   /\ c \in alive ))
           /\ UNCHANGED <<now, alive>>

(* A request presents a lease token, its own or any number, with the       *)
(* identity it resolved just before and the response it delivered.         *)

Tokens == {0} \cup {k.token : k \in store.tickets}

CommitCall(c, id, token, secret) ==
    \E s \in Expire(store, now) :
        LET r == Commit(s, now, token, id, c, secret)
        IN /\ store.seq < MaxSeq
           /\ store' = r.store
           /\ reply' = IF r.stored THEN Stored(c, id, secret) ELSE Quiet
           /\ UNCHANGED <<now, alive, asked, again>>

\* Current only reads, but expires the store first.
CurrentCall ==
    /\ store' \in Expire(store, now)
    /\ reply' = Quiet
    /\ UNCHANGED <<now, alive, asked, again>>

\* The device refused a candidate.  Its generation was read from the store by
\* an earlier Begin; any other number leaves the store alone.
RejectCall(id) ==
    \E generation \in {store.entries[k].generation : k \in FilledKeys(store)} :
        /\ store' = Reject(store, id, generation)
        /\ reply' = Quiet
        /\ UNCHANGED <<now, alive, asked, again>>

\* forget of one key, or of all of them.
ForgetCall(K) ==
    /\ store' = Forget(store, K)
    /\ reply' = Forgot(K)
    /\ UNCHANGED <<now, alive, asked, again>>

(* The sweep asks for each record whether its caller is alive, first for   *)
(* all seen records and then for all leases; callers may exit meanwhile.   *)

PairsOf(s, C) == {p \in SeenPairs(s) : p[1] \in C}

TicketsOf(s, C) == {k \in s.tickets : k.caller \in C}

SweepCall ==
    \E s \in Expire(store, now), exiting \in SUBSET alive :
        LET dead == Caller \ alive
        IN \E latePairs \in SUBSET PairsOf(s, exiting),
              lateTickets \in SUBSET TicketsOf(s, exiting) :
             /\ \A p \in latePairs : TicketsOf(s, {p[1]}) \subseteq lateTickets
             /\ store' = Sweep(s, PairsOf(s, dead) \cup latePairs,
                                  TicketsOf(s, dead) \cup lateTickets)
             /\ alive' = alive \ exiting
             /\ reply' = Quiet
             /\ UNCHANGED <<now, asked, again>>

---------------------------------------------------------------------------
(* The environment.                                                        *)

CallerExits(c) ==
    /\ c \in alive
    /\ alive' = alive \ {c}
    /\ reply' = Quiet
    /\ UNCHANGED <<store, now, asked, again>>

Tick ==
    /\ now < MaxNow
    /\ now' = now + 1
    /\ reply' = Quiet
    /\ UNCHANGED <<store, alive, asked, again>>

Next ==
    \/ \E c \in Caller, id \in Identity : BeginCall(c, id)
    \/ \E c \in Caller, id \in Identity, token \in Tokens,
          secret \in Secret \cup {NoSecret} : CommitCall(c, id, token, secret)
    \/ CurrentCall
    \/ \E id \in Identity : RejectCall(id)
    \/ \E k \in Key : ForgetCall({k})
    \/ ForgetCall(Key)
    \/ SweepCall
    \/ \E c \in Caller : CallerExits(c)
    \/ Tick

Spec == Init /\ [][Next]_vars

---------------------------------------------------------------------------
(* Safety of the store.                                                    *)

\* The three maps never exceed their limits, the seen records included.
Bounded == WithinLimits(store)

\* An outstanding lease always has the entry and the seen record it needs,
\* whatever was forgotten, swept or expired meanwhile.
LeasesTrackedAlways == LeasesTracked(store)

\* Generations and tokens are never reused, also across an entry that was
\* swept away and created again.
NumbersUsedOnceAlways == NumbersUsedOnce(store)

\* An equal generation proves that nothing happened to the key in between.
GenerationsSound == GenerationsMeanWhatTheySay(store)

\* The four together, with the types: what every call preserves.
StoreInv == TypeOK /\ StoreOK(store)

\* "File-based requests retain retry protection" (store.go:74): while its
\* process lives, a caller is handed a candidate for a file key only by its
\* first answered request, whatever others store, forget or let expire.
NoSecondCandidate == ~again

\* Why it holds: a living caller's record outlasts everything but its caller.
RetryRemembered ==
    \A p \in asked : p[1] \in alive => p \in SeenPairs(store)

RetryInv == StoreInv /\ RetryRemembered /\ NoSecondCandidate

\* A credential that stays cached changes in no respect - not its value, not
\* its identity, not its deadline - except by a commit on its key: reading a
\* candidate does not prolong its life.
OnlyCommitChanges ==
    [][\A k \in FilledKeys(store) \cap FilledKeys(store)' :
          store'.entries[k] # store.entries[k]
             => reply'.what = "stored" /\ reply'.id.key = k]_vars

---------------------------------------------------------------------------
(* The store implements CredentialLease.  A ticket is a valid lease if its *)
(* generation is the current one of its key; an overdue secret is no       *)
(* longer a credential although it is still in memory.                     *)

LiveKeys == FilledKeys(store) \ Overdue(store, now)

Holders(k) == {c \in Caller : store.seen[<<c, k>>] = store.entries[k].generation}

Credentials ==
    [k \in Key |->
        IF k \notin LiveKeys THEN Absent
        ELSE [stamp    |-> store.entries[k].stamp,
              secret   |-> store.entries[k].secret,
              deadline |-> store.entries[k].expires,
              holders  |-> Holders(k)]]

ValidTickets ==
    {l \in store.tickets : /\ Holds(store, l.id, l.generation)
                           /\ l.id.key \notin Overdue(store, now)
                           /\ now < l.expires}

Leases ==
    {[token |-> l.token, id |-> l.id, caller |-> l.caller,
      deadline |-> l.expires] : l \in ValidTickets}

Lease == INSTANCE CredentialLease
            WITH None <- Absent, cred <- Credentials, lease <- Leases,
                 token <- store.seq, barred <- SeenPairs(store)

\* Whatever interleaving of calls, expiries, sweeps and exits: a candidate is
\* supplied, and a response stored, only as CredentialLease allows.
ImplementsLease == Lease!LeaseSpec
===========================================================================
