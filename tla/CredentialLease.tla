-------------------------- MODULE CredentialLease --------------------------
(***************************************************************************)
(* What the credential cache promises, without generations, counters, map  *)
(* limits or sweeps.  A key holds at most one live credential.  A caller   *)
(* that is not given the credential may be granted a lease, and only the   *)
(* bearer of a valid lease can put a credential in place.  Everything that *)
(* makes an answer stale - another submission, a rejection, a forget, a    *)
(* change of the file or the device, the end of a lifetime - revokes the   *)
(* leases of the key in the very step in which it happens.                 *)
(***************************************************************************)
EXTENDS Naturals

CONSTANTS Key, AgentKey, Stamp, Caller, Secret, None, TTL, TicketLifetime

VARIABLES
    now,    \* the clock
    alive,  \* the callers that have not exited
    cred,   \* per key None, or the live credential: its stamp, secret,
            \* deadline and the callers that were handed it or put it there
    lease,  \* the valid leases
    token,  \* every token granted so far is at most this
    barred, \* the file keys for which a caller has had its one chance
    reply   \* what the last step gave its caller

lvars == <<now, alive, cred, lease, token, barred, reply>>

Identity == [key : Key, stamp : Stamp]

Quiet == [what |-> "quiet"]

Supplied(c, id, secret) ==
    [what |-> "supplied", caller |-> c, id |-> id, secret |-> secret]

Stored(c, id, secret) ==
    [what |-> "stored", caller |-> c, id |-> id, secret |-> secret]

Forgot(K) == [what |-> "forgot", keys |-> K]

LeaseInit ==
    /\ now = 0
    /\ alive = Caller
    /\ cred = [k \in Key |-> None]
    /\ lease = {}
    /\ token = 0
    /\ barred = {}
    /\ reply = Quiet

FileKey(k) == k \notin AgentKey

\* The leases that survive when the credential of k is replaced or dropped.
Elsewhere(k) == {l \in lease : l.id.key # k}

---------------------------------------------------------------------------
\* A caller is handed the live credential of exactly this identity, and a
\* file key's caller only on its first request.  Its deadline does not move.
Supply(c, id) ==
    /\ cred[id.key] # None
    /\ cred[id.key].stamp = id.stamp
    /\ <<c, id.key>> \notin barred
    /\ reply' = Supplied(c, id, cred[id.key].secret)
    /\ IF FileKey(id.key)
       THEN /\ cred' = [cred EXCEPT ![id.key].holders = @ \cup {c}]
            /\ barred' = barred \cup {<<c, id.key>>}
       ELSE UNCHANGED <<cred, barred>>
    /\ UNCHANGED <<now, alive, lease>>

\* Or it is granted a lease.  That drops the credential, and revokes the
\* other leases, only if the credential is of another identity or this caller
\* was given it and comes back: nobody else's newer credential is touched.
Grant(c, id) ==
    LET drop == cred[id.key] # None /\ \/ cred[id.key].stamp # id.stamp
                                       \/ c \in cred[id.key].holders
        kept == IF drop THEN Elsewhere(id.key)
                ELSE {l \in lease : l.id.key = id.key => l.id = id}
    IN /\ cred[id.key] = None \/ drop \/ <<c, id.key>> \in barred
       /\ cred' = IF drop THEN [cred EXCEPT ![id.key] = None] ELSE cred
       /\ token' > token
       /\ lease' = kept \cup {[token |-> token', id |-> id, caller |-> c,
                               deadline |-> now + TicketLifetime]}
       /\ barred' = IF FileKey(id.key) THEN barred \cup {<<c, id.key>>}
                                       ELSE barred
       /\ reply' = Quiet
       /\ UNCHANGED <<now, alive>>

\* The bearer of a valid lease puts a credential in place for one TTL, which
\* uses up this lease and revokes every other lease of the key.
Put(l, secret) ==
    /\ cred' = [cred EXCEPT ![l.id.key] =
                  [stamp |-> l.id.stamp, secret |-> secret,
                   deadline |-> now + TTL,
                   holders |-> IF FileKey(l.id.key) THEN {l.caller} ELSE {}]]
    /\ lease' = Elsewhere(l.id.key)
    /\ reply' = Stored(l.caller, l.id, secret)
    /\ UNCHANGED <<now, alive, barred>>

\* It may also be handed in for nothing.
Waste(l) ==
    /\ lease' = lease \ {l}
    /\ reply' = Quiet
    /\ UNCHANGED <<now, alive, cred, barred>>

\* A credential that its device refused is dropped, the leases revoked.
Revoke(k) ==
    /\ cred[k] # None
    /\ cred' = [cred EXCEPT ![k] = None]
    /\ lease' = Elsewhere(k)
    /\ reply' = Quiet
    /\ UNCHANGED <<now, alive, barred>>

Forget(K) ==
    /\ cred' = [k \in Key |-> IF k \in K THEN None ELSE cred[k]]
    /\ lease' = {l \in lease : l.id.key \notin K}
    /\ reply' = Forgot(K)
    /\ UNCHANGED <<now, alive, barred>>

\* A call that gives nothing: the cache is full or disabled, a lease stale.
Refuse ==
    /\ reply' = Quiet
    /\ UNCHANGED <<now, alive, cred, lease, barred>>

\* Callers exit, and what was kept on behalf of those that are gone may go.
Exit ==
    /\ alive' \subseteq alive
    /\ barred' \subseteq barred
    /\ \A p \in barred \ barred' : p[1] \notin alive'
    /\ lease' \subseteq lease
    /\ \A l \in lease \ lease' : l.caller \notin alive'
    /\ cred' = [k \in Key |->
                  IF cred[k] = None THEN None
                  ELSE [cred[k] EXCEPT !.holders =
                            {c \in @ : <<c, k>> \in barred'}]]
    /\ reply' = Quiet
    /\ UNCHANGED now

\* Time passes: a credential ends at its deadline and takes the leases of its
\* key with it, a lease ends at its own.
Lapsed(k) == cred[k] # None /\ now' >= cred[k].deadline

Tick ==
    /\ now' = now + 1
    /\ cred' = [k \in Key |-> IF Lapsed(k) THEN None ELSE cred[k]]
    /\ lease' = {l \in lease : now' < l.deadline /\ ~Lapsed(l.id.key)}
    /\ reply' = Quiet
    /\ UNCHANGED <<alive, token, barred>>

LeaseNext ==
    \/ \E c \in Caller, id \in Identity : Grant(c, id)
    \/ /\ token' >= token
       /\ \/ \E c \in Caller, id \in Identity : Supply(c, id)
          \/ \E l \in lease : Waste(l) \/ \E v \in Secret : Put(l, v)
          \/ \E k \in Key : Revoke(k)
          \/ \E k \in Key : Forget({k})
          \/ Forget(Key)
          \/ Refuse
          \/ Exit
    \/ Tick

LeaseSpec == LeaseInit /\ [][LeaseNext]_lvars
===========================================================================
