----------------------- MODULE CredentialCacheProofs -----------------------
(***************************************************************************)
(* StoreInv is an invariant of the credential cache, for every set of      *)
(* keys, stamps, callers and secrets and for all limits and lifetimes.     *)
(* The work is in CacheStoreProofs: each operator preserves StoreOK.  Here *)
(* every action is reduced to the operators it applies.                    *)
(***************************************************************************)
EXTENDS CredentialCache, CacheStoreProofs

\* The part of TypeOK that is not about the store.
Others ==
    /\ now \in Nat
    /\ alive \subseteq Caller
    /\ reply \in Replies
    /\ asked \subseteq Caller \X (Key \ AgentKey)
    /\ again \in BOOLEAN

LEMMA StoreInvParts == StoreInv <=> StoreOK(store) /\ Others
  BY DEF StoreInv, TypeOK, StoreOK, Others

LEMMA RepliesContain ==
    /\ Quiet \in Replies
    /\ \A c \in Caller, id \in Identity, v \in Secret :
          Supplied(c, id, v) \in Replies /\ Stored(c, id, v) \in Replies
    /\ \A K \in SUBSET Key : Forgot(K) \in Replies
  BY DEF Replies

LEMMA InitStoreInv == Init => StoreInv
  <1> SUFFICES ASSUME Init
               PROVE  StoreOK(store) /\ Others
    BY StoreInvParts
  <1>1. StoreOK(store)
    BY NewStoreOK DEF Init
  <1>2. Others
    BY RepliesContain DEF Init, Others
  <1> QED
    BY <1>1, <1>2

LEMMA StepStoreInv == StoreInv /\ [Next]_vars => StoreInv'
  <1> SUFFICES ASSUME StoreOK(store), Others, [Next]_vars
               PROVE  StoreOK(store)' /\ Others'
    BY DEF StoreInv, TypeOK, StoreOK, Others
  <1>1. now \in Nat
    BY DEF Others
  <1>2. ASSUME NEW c \in Caller, NEW id \in Identity, BeginCall(c, id)
        PROVE  StoreOK(store)' /\ Others'
    <2>1. PICK s \in Expire(store, now) :
            /\ store' = Begin(s, now, id, c).store
            /\ reply' = BeginReply(c, id, Begin(s, now, id, c).lookup)
            /\ asked' = asked \cup
                 {p \in {<<c, id.key>>} :
                     /\ id.key \notin AgentKey
                     /\ Begin(s, now, id, c).lookup.reason \in {"hit", "miss"}}
            /\ again' = (again \/ ( /\ Begin(s, now, id, c).lookup.reason = "hit"
                                    /\ <<c, id.key>> \in asked
                                    /\ c \in alive ))
            /\ UNCHANGED <<now, alive>>
      BY <1>2 DEF BeginCall
    <2>2. StoreOK(s)
      BY <1>1, ExpireOK
    <2>3. /\ StoreOK(Begin(s, now, id, c).store)
          /\ Begin(s, now, id, c).lookup.reason = "hit"
                => Begin(s, now, id, c).lookup.secret \in Secret
      BY <1>1, <2>2, BeginOK
    <2>4. reply' \in Replies
      BY <2>1, <2>3, RepliesContain DEF BeginReply
    <2>5. asked' \subseteq Caller \X (Key \ AgentKey)
      BY <2>1 DEF Others, Identity
    <2>6. again' \in BOOLEAN
      BY <2>1 DEF Others
    <2> QED
      BY <2>1, <2>3, <2>4, <2>5, <2>6 DEF Others
  <1>3. ASSUME NEW c \in Caller, NEW id \in Identity, NEW token \in Tokens,
               NEW secret \in Secret \cup {NoSecret},
               CommitCall(c, id, token, secret)
        PROVE  StoreOK(store)' /\ Others'
    <2>1. PICK s \in Expire(store, now) :
            /\ store' = Commit(s, now, token, id, c, secret).store
            /\ reply' = IF Commit(s, now, token, id, c, secret).stored
                        THEN Stored(c, id, secret) ELSE Quiet
            /\ UNCHANGED <<now, alive, asked, again>>
      BY <1>3 DEF CommitCall
    <2>2. StoreOK(s)
      BY <1>1, ExpireOK
    <2>3. /\ StoreOK(Commit(s, now, token, id, c, secret).store)
          /\ Commit(s, now, token, id, c, secret).stored => secret \in Secret
      BY <1>1, <2>2, CommitOK
    <2>4. reply' \in Replies
      BY <2>1, <2>3, RepliesContain
    <2> QED
      BY <2>1, <2>3, <2>4 DEF Others
  <1>4. ASSUME CurrentCall
        PROVE  StoreOK(store)' /\ Others'
    <2>1. StoreOK(store')
      BY <1>1, <1>4, ExpireOK DEF CurrentCall
    <2> QED
      BY <1>4, <2>1, RepliesContain DEF CurrentCall, Others
  <1>5. ASSUME NEW id \in Identity, RejectCall(id)
        PROVE  StoreOK(store)' /\ Others'
    <2>1. PICK g \in {store.entries[k].generation : k \in FilledKeys(store)} :
            /\ store' = Reject(store, id, g)
            /\ reply' = Quiet
            /\ UNCHANGED <<now, alive, asked, again>>
      BY <1>5 DEF RejectCall
    <2>2. StoreOK(store')
      BY <2>1, RejectOK
    <2> QED
      BY <2>1, <2>2, RepliesContain DEF Others
  <1>6. ASSUME NEW K \in SUBSET Key, ForgetCall(K)
        PROVE  StoreOK(store)' /\ Others'
    <2>1. StoreOK(store')
      BY <1>6, ForgetOK DEF ForgetCall
    <2> QED
      BY <1>6, <2>1, RepliesContain DEF ForgetCall, Others
  <1>7. ASSUME SweepCall
        PROVE  StoreOK(store)' /\ Others'
    <2>1. PICK s \in Expire(store, now), exiting \in SUBSET alive :
            \E latePairs \in SUBSET PairsOf(s, exiting),
               lateTickets \in SUBSET TicketsOf(s, exiting) :
              /\ \A p \in latePairs : TicketsOf(s, {p[1]}) \subseteq lateTickets
              /\ store' = Sweep(s, PairsOf(s, Caller \ alive) \cup latePairs,
                                   TicketsOf(s, Caller \ alive) \cup lateTickets)
              /\ alive' = alive \ exiting
              /\ reply' = Quiet
              /\ UNCHANGED <<now, asked, again>>
      BY <1>7 DEF SweepCall
    <2>2. PICK latePairs \in SUBSET PairsOf(s, exiting),
               lateTickets \in SUBSET TicketsOf(s, exiting) :
            /\ \A p \in latePairs : TicketsOf(s, {p[1]}) \subseteq lateTickets
            /\ store' = Sweep(s, PairsOf(s, Caller \ alive) \cup latePairs,
                                 TicketsOf(s, Caller \ alive) \cup lateTickets)
            /\ alive' = alive \ exiting
            /\ reply' = Quiet
            /\ UNCHANGED <<now, asked, again>>
      BY <2>1
    <2>3. StoreOK(s)
      BY <1>1, ExpireOK
    <2> DEFINE P == PairsOf(s, Caller \ alive) \cup latePairs
               T == TicketsOf(s, Caller \ alive) \cup lateTickets
    <2>4. ASSUME NEW p \in P, NEW l \in s.tickets, l.caller = p[1]
          PROVE  l \in T
      <3>1. CASE p \in latePairs
        BY <2>2, <2>4, <3>1 DEF TicketsOf
      <3>2. CASE p \in PairsOf(s, Caller \ alive)
        BY <2>4, <3>2 DEF TicketsOf, PairsOf
      <3> QED
        BY <3>1, <3>2
    <2> HIDE DEF P, T
    <2>5. StoreOK(Sweep(s, P, T))
      BY <2>3, <2>4, SweepOK
    <2>6. StoreOK(store')
      BY <2>2, <2>5 DEF P, T
    <2> QED
      BY <2>2, <2>6, RepliesContain DEF Others
  <1>8. ASSUME NEW c \in Caller, CallerExits(c)
        PROVE  StoreOK(store)' /\ Others'
    BY <1>8, RepliesContain DEF CallerExits, Others
  <1>9. ASSUME Tick
        PROVE  StoreOK(store)' /\ Others'
    BY <1>9, RepliesContain DEF Tick, Others
  <1>10. ASSUME UNCHANGED vars
         PROVE  StoreOK(store)' /\ Others'
    BY <1>10 DEF vars, Others
  <1>11. ASSUME NEW k \in Key, ForgetCall({k})
         PROVE  StoreOK(store)' /\ Others'
    BY <1>6, <1>11
  <1>12. ASSUME ForgetCall(Key)
         PROVE  StoreOK(store)' /\ Others'
    BY <1>6, <1>12
  <1> QED
    BY <1>2, <1>3, <1>4, <1>5, <1>7, <1>8, <1>9, <1>10, <1>11, <1>12 DEF Next

---------------------------------------------------------------------------
\* The store keeps to its limits, tracks its leases, never reuses a number,
\* and an equal generation means that nothing happened in between.
THEOREM StoreInvariant == Spec => []StoreInv
  <1>1. Init => StoreInv
    BY InitStoreInv
  <1>2. StoreInv /\ [Next]_vars => StoreInv'
    BY StepStoreInv
  <1> QED
    BY <1>1, <1>2, PTL DEF Spec

\* Types.
THEOREM TypeCorrect == Spec => []TypeOK
  <1>1. StoreInv => TypeOK
    BY DEF StoreInv
  <1> QED
    BY <1>1, StoreInvariant, PTL

\* No map of the store outgrows its limit; in particular Commit, which adds a
\* seen record without looking (store.go:153), never does.
THEOREM LimitsHold == Spec => []Bounded
  <1>1. StoreInv => Bounded
    BY DEF StoreInv, StoreOK, Bounded
  <1> QED
    BY <1>1, StoreInvariant, PTL

\* An outstanding lease always has the entry and the record it relies on.
THEOREM LeasesStayTracked == Spec => []LeasesTrackedAlways
  <1>1. StoreInv => LeasesTrackedAlways
    BY DEF StoreInv, StoreOK, LeasesTrackedAlways
  <1> QED
    BY <1>1, StoreInvariant, PTL

\* Equal generations: what Commit, Current, Reject and the retry rule compare
\* instead of comparing secrets and histories.
THEOREM GenerationsAreSound == Spec => [](NumbersUsedOnceAlways /\ GenerationsSound)
  <1>1. StoreInv => NumbersUsedOnceAlways /\ GenerationsSound
    BY DEF StoreInv, StoreOK, NumbersUsedOnceAlways, GenerationsSound
  <1> QED
    BY <1>1, StoreInvariant, PTL
---------------------------------------------------------------------------
(* Retry protection.                                                       *)

LEMMA KeepRemembered ==
    ASSUME RetryRemembered, asked' = asked, alive' \subseteq alive,
           SeenPairs(store) \subseteq SeenPairs(store')
    PROVE  RetryRemembered'
  BY DEF RetryRemembered

LEMMA StepRetryInv == RetryInv /\ [Next]_vars => RetryInv'
  <1> SUFFICES ASSUME RetryInv, [Next]_vars
               PROVE  RetryRemembered' /\ NoSecondCandidate'
    BY StepStoreInv DEF RetryInv
  <1>1. /\ StoreOK(store) /\ store \in Store /\ now \in Nat
        /\ RetryRemembered /\ again = FALSE
        /\ asked \subseteq Caller \X (Key \ AgentKey)
    BY DEF RetryInv, StoreInv, TypeOK, StoreOK, NoSecondCandidate
  <1>2. ASSUME NEW s \in Expire(store, now)
        PROVE  StoreOK(s) /\ s \in Store /\ SeenPairs(s) = SeenPairs(store)
    BY <1>1, ExpireOK DEF StoreOK
  <1>3. ASSUME NEW c \in Caller, NEW id \in Identity, BeginCall(c, id)
        PROVE  RetryRemembered' /\ NoSecondCandidate'
    <2>1. PICK s \in Expire(store, now) :
            /\ store' = Begin(s, now, id, c).store
            /\ asked' = asked \cup
                 {p \in {<<c, id.key>>} :
                     /\ id.key \notin AgentKey
                     /\ Begin(s, now, id, c).lookup.reason \in {"hit", "miss"}}
            /\ again' = (again \/ ( /\ Begin(s, now, id, c).lookup.reason = "hit"
                                    /\ <<c, id.key>> \in asked
                                    /\ c \in alive ))
            /\ UNCHANGED <<now, alive>>
      BY <1>3 DEF BeginCall
    <2>2. StoreOK(s) /\ SeenPairs(s) = SeenPairs(store)
      BY <1>2
    <2>3. /\ SeenPairs(store) \subseteq SeenPairs(store')
          /\ id.key \notin AgentKey =>
               /\ Begin(s, now, id, c).lookup.reason \in {"hit", "miss"}
                     => <<c, id.key>> \in SeenPairs(store')
               /\ Begin(s, now, id, c).lookup.reason = "hit"
                     => <<c, id.key>> \notin SeenPairs(store)
      BY <1>1, <2>1, <2>2, SeenAfterBegin
    <2>4. RetryRemembered'
      BY <1>1, <2>1, <2>3 DEF RetryRemembered
    <2>5. <<c, id.key>> \in asked => id.key \notin AgentKey
      BY <1>1
    <2>6. ~( /\ Begin(s, now, id, c).lookup.reason = "hit"
             /\ <<c, id.key>> \in asked
             /\ c \in alive )
      <3> SUFFICES ASSUME Begin(s, now, id, c).lookup.reason = "hit",
                          <<c, id.key>> \in asked,
                          c \in alive
                   PROVE  FALSE
        OBVIOUS
      <3>1. <<c, id.key>> \in SeenPairs(store)
        <4>1. <<c, id.key>>[1] = c
          OBVIOUS
        <4> QED
          BY <1>1, <4>1 DEF RetryRemembered
      <3> QED
        BY <2>3, <2>5, <3>1
    <2>7. again' = FALSE
      BY <1>1, <2>1, <2>6
    <2> QED
      BY <2>4, <2>7 DEF NoSecondCandidate
  <1>4. ASSUME NEW c \in Caller, NEW id \in Identity, NEW token \in Tokens,
               NEW secret \in Secret \cup {NoSecret},
               CommitCall(c, id, token, secret)
        PROVE  RetryRemembered' /\ NoSecondCandidate'
    <2>1. PICK s \in Expire(store, now) :
            /\ store' = Commit(s, now, token, id, c, secret).store
            /\ UNCHANGED <<now, alive, asked, again>>
      BY <1>4 DEF CommitCall
    <2>2. SeenPairs(store) \subseteq SeenPairs(store')
      BY <1>1, <1>2, <2>1, SeenAfterCommit
    <2> QED
      BY <1>1, <2>1, <2>2, KeepRemembered DEF NoSecondCandidate
  <1>5. ASSUME CurrentCall
        PROVE  RetryRemembered' /\ NoSecondCandidate'
    <2>1. SeenPairs(store) \subseteq SeenPairs(store')
      BY <1>2, <1>5 DEF CurrentCall
    <2> QED
      BY <1>1, <1>5, <2>1, KeepRemembered DEF CurrentCall, NoSecondCandidate
  <1>6. ASSUME NEW id \in Identity, RejectCall(id)
        PROVE  RetryRemembered' /\ NoSecondCandidate'
    <2>1. PICK g \in {store.entries[k].generation : k \in FilledKeys(store)} :
            /\ store' = Reject(store, id, g)
            /\ UNCHANGED <<now, alive, asked, again>>
      BY <1>6 DEF RejectCall
    <2>2. store'.seen = store.seen
      BY <1>1, <2>1, RenewFields DEF Reject, Identity
    <2>3. SeenPairs(store) \subseteq SeenPairs(store')
      BY <2>2 DEF SeenPairs
    <2> QED
      BY <1>1, <2>1, <2>3, KeepRemembered DEF NoSecondCandidate
  <1>7. ASSUME NEW K \in SUBSET Key, ForgetCall(K)
        PROVE  RetryRemembered' /\ NoSecondCandidate'
    <2>1. store'.seen = store.seen
      BY <1>1, <1>7, ForgetFields DEF ForgetCall
    <2>2. SeenPairs(store) \subseteq SeenPairs(store')
      BY <2>1 DEF SeenPairs
    <2> QED
      BY <1>1, <1>7, <2>2, KeepRemembered DEF ForgetCall, NoSecondCandidate
  <1>8. ASSUME SweepCall
        PROVE  RetryRemembered' /\ NoSecondCandidate'
    <2>1. PICK s \in Expire(store, now), exiting \in SUBSET alive :
            \E latePairs \in SUBSET PairsOf(s, exiting),
               lateTickets \in SUBSET TicketsOf(s, exiting) :
              /\ store' = Sweep(s, PairsOf(s, Caller \ alive) \cup latePairs,
                                   TicketsOf(s, Caller \ alive) \cup lateTickets)
              /\ alive' = alive \ exiting
              /\ UNCHANGED <<now, asked, again>>
      BY <1>8 DEF SweepCall
    <2>2. PICK latePairs \in SUBSET PairsOf(s, exiting),
               lateTickets \in SUBSET TicketsOf(s, exiting) :
            /\ store' = Sweep(s, PairsOf(s, Caller \ alive) \cup latePairs,
                                 TicketsOf(s, Caller \ alive) \cup lateTickets)
            /\ alive' = alive \ exiting
            /\ UNCHANGED <<now, asked, again>>
      BY <2>1
    <2> DEFINE P == PairsOf(s, Caller \ alive) \cup latePairs
               T == TicketsOf(s, Caller \ alive) \cup lateTickets
    <2>3. \A p \in P : p[1] \notin alive'
      BY <2>2 DEF PairsOf
    <2> HIDE DEF P, T
    <2>4. s \in Store /\ SeenPairs(s) = SeenPairs(store) /\ store' = Sweep(s, P, T)
      BY <1>2, <2>2 DEF P, T
    <2>5. \A p \in SeenPairs(store) : p \in P \/ p \in SeenPairs(store')
      BY <2>4, SeenAfterSweep
    <2>6. alive' \subseteq alive
      BY <2>2
    <2>7. RetryRemembered'
      BY <1>1, <2>2, <2>3, <2>5, <2>6 DEF RetryRemembered
    <2> QED
      BY <1>1, <2>2, <2>7 DEF NoSecondCandidate
  <1>9. ASSUME NEW c \in Caller, CallerExits(c)
        PROVE  RetryRemembered' /\ NoSecondCandidate'
    BY <1>1, <1>9 DEF CallerExits, RetryRemembered, NoSecondCandidate
  <1>10. ASSUME Tick \/ UNCHANGED vars
         PROVE  RetryRemembered' /\ NoSecondCandidate'
    BY <1>1, <1>10 DEF Tick, vars, RetryRemembered, NoSecondCandidate
  <1>11. ASSUME NEW k \in Key, ForgetCall({k})
         PROVE  RetryRemembered' /\ NoSecondCandidate'
    BY <1>7, <1>11
  <1>12. ASSUME ForgetCall(Key)
         PROVE  RetryRemembered' /\ NoSecondCandidate'
    BY <1>7, <1>12
  <1> QED
    BY <1>3, <1>4, <1>5, <1>6, <1>8, <1>9, <1>10, <1>11, <1>12 DEF Next

\* A living caller is handed at most one candidate per file key, however the
\* calls, expiries, sweeps and exits interleave.
THEOREM OneCandidatePerCaller == Spec => []NoSecondCandidate
  <1>1. Init => RetryInv
    BY InitStoreInv DEF Init, RetryInv, RetryRemembered, NoSecondCandidate
  <1>2. RetryInv /\ [Next]_vars => RetryInv'
    BY StepRetryInv
  <1>3. RetryInv => NoSecondCandidate
    BY DEF RetryInv
  <1> QED
    BY <1>1, <1>2, <1>3, PTL DEF Spec

---------------------------------------------------------------------------
(* Credentials change only by a commit.                                    *)

LEMMA AgesKeepFilled ==
    ASSUME NEW s, NEW t, Ages(s, t), NEW k \in FilledKeys(t)
    PROVE  t.entries[k] = s.entries[k]
  BY DEF Ages, FilledKeys

\* The store gets older, or a commit that says so puts a credential in.
LEMMA StepAges ==
    ASSUME StoreInv, [Next]_vars
    PROVE  \/ Ages(store, store')
           \/ \E id \in Identity, c \in Caller, secret \in Secret \cup {NoSecret} :
                 Filled(store, store', id, secret) /\ reply' = Stored(c, id, secret)
  <1>1. StoreOK(store) /\ store \in Store /\ now \in Nat
    BY DEF StoreInv, TypeOK, StoreOK
  <1>2. ASSUME NEW s \in Expire(store, now)
        PROVE  StoreOK(s) /\ s \in Store /\ Ages(store, s)
    BY <1>1, ExpireOK, ExpireAges DEF StoreOK
  <1>3. ASSUME NEW c \in Caller, NEW id \in Identity, BeginCall(c, id)
        PROVE  Ages(store, store')
    <2>1. PICK s \in Expire(store, now) : store' = Begin(s, now, id, c).store
      BY <1>3 DEF BeginCall
    <2>2. StoreOK(Begin(s, now, id, c).store) /\ Ages(s, Begin(s, now, id, c).store)
      BY <1>1, <1>2, BeginOK, BeginAges
    <2>3. store' \in Store /\ Ages(s, store')
      BY <2>1, <2>2 DEF StoreOK
    <2> QED
      BY <1>1, <1>2, <2>3, AgesTransitive
  <1>4. ASSUME NEW c \in Caller, NEW id \in Identity, NEW token \in Tokens,
               NEW secret \in Secret \cup {NoSecret},
               CommitCall(c, id, token, secret)
        PROVE  \/ Ages(store, store')
               \/ Filled(store, store', id, secret) /\ reply' = Stored(c, id, secret)
    <2>1. PICK s \in Expire(store, now) :
            /\ store' = Commit(s, now, token, id, c, secret).store
            /\ reply' = IF Commit(s, now, token, id, c, secret).stored
                        THEN Stored(c, id, secret) ELSE Quiet
      BY <1>4 DEF CommitCall
    <2>2. /\ StoreOK(Commit(s, now, token, id, c, secret).store)
          /\ Commit(s, now, token, id, c, secret).stored \in BOOLEAN
          /\ Commit(s, now, token, id, c, secret).stored
                => Filled(s, Commit(s, now, token, id, c, secret).store, id, secret)
          /\ ~Commit(s, now, token, id, c, secret).stored
                => Ages(s, Commit(s, now, token, id, c, secret).store)
      BY <1>1, <1>2, CommitOK, CommitFills
    <2>3. store' \in Store
      BY <2>1, <2>2 DEF StoreOK
    <2>4. \/ Ages(s, store')
          \/ Filled(s, store', id, secret) /\ reply' = Stored(c, id, secret)
      BY <2>1, <2>2
    <2> QED
      BY <1>1, <1>2, <2>3, <2>4, AgesTransitive, AgesThenFilled
  <1>5. ASSUME CurrentCall PROVE Ages(store, store')
    BY <1>2, <1>5 DEF CurrentCall
  <1>6. ASSUME NEW id \in Identity, RejectCall(id) PROVE Ages(store, store')
    BY <1>1, <1>6, RejectAges DEF RejectCall
  <1>7. ASSUME NEW K \in SUBSET Key, ForgetCall(K) PROVE Ages(store, store')
    BY <1>1, <1>7, ForgetAges DEF ForgetCall
  <1>8. ASSUME SweepCall PROVE Ages(store, store')
    <2>1. PICK s \in Expire(store, now) : \E P, T : store' = Sweep(s, P, T)
      BY <1>8 DEF SweepCall
    <2>2. PICK P, T : store' = Sweep(s, P, T)
      BY <2>1
    <2>3. store' \in Store /\ Ages(s, store')
      BY <1>2, <2>2, SweepFields, SweepAges
    <2> QED
      BY <1>1, <1>2, <2>3, AgesTransitive
  <1>9. ASSUME UNCHANGED store PROVE Ages(store, store')
    BY <1>1, <1>9, AgesReflexive
  <1>10. (\E c \in Caller : CallerExits(c)) \/ Tick \/ UNCHANGED vars
            => UNCHANGED store
    BY DEF CallerExits, Tick, vars
  <1>11. (\E k \in Key : ForgetCall({k})) \/ ForgetCall(Key)
            => \E K \in SUBSET Key : ForgetCall(K)
    OBVIOUS
  <1> QED
    BY <1>3, <1>4, <1>5, <1>6, <1>7, <1>8, <1>9, <1>10, <1>11 DEF Next

\* A cached credential keeps value, identity and deadline until a commit on
\* its key replaces it: it may go, but reading, retrying, expiring others or a
\* commit on another key never turns it into another one or prolongs its life.
THEOREM CredentialsNeverMutate == Spec => OnlyCommitChanges
  <1>1. StoreInv /\ [Next]_vars
           => [\A k \in FilledKeys(store) \cap FilledKeys(store)' :
                  store'.entries[k] # store.entries[k]
                     => reply'.what = "stored" /\ reply'.id.key = k]_vars
    <2> SUFFICES ASSUME StoreInv, [Next]_vars,
                        NEW k \in FilledKeys(store'),
                        store'.entries[k] # store.entries[k]
                 PROVE  reply'.what = "stored" /\ reply'.id.key = k
      OBVIOUS
    <2>1. PICK id \in Identity, c \in Caller, secret \in Secret \cup {NoSecret} :
             Filled(store, store', id, secret) /\ reply' = Stored(c, id, secret)
      BY StepAges, AgesKeepFilled
    <2>2. reply'.what = "stored" /\ reply'.id = id
      BY <2>1 DEF Stored
    <2>3. k = id.key
      BY <2>1 DEF Filled, FilledKeys
    <2> QED
      BY <2>2, <2>3
  <1> QED
    BY <1>1, StoreInvariant, PTL DEF Spec, OnlyCommitChanges


---------------------------------------------------------------------------
(* The refinement: what a store shows of itself to CredentialLease.        *)

HoldersOf(s, k) == {c \in Caller : s.seen[<<c, k>>] = s.entries[k].generation}

CredentialOf(s, k) ==
    [stamp    |-> s.entries[k].stamp,
     secret   |-> s.entries[k].secret,
     deadline |-> s.entries[k].expires,
     holders  |-> HoldersOf(s, k)]

Live(s, t) == FilledKeys(s) \ Overdue(s, t)

CredsAt(s, t) ==
    [k \in Key |-> IF k \in Live(s, t) THEN CredentialOf(s, k) ELSE Absent]

Valid(s, t) ==
    {l \in s.tickets : /\ Holds(s, l.id, l.generation)
                       /\ l.id.key \notin Overdue(s, t)
                       /\ t < l.expires}

LeaseOf(l) ==
    [token |-> l.token, id |-> l.id, caller |-> l.caller, deadline |-> l.expires]

LeasesAt(s, t) == {LeaseOf(l) : l \in Valid(s, t)}

LEMMA Views ==
    /\ Credentials = CredsAt(store, now) /\ Credentials' = CredsAt(store', now')
    /\ Leases = LeasesAt(store, now) /\ Leases' = LeasesAt(store', now')
  BY DEF Credentials, CredsAt, CredentialOf, LiveKeys, Live, Holders, HoldersOf,
         Leases, LeasesAt, ValidTickets, Valid, LeaseOf

\* Nothing in it is overdue.
Fresh(s, t) == Overdue(s, t) = {} /\ \A l \in s.tickets : t < l.expires

LEMMA LiveMeans ==
    ASSUME NEW s, s \in Store, NEW t \in Nat
    PROVE  /\ Live(s, t) \subseteq FilledKeys(s) /\ FilledKeys(s) \subseteq HeldKeys(s)
           /\ HeldKeys(s) \subseteq Key
           /\ \A k \in FilledKeys(s) :
                 /\ k \in Live(s, t) <=> ~(t >= s.entries[k].expires)
                 /\ k \in Overdue(s, t) <=> t >= s.entries[k].expires
           /\ Overdue(s, t) \subseteq FilledKeys(s)
           /\ Live(s, t) \cap Overdue(s, t) = {}
  BY DEF Live, Overdue, FilledKeys, HeldKeys

LEMMA CredentialType ==
    ASSUME NEW s \in Store, NEW k \in FilledKeys(s)
    PROVE  CredentialOf(s, k) # Absent
  <1>1. s.entries[k] \in Entry /\ s.entries[k].secret # NoSecret
    BY HeldTypes DEF FilledKeys
  <1>2. /\ s.entries[k].stamp \in Stamp /\ s.entries[k].secret \in Secret
        /\ s.entries[k].expires \in Nat
    BY <1>1 DEF Entry
  <1>3. HoldersOf(s, k) \in SUBSET Caller
    BY DEF HoldersOf
  <1> QED
    BY <1>2, <1>3, LeaseAssumption DEF CredentialOf

LEMMA CredsMean ==
    ASSUME NEW s \in Store, NEW t \in Nat, NEW k \in Key
    PROVE  /\ CredsAt(s, t)[k] = IF k \in Live(s, t) THEN CredentialOf(s, k) ELSE Absent
           /\ CredsAt(s, t)[k] # Absent <=> k \in Live(s, t)
  <1>1. CredsAt(s, t)[k] = IF k \in Live(s, t) THEN CredentialOf(s, k) ELSE Absent
    BY DEF CredsAt
  <1>2. k \in Live(s, t) => CredentialOf(s, k) # Absent
    BY LiveMeans, CredentialType
  <1> QED
    BY <1>1, <1>2

\* Who holds a credential has a record, and of an ssh-agent key nobody has.
LEMMA HoldersSeen ==
    ASSUME NEW s, StoreOK(s), NEW k \in HeldKeys(s)
    PROVE  /\ \A c \in HoldersOf(s, k) : c \in Caller /\ <<c, k>> \in SeenPairs(s)
           /\ k \in AgentKey => HoldersOf(s, k) = {}
  <1>1. s \in Store /\ s.entries[k].generation \in Nat /\ k \in Key
    BY HeldTypes DEF StoreOK, HeldKeys
  <1>2. ASSUME NEW c \in HoldersOf(s, k) PROVE c \in Caller /\ <<c, k>> \in SeenPairs(s)
    BY <1>1, <1>2, MarkersAssumption DEF HoldersOf, SeenPairs
  <1>3. \A c : <<c, k>> \in SeenPairs(s) => k \notin AgentKey
    <2> SUFFICES ASSUME NEW c, <<c, k>> \in SeenPairs(s) PROVE k \notin AgentKey
      OBVIOUS
    <2>1. <<c, k>>[2] = k
      OBVIOUS
    <2> QED
      BY <2>1 DEF StoreOK, GenerationsMeanWhatTheySay
  <1> QED
    BY <1>2, <1>3

\* A credential looks the same if entry and records of its key are the same.
LEMMA SameCredential ==
    ASSUME NEW s \in Store, NEW r \in Store, NEW t \in Nat, NEW k \in Key,
           r.entries[k] = s.entries[k],
           \A c \in Caller : r.seen[<<c, k>>] = s.seen[<<c, k>>]
    PROVE  CredsAt(r, t)[k] = CredsAt(s, t)[k]
  <1>1. k \in Live(r, t) <=> k \in Live(s, t)
    BY DEF Live, Overdue, FilledKeys, HeldKeys
  <1>2. CredentialOf(r, k) = CredentialOf(s, k)
    BY DEF CredentialOf, HoldersOf
  <1> QED
    BY <1>1, <1>2, CredsMean

LEMMA SameCreds ==
    ASSUME NEW s \in Store, NEW r \in Store, NEW t \in Nat,
           \A k \in Key : CredsAt(r, t)[k] = CredsAt(s, t)[k]
    PROVE  CredsAt(r, t) = CredsAt(s, t)
  BY DEF CredsAt

\* A ticket counts as before if its entry is the same.
LEMMA SameValid ==
    ASSUME NEW s \in Store, NEW r \in Store, NEW t \in Nat,
           NEW l \in s.tickets, l \in r.tickets,
           r.entries[l.id.key] = s.entries[l.id.key]
    PROVE  l \in Valid(r, t) <=> l \in Valid(s, t)
  <1>1. l.id.key \in Key
    BY StoreTypes DEF Ticket, Identity
  <1> QED
    BY <1>1 DEF Valid, Holds, Overdue, FilledKeys, HeldKeys

\* Wiping what is overdue is invisible.
LEMMA ExpiryHidden ==
    ASSUME NEW s, StoreOK(s), NEW t \in Nat, NEW r \in Expire(s, t)
    PROVE  /\ StoreOK(r) /\ s.seq <= r.seq /\ SeenPairs(r) = SeenPairs(s)
           /\ Fresh(r, t)
           /\ CredsAt(r, t) = CredsAt(s, t)
           /\ LeasesAt(r, t) = LeasesAt(s, t)
  <1>1. s \in Store /\ StoreOK(r) /\ SeenPairs(r) = SeenPairs(s) /\ s.seq <= r.seq
    BY ExpireOK DEF StoreOK
  <1>2. r \in Store
    BY <1>1 DEF StoreOK
  <1>3. PICK g : ExpiredBy(s, t, r, g)
    BY <1>1, ExpireFields
  <1> DEFINE K == Overdue(s, t)
  <1>4. /\ g \in Numberings(s, K)
        /\ r.entries = Wiped(s, g)
        /\ r.seq = s.seq + Cardinality(K)
        /\ r.tickets = {l \in s.tickets : t < l.expires}
        /\ r.seen = s.seen
    BY <1>3 DEF ExpiredBy
  <1>5. /\ \A k \in K : /\ r.entries[k] = Vacant(s.entries[k].stamp, g[k])
                        /\ g[k] \in (s.seq + 1)..r.seq
        /\ \A k \in Key \ K : r.entries[k] = s.entries[k]
    BY <1>1, <1>4, WipedType
  <1>6. \A k \in K : r.entries[k].secret = NoSecret /\ r.entries[k].generation = g[k]
    <2>1. \A x, y : Vacant(x, y).secret = NoSecret /\ Vacant(x, y).generation = y
      BY DEF Vacant
    <2> QED
      BY <1>5, <2>1
  <1>7. Live(s, t) \cap K = {} /\ K \subseteq Key
    BY <1>1, LiveMeans
  <1>8. Overdue(r, t) = {}
    <2> SUFFICES ASSUME NEW k \in Overdue(r, t) PROVE FALSE
      OBVIOUS
    <2>1. k \in FilledKeys(r) /\ k \in Key
      BY <1>2, LiveMeans
    <2>2. k \notin K
      BY <1>6, <2>1 DEF FilledKeys
    <2>3. k \in Overdue(s, t)
      BY <1>5, <2>1, <2>2 DEF Overdue, FilledKeys, HeldKeys
    <2> QED
      BY <2>2, <2>3
  <1>9. Fresh(r, t)
    BY <1>4, <1>8 DEF Fresh
  <1>10. ASSUME NEW k \in Key PROVE CredsAt(r, t)[k] = CredsAt(s, t)[k]
    <2>1. CASE k \in K
      <3>1. k \notin Live(s, t) /\ k \notin Live(r, t)
        BY <1>6, <1>7, <2>1 DEF Live, FilledKeys
      <3> QED
        BY <1>1, <1>2, <3>1, CredsMean
    <2>2. CASE k \notin K
      <3>1. r.entries[k] = s.entries[k] /\ r.seen = s.seen
        BY <1>4, <1>5, <2>2
      <3> QED
        BY <1>1, <1>2, <3>1, SameCredential
    <2> QED
      BY <2>1, <2>2
  <1>11. CredsAt(r, t) = CredsAt(s, t)
    BY <1>1, <1>2, <1>10, SameCreds
  <1>12. ASSUME NEW l \in s.tickets PROVE l \in Valid(r, t) <=> l \in Valid(s, t)
    <2>1. l.id.key \in Key /\ l.generation \in 1..s.seq /\ s.seq \in Nat
      BY <1>1, StoreTypes DEF Ticket, Identity, StoreOK, NumbersUsedOnce
    <2>2. CASE ~(t < l.expires)
      BY <1>4, <2>2 DEF Valid
    <2>3. CASE l \in r.tickets /\ l.id.key \notin K
      <3>1. r.entries[l.id.key] = s.entries[l.id.key]
        BY <1>5, <2>1, <2>3
      <3> QED
        BY <1>1, <1>2, <2>3, <3>1, SameValid
    <2>4. CASE l.id.key \in K
      <3>1. r.entries[l.id.key].generation # l.generation
        <4>1. g[l.id.key] \in (s.seq + 1)..r.seq
          BY <1>5, <2>4
        <4>2. g[l.id.key] # l.generation
          BY <2>1, <4>1
        <4> QED
          BY <1>6, <2>4, <4>2
      <3>2. l \notin Valid(r, t)
        BY <3>1 DEF Valid, Holds
      <3>3. l \notin Valid(s, t)
        BY <2>4 DEF Valid
      <3> QED
        BY <3>2, <3>3
    <2> QED
      BY <1>4, <2>2, <2>3, <2>4
  <1>13. Valid(r, t) = Valid(s, t)
    BY <1>4, <1>12 DEF Valid
  <1> QED
    BY <1>1, <1>9, <1>11, <1>13 DEF LeasesAt


LEMMA LeaseFields ==
    \A l : /\ LeaseOf(l).token = l.token /\ LeaseOf(l).id = l.id
           /\ LeaseOf(l).caller = l.caller /\ LeaseOf(l).deadline = l.expires
  BY DEF LeaseOf

LEMMA LeasesMean ==
    ASSUME NEW s, NEW t
    PROVE  \A x : x \in LeasesAt(s, t) <=> \E l \in Valid(s, t) : x = LeaseOf(l)
  BY DEF LeasesAt

\* The credential that a valid ticket could replace, of the same identity.
LEMMA ValidMeans ==
    ASSUME NEW s \in Store, NEW t, NEW l \in Valid(s, t)
    PROVE  /\ l \in s.tickets /\ l \in Ticket /\ l.id \in Identity /\ l.id.key \in Key
           /\ l.id.key \in HeldKeys(s) /\ s.entries[l.id.key].stamp = l.id.stamp
           /\ s.entries[l.id.key].generation = l.generation
  BY StoreTypes DEF Valid, Holds, Ticket, Identity

LEMMA IdentityEqual ==
    ASSUME NEW x \in Identity, NEW y \in Identity, x.key = y.key, x.stamp = y.stamp
    PROVE  x = y
  BY DEF Identity

LEMMA FreshMeans ==
    ASSUME NEW s \in Store, NEW t \in Nat, Fresh(s, t)
    PROVE  /\ Live(s, t) = FilledKeys(s)
           /\ Valid(s, t) = {l \in s.tickets : Holds(s, l.id, l.generation)}
  BY DEF Fresh, Live, Valid

---------------------------------------------------------------------------
\* A hit hands out the live credential of the identity and notes who has it.
LEMMA HitMeans ==
    ASSUME NEW s, StoreOK(s), NEW t \in Nat, NEW id \in Identity, NEW c \in Caller,
           Begin(s, t, id, c).lookup.reason = "hit"
    PROVE  /\ Begin(s, t, id, c).store = Remember(s, id, c, s.entries[id.key].generation)
           /\ id.key \in FilledKeys(s) /\ s.entries[id.key].stamp = id.stamp
           /\ ~Retrying(s, id, c)
           /\ Begin(s, t, id, c).lookup.secret = s.entries[id.key].secret
  <1> DEFINE o == Opened(s, id)
             r == Retracted(Opened(s, id), id, c)
             e == r.entries[id.key]
  <1>0. s \in Store /\ id.key \in Key /\ id.stamp \in Stamp
    BY DEF StoreOK, Identity
  <1>1. TTL # 0 /\ ~NoRoom(s, id, c)
    BY DEF Begin, NoLookup
  <1>2. /\ Begin(s, t, id, c).store = Remember(r, id, c, e.generation)
        /\ Begin(s, t, id, c).lookup.secret = e.secret
        /\ ~Retrying(s, id, c) /\ e.secret # NoSecret
    BY <1>1 DEF Begin
  <1>3. o.seen = s.seen
    BY <1>1, OpenedOK
  <1>4. r = o
    BY <1>2, <1>3 DEF Retracted, Retrying
  <1>5. o = s /\ id.key \in HeldKeys(s) /\ s.entries[id.key].stamp = id.stamp
    <2>1. CASE o = Renew(s, id.key, id.stamp)
      <3>1. s.seq + 1 \in Nat /\ DOMAIN s.entries = Key
        BY <1>0, StoreTypes
      <3>2. o.entries = [s.entries EXCEPT ![id.key] = Vacant(id.stamp, s.seq + 1)]
        BY <1>0, <2>1, RenewFields
      <3>3. o.entries[id.key] = Vacant(id.stamp, s.seq + 1)
        BY <1>0, <3>1, <3>2
      <3>4. Vacant(id.stamp, s.seq + 1).secret = NoSecret
        BY DEF Vacant
      <3> QED
        BY <1>2, <1>4, <3>3, <3>4
    <2>2. CASE id.key \in HeldKeys(s) /\ s.entries[id.key].stamp = id.stamp
      BY <2>2 DEF Opened
    <2> QED
      BY <2>1, <2>2 DEF Opened
  <1> HIDE DEF o, r
  <1>6. r = s
    BY <1>4, <1>5
  <1> QED
    BY <1>2, <1>5, <1>6 DEF FilledKeys

LEMMA HitView ==
    ASSUME NEW s, StoreOK(s), NEW t \in Nat, Fresh(s, t),
           NEW id \in Identity, NEW c \in Caller,
           id.key \in FilledKeys(s), ~Retrying(s, id, c),
           NEW u, u = Remember(s, id, c, s.entries[id.key].generation)
    PROVE  /\ <<c, id.key>> \notin SeenPairs(s)
           /\ LeasesAt(u, t) = LeasesAt(s, t)
           /\ IF id.key \in AgentKey
              THEN CredsAt(u, t) = CredsAt(s, t) /\ SeenPairs(u) = SeenPairs(s)
              ELSE /\ CredsAt(u, t) =
                        [CredsAt(s, t) EXCEPT ![id.key].holders = @ \cup {c}]
                   /\ SeenPairs(u) = SeenPairs(s) \cup {<<c, id.key>>}
  <1> DEFINE k == id.key
             g == s.entries[id.key].generation
             q == <<c, id.key>>
  <1>0. s \in Store /\ k \in Key /\ q \in Caller \X Key /\ k \in HeldKeys(s)
    BY DEF StoreOK, Identity, FilledKeys
  <1>1. g \in Nat /\ g # Absent
    BY <1>0, HeldTypes, MarkersAssumption
  <1>2. /\ u \in Store /\ u.seq = s.seq /\ u.entries = s.entries
        /\ u.tickets = s.tickets
        /\ u.seen = IF k \in AgentKey THEN s.seen ELSE [s.seen EXCEPT ![q] = g]
    BY <1>0, <1>1, RememberFields
  <1>3. q \notin SeenPairs(s)
    <2>1. q[2] = k
      OBVIOUS
    <2>2. CASE k \in AgentKey
      BY <2>1, <2>2 DEF StoreOK, GenerationsMeanWhatTheySay
    <2>3. CASE k \notin AgentKey
      BY <2>3 DEF Retrying, SeenPairs
    <2> QED
      BY <2>2, <2>3
  <1>4. LeasesAt(u, t) = LeasesAt(s, t)
    <2>1. Valid(u, t) = Valid(s, t)
      BY <1>2 DEF Valid, Holds, Overdue, FilledKeys, HeldKeys
    <2> QED
      BY <2>1 DEF LeasesAt
  <1>5. CASE k \in AgentKey
    <2>1. u.seen = s.seen
      BY <1>2, <1>5
    <2>2. CredsAt(u, t) = CredsAt(s, t)
      <3>1. \A j \in Key : CredsAt(u, t)[j] = CredsAt(s, t)[j]
        BY <1>0, <1>2, <2>1, SameCredential
      <3> QED
        BY <1>0, <1>2, <3>1, SameCreds
    <2> QED
      BY <1>3, <1>4, <1>5, <2>1, <2>2 DEF SeenPairs
  <1>6. CASE k \notin AgentKey
    <2>1. u.seen = [s.seen EXCEPT ![q] = g] /\ DOMAIN s.seen = Caller \X Key
      BY <1>0, <1>2, <1>6, StoreTypes
    <2>2. u.seen[q] = g /\ \A p \in (Caller \X Key) \ {q} : u.seen[p] = s.seen[p]
      BY <1>0, <2>1
    <2>3. SeenPairs(u) = SeenPairs(s) \cup {q}
      BY <1>0, <1>1, <2>2 DEF SeenPairs
    <2>4. \A j \in Key \ {k} : CredsAt(u, t)[j] = CredsAt(s, t)[j]
      <3> SUFFICES ASSUME NEW j \in Key, j # k
                   PROVE  CredsAt(u, t)[j] = CredsAt(s, t)[j]
        OBVIOUS
      <3>1. \A d \in Caller : <<d, j>> \in (Caller \X Key) \ {q}
        OBVIOUS
      <3>2. \A d \in Caller : u.seen[<<d, j>>] = s.seen[<<d, j>>]
        BY <2>2, <3>1
      <3>3. s \in Store /\ u \in Store /\ u.entries[j] = s.entries[j]
        BY <1>0, <1>2
      <3> QED
        BY <3>2, <3>3, SameCredential
    <2>5. k \in Live(s, t) /\ k \in Live(u, t)
      <3>1. k \in Live(s, t)
        BY <1>0, FreshMeans
      <3>2. Live(u, t) = Live(s, t)
        BY <1>2 DEF Live, Overdue, FilledKeys, HeldKeys
      <3> QED
        BY <3>1, <3>2
    <2>6. HoldersOf(u, k) = HoldersOf(s, k) \cup {c}
      <3>1. \A d \in Caller \ {c} : <<d, k>> \in (Caller \X Key) \ {q}
        BY <1>0
      <3>2. \A d \in Caller \ {c} : u.seen[<<d, k>>] = s.seen[<<d, k>>]
        BY <2>2, <3>1
      <3> QED
        BY <1>2, <2>2, <3>2 DEF HoldersOf
    <2>7. CredentialOf(u, k) = [CredentialOf(s, k) EXCEPT !.holders = @ \cup {c}]
      BY <1>2, <2>6 DEF CredentialOf
    <2>8. /\ CredsAt(u, t)[k] = CredentialOf(u, k)
          /\ CredsAt(s, t)[k] = CredentialOf(s, k)
      BY <1>0, <1>2, <2>5, CredsMean
    <2>9. CredsAt(u, t) = [CredsAt(s, t) EXCEPT ![k].holders = @ \cup {c}]
      <3> DEFINE C == CredsAt(s, t)
                 D == CredsAt(u, t)
      <3>1. C = [j \in Key |-> C[j]] /\ D = [j \in Key |-> D[j]]
        BY DEF CredsAt
      <3>2. D[k] = [C[k] EXCEPT !.holders = @ \cup {c}]
        BY <2>7, <2>8
      <3>3. \A j \in Key \ {k} : D[j] = C[j]
        BY <2>4
      <3> HIDE DEF C, D
      <3>4. D = [C EXCEPT ![k] = [C[k] EXCEPT !.holders = @ \cup {c}]]
        BY <1>0, <3>1, <3>2, <3>3
      <3> QED
        BY <3>4 DEF C, D
    <2> QED
      BY <1>3, <1>4, <1>6, <2>3, <2>9
  <1> QED
    BY <1>5, <1>6


---------------------------------------------------------------------------
\* A miss leaves the entry of its identity alone, or starts it anew.
Anew(s, id, c) ==
    \/ id.key \notin HeldKeys(s)
    \/ s.entries[id.key].stamp # id.stamp
    \/ Retrying(s, id, c) /\ s.seen[<<c, id.key>>] = s.entries[id.key].generation

TicketFor(r, id, c, t) ==
    [token |-> r.seq + 1, id |-> id, generation |-> r.entries[id.key].generation,
     caller |-> c, expires |-> t + TicketLifetime]

LEMMA MissMeans ==
    ASSUME NEW s, StoreOK(s), NEW t \in Nat, NEW id \in Identity, NEW c \in Caller,
           Begin(s, t, id, c).lookup.reason = "miss"
    PROVE  \E r \in Store :
              /\ StoreOK(r)
              /\ r = IF Anew(s, id, c) THEN Renew(s, id.key, id.stamp) ELSE s
              /\ Retrying(s, id, c) \/ r.entries[id.key].secret = NoSecret
              /\ Begin(s, t, id, c).store = Issue(Remember(r, id, c, 0), id, c, t)
              /\ TTL # 0
  <1> DEFINE k == id.key
             q == <<c, id.key>>
             o == Opened(s, id)
             r == Retracted(Opened(s, id), id, c)
             e == r.entries[id.key]
  <1>0. s \in Store /\ k \in Key /\ id.stamp \in Stamp /\ q \in Caller \X Key
    BY DEF StoreOK, Identity
  <1>1. TTL # 0 /\ ~NoRoom(s, id, c)
    BY DEF Begin, NoLookup
  <1>2. /\ Begin(s, t, id, c).store = Issue(Remember(r, id, c, 0), id, c, t)
        /\ Retrying(s, id, c) \/ ~(e.secret # NoSecret)
    BY <1>1 DEF Begin
  <1>3. StoreOK(o) /\ k \in HeldKeys(o) /\ o.entries[k].stamp = id.stamp /\ o.seen = s.seen
    BY <1>1, OpenedOK
  <1>4. StoreOK(r)
    BY <1>3, RetractedOK
  <1>5. CASE k \notin HeldKeys(s) \/ s.entries[k].stamp # id.stamp
    <2>1. o = Renew(s, k, id.stamp)
      BY <1>5 DEF Opened
    <2>2. s.seq + 1 \in Nat /\ DOMAIN s.entries = Key
      BY <1>0, StoreTypes
    <2>3. o.entries = [s.entries EXCEPT ![k] = Vacant(id.stamp, s.seq + 1)]
      BY <1>0, <2>1, RenewFields
    <2>4. o.entries[k] = Vacant(id.stamp, s.seq + 1)
      BY <1>0, <2>2, <2>3
    <2>5. Vacant(id.stamp, s.seq + 1).generation = s.seq + 1
      BY DEF Vacant
    <2>6. ASSUME s.seen[q] # Absent PROVE s.seen[q] # s.seq + 1
      <3>1. q \in SeenPairs(s)
        BY <1>0, <2>6 DEF SeenPairs
      <3>2. s.seen[q] \in 0..s.seq /\ s.seq \in Nat
        BY <1>0, <3>1, StoreTypes DEF StoreOK, NumbersUsedOnce
      <3> QED
        BY <3>2
    <2> HIDE DEF o
    <2>7. ~(Retrying(o, id, c) /\ o.seen[q] = o.entries[k].generation)
      BY <1>3, <2>4, <2>5, <2>6 DEF Retrying
    <2>8. Retracted(o, id, c) = o
      BY <2>7 DEF Retracted
    <2>9. r = Renew(s, k, id.stamp)
      BY <2>1, <2>8 DEF o
    <2>10. Anew(s, id, c)
      BY <1>5 DEF Anew
    <2> HIDE DEF r
    <2> QED
      BY <1>1, <1>2, <1>4, <2>9, <2>10 DEF StoreOK
  <1>6. CASE k \in HeldKeys(s) /\ s.entries[k].stamp = id.stamp
    <2>1. o = s
      BY <1>6 DEF Opened
    <2>2. r = IF Retrying(s, id, c) /\ s.seen[q] = s.entries[k].generation
              THEN Renew(s, k, id.stamp) ELSE s
      BY <2>1 DEF Retracted
    <2>3. Anew(s, id, c) <=> Retrying(s, id, c) /\ s.seen[q] = s.entries[k].generation
      BY <1>6 DEF Anew
    <2>4. r = IF Anew(s, id, c) THEN Renew(s, k, id.stamp) ELSE s
      BY <2>2, <2>3
    <2> HIDE DEF r
    <2> QED
      BY <1>1, <1>2, <1>4, <2>4 DEF StoreOK
  <1> QED
    BY <1>5, <1>6

\* The seen records when c was answered without a candidate.
Noted(seen, id, c) ==
    IF id.key \in AgentKey THEN seen ELSE [seen EXCEPT ![<<c, id.key>>] = 0]

WithRecord(P, id, c) == IF id.key \in AgentKey THEN P ELSE P \cup {<<c, id.key>>}

LEMMA IssueFields ==
    ASSUME NEW r \in Store, NEW id \in Identity, NEW c \in Caller, NEW t \in Nat,
           NEW u, u = Issue(Remember(r, id, c, 0), id, c, t)
    PROVE  /\ u.seq = r.seq + 1
           /\ u.entries = r.entries
           /\ u.tickets = r.tickets \cup {TicketFor(r, id, c, t)}
           /\ u.seen = Noted(r.seen, id, c)
  <1>0. PICK m : m = Remember(r, id, c, 0)
    OBVIOUS
  <1>1. 0 \in Nat
    OBVIOUS
  <1>2. /\ m \in Store /\ m.seq = r.seq /\ m.entries = r.entries
        /\ m.tickets = r.tickets
        /\ m.seen = IF id.key \in AgentKey THEN r.seen
                    ELSE [r.seen EXCEPT ![<<c, id.key>>] = 0]
    BY <1>0, <1>1, RememberFields
  <1>3. /\ u.seq = m.seq + 1 /\ u.entries = m.entries /\ u.seen = m.seen
        /\ u.tickets = m.tickets \cup
              {[token |-> m.seq + 1, id |-> id,
                generation |-> m.entries[id.key].generation,
                caller |-> c, expires |-> t + TicketLifetime]}
    <2>1. u = Issue(m, id, c, t)
      BY <1>0
    <2> QED
      BY <1>2, <2>1 DEF Issue, Store
  <1> QED
    BY <1>2, <1>3 DEF TicketFor, Noted

\* The record of a caller that got no candidate: it holds nothing, nobody else
\* is affected.
LEMMA RecordView ==
    ASSUME NEW r, StoreOK(r), NEW t \in Nat, NEW id \in Identity, NEW c \in Caller,
           NEW u \in Store, u.entries = r.entries,
           u.seen = Noted(r.seen, id, c),
           id.key \in FilledKeys(r) => c \notin HoldersOf(r, id.key)
    PROVE  /\ CredsAt(u, t) = CredsAt(r, t)
           /\ SeenPairs(u) = WithRecord(SeenPairs(r), id, c)
  <1> DEFINE k == id.key
             q == <<c, id.key>>
  <1>0. r \in Store /\ k \in Key /\ q \in Caller \X Key /\ 0 # Absent
    BY MarkersAssumption DEF StoreOK, Identity
  <1>1. CASE k \in AgentKey
    <2>1. \A j \in Key : CredsAt(u, t)[j] = CredsAt(r, t)[j]
      BY <1>0, <1>1, SameCredential DEF Noted
    <2> QED
      BY <1>0, <1>1, <2>1, SameCreds DEF SeenPairs, Noted, WithRecord
  <1>2. CASE k \notin AgentKey
    <2>1. u.seen = [r.seen EXCEPT ![q] = 0] /\ DOMAIN r.seen = Caller \X Key
      BY <1>0, <1>2, StoreTypes DEF Noted
    <2>2. u.seen[q] = 0 /\ \A p \in (Caller \X Key) \ {q} : u.seen[p] = r.seen[p]
      BY <1>0, <2>1
    <2>3. SeenPairs(u) = SeenPairs(r) \cup {q}
      BY <1>0, <2>2 DEF SeenPairs
    <2>4. ASSUME NEW j \in Key, j # k
          PROVE  CredsAt(u, t)[j] = CredsAt(r, t)[j]
      <3>1. \A d \in Caller : <<d, j>> \in (Caller \X Key) \ {q}
        BY <2>4
      <3>2. \A d \in Caller : u.seen[<<d, j>>] = r.seen[<<d, j>>]
        BY <2>2, <3>1
      <3>3. r \in Store /\ u \in Store /\ u.entries[j] = r.entries[j]
        BY <1>0
      <3> QED
        BY <3>2, <3>3, SameCredential
    <2>5. CredsAt(u, t)[k] = CredsAt(r, t)[k]
      <3>1. Live(u, t) = Live(r, t)
        BY DEF Live, Overdue, FilledKeys, HeldKeys
      <3>2. ASSUME k \in Live(r, t) PROVE CredentialOf(u, k) = CredentialOf(r, k)
        <4>1. k \in FilledKeys(r) /\ k \in HeldKeys(r)
          BY <1>0, <3>2, LiveMeans
        <4>2. r.entries[k].generation \in 1..r.seq /\ r.seq \in Nat
          BY <1>0, <4>1, StoreTypes DEF StoreOK, NumbersUsedOnce
        <4>3. 0 # r.entries[k].generation
          BY <4>2
        <4>4. \A d \in Caller \ {c} : u.seen[<<d, k>>] = r.seen[<<d, k>>]
          <5>1. \A d \in Caller \ {c} : <<d, k>> \in (Caller \X Key) \ {q}
            BY <1>0
          <5> QED
            BY <2>2, <5>1
        <4>5. HoldersOf(u, k) = HoldersOf(r, k)
          BY <2>2, <4>1, <4>3, <4>4 DEF HoldersOf
        <4> QED
          BY <4>5 DEF CredentialOf
      <3> QED
        BY <1>0, <3>1, <3>2, CredsMean
    <2>6. \A j \in Key : CredsAt(u, t)[j] = CredsAt(r, t)[j]
      BY <2>4, <2>5
    <2> QED
      BY <1>0, <1>2, <2>3, <2>6, SameCreds DEF WithRecord
  <1> QED
    BY <1>1, <1>2


\* A fresh generation: credential and leases of the key are gone.
LEMMA RenewView ==
    ASSUME NEW s, StoreOK(s), NEW t \in Nat, NEW k \in Key, NEW stamp \in Stamp,
           NEW n, n = Renew(s, k, stamp)
    PROVE  /\ n \in Store /\ s.seq < n.seq /\ SeenPairs(n) = SeenPairs(s)
           /\ k \in HeldKeys(n) /\ n.entries[k].stamp = stamp /\ k \notin FilledKeys(n)
           /\ CredsAt(n, t) = [CredsAt(s, t) EXCEPT ![k] = Absent]
           /\ LeasesAt(n, t) = {x \in LeasesAt(s, t) : x.id.key # k}
  <1>0. s \in Store /\ s.seq \in Nat /\ s.seq + 1 \in Nat /\ DOMAIN s.entries = Key
    BY StoreTypes DEF StoreOK
  <1>1. /\ n \in Store /\ n.seq = s.seq + 1 /\ n.tickets = s.tickets /\ n.seen = s.seen
        /\ n.entries = [s.entries EXCEPT ![k] = Vacant(stamp, s.seq + 1)]
    BY <1>0, RenewFields
  <1>2. /\ n.entries[k] = Vacant(stamp, s.seq + 1)
        /\ \A j \in Key \ {k} : n.entries[j] = s.entries[j]
    BY <1>0, <1>1
  <1>3. /\ n.entries[k] # Absent
        /\ n.entries[k].stamp = stamp /\ n.entries[k].secret = NoSecret
        /\ n.entries[k].generation = s.seq + 1
    BY <1>0, <1>2, VacantType DEF Vacant
  <1>4. k \in HeldKeys(n) /\ k \notin FilledKeys(n) /\ k \notin Live(n, t)
    BY <1>3 DEF HeldKeys, FilledKeys, Live
  <1>5. CredsAt(n, t) = [CredsAt(s, t) EXCEPT ![k] = Absent]
    <2> DEFINE C == CredsAt(s, t)
               D == CredsAt(n, t)
    <2>1. C = [j \in Key |-> C[j]] /\ D = [j \in Key |-> D[j]]
      BY DEF CredsAt
    <2>2. D[k] = Absent
      BY <1>1, <1>4, CredsMean
    <2>3. ASSUME NEW j \in Key, j # k PROVE D[j] = C[j]
      <3>1. s \in Store /\ n \in Store /\ n.entries[j] = s.entries[j] /\ n.seen = s.seen
        BY <1>0, <1>1, <1>2, <2>3
      <3> QED
        BY <3>1, SameCredential
    <2> HIDE DEF C, D
    <2>4. D = [C EXCEPT ![k] = Absent]
      BY <2>1, <2>2, <2>3
    <2> QED
      BY <2>4 DEF C, D
  <1>6. \A l : l \in Valid(n, t) <=> l \in Valid(s, t) /\ l.id.key # k
    <2> SUFFICES ASSUME NEW l \in s.tickets
                 PROVE  l \in Valid(n, t) <=> l \in Valid(s, t) /\ l.id.key # k
      BY <1>1 DEF Valid
    <2>1. l.id.key \in Key /\ l.generation \in 1..s.seq
      BY <1>0, StoreTypes DEF Ticket, Identity, StoreOK, NumbersUsedOnce
    <2>2. CASE l.id.key = k
      <3>1. l.generation # s.seq + 1
        BY <1>0, <2>1
      <3> QED
        BY <1>3, <2>2, <3>1 DEF Valid, Holds
    <2>3. CASE l.id.key # k
      <3>1. n.entries[l.id.key] = s.entries[l.id.key]
        BY <1>2, <2>1, <2>3
      <3> QED
        BY <1>0, <1>1, <2>3, <3>1, SameValid
    <2> QED
      BY <2>2, <2>3
  <1>7. LeasesAt(n, t) = {x \in LeasesAt(s, t) : x.id.key # k}
    BY <1>6, LeaseFields, LeasesMean
  <1> QED
    BY <1>0, <1>1, <1>3, <1>4, <1>5, <1>7 DEF SeenPairs

LEMMA TicketView ==
    ASSUME NEW r \in Store, NEW t \in Nat, NEW id \in Identity, NEW c \in Caller,
           NEW u, u.entries = r.entries,
           u.tickets = r.tickets \cup {TicketFor(r, id, c, t)},
           id.key \in HeldKeys(r), r.entries[id.key].stamp = id.stamp,
           id.key \notin Overdue(r, t)
    PROVE  LeasesAt(u, t) = LeasesAt(r, t) \cup
              {[token |-> r.seq + 1, id |-> id, caller |-> c,
                deadline |-> t + TicketLifetime]}
  <1> DEFINE n == TicketFor(r, id, c, t)
  <1>1. /\ n.token = r.seq + 1 /\ n.id = id /\ n.caller = c
        /\ n.generation = r.entries[id.key].generation
        /\ n.expires = t + TicketLifetime
    BY DEF TicketFor
  <1>2. t < n.expires
    BY <1>1, LimitsAssumption, LeaseAssumption
  <1> HIDE DEF n
  <1>3. HeldKeys(u) = HeldKeys(r) /\ Overdue(u, t) = Overdue(r, t)
    BY DEF HeldKeys, Overdue, FilledKeys
  <1>4. Valid(u, t) = Valid(r, t) \cup {n}
    BY <1>1, <1>2, <1>3 DEF Valid, Holds, n
  <1>5. LeaseOf(n) = [token |-> r.seq + 1, id |-> id, caller |-> c,
                      deadline |-> t + TicketLifetime]
    BY <1>1 DEF LeaseOf
  <1>6. LeasesAt(u, t) = LeasesAt(r, t) \cup {LeaseOf(n)}
    BY <1>4 DEF LeasesAt
  <1> QED
    BY <1>5, <1>6

\* What a miss does is what Grant of CredentialLease says.
GrantDrops(s, t, id, c) ==
    /\ id.key \in Live(s, t)
    /\ s.entries[id.key].stamp # id.stamp \/ c \in HoldersOf(s, id.key)

LEMMA AnewMeans ==
    ASSUME NEW s, StoreOK(s), NEW t \in Nat, Fresh(s, t),
           NEW id \in Identity, NEW c \in Caller
    PROVE  /\ GrantDrops(s, t, id, c) <=> Anew(s, id, c) /\ id.key \in Live(s, t)
           /\ ~Anew(s, id, c) => /\ id.key \in HeldKeys(s)
                                 /\ s.entries[id.key].stamp = id.stamp
                                 /\ id.key \in FilledKeys(s)
                                       => c \notin HoldersOf(s, id.key)
           /\ Anew(s, id, c) => \/ id.key \in Live(s, t)
                                \/ id.key \notin HeldKeys(s)
                                \/ s.entries[id.key].stamp # id.stamp
  <1> DEFINE k == id.key
             q == <<c, id.key>>
  <1>0. s \in Store /\ k \in Key /\ q \in Caller \X Key /\ q[2] = k
    BY DEF StoreOK, Identity
  <1>1. Live(s, t) = FilledKeys(s) /\ FilledKeys(s) \subseteq HeldKeys(s)
    BY <1>0, FreshMeans, LiveMeans
  <1>2. ASSUME k \in HeldKeys(s)
        PROVE  /\ c \in HoldersOf(s, k)
                     <=> Retrying(s, id, c) /\ s.seen[q] = s.entries[k].generation
               /\ Retrying(s, id, c) /\ s.seen[q] = s.entries[k].generation
                     => k \in FilledKeys(s)
    <2>1. c \in HoldersOf(s, k) <=> s.seen[q] = s.entries[k].generation
      BY DEF HoldersOf
    <2>2. c \in HoldersOf(s, k) => k \notin AgentKey /\ q \in SeenPairs(s)
      BY <1>2, HoldersSeen
    <2>3. q \in SeenPairs(s) <=> s.seen[q] # Absent
      BY <1>0 DEF SeenPairs
    <2>4. q \in SeenPairs(s) /\ s.seen[q] = s.entries[k].generation => k \in FilledKeys(s)
      BY <1>0, <1>2 DEF StoreOK, GenerationsMeanWhatTheySay
    <2> QED
      BY <2>1, <2>2, <2>3, <2>4 DEF Retrying
  <1> QED
    BY <1>1, <1>2 DEF Anew, GrantDrops


LEMMA GrantView ==
    ASSUME NEW s, StoreOK(s), NEW t \in Nat, Fresh(s, t),
           NEW id \in Identity, NEW c \in Caller,
           Begin(s, t, id, c).lookup.reason = "miss",
           NEW u \in Store, u = Begin(s, t, id, c).store,
           NEW drop, drop <=> GrantDrops(s, t, id, c)
    PROVE  /\ id.key \in Live(s, t) => drop \/ <<c, id.key>> \in SeenPairs(s)
           /\ s.seq < u.seq
           /\ CredsAt(u, t) = IF drop THEN [CredsAt(s, t) EXCEPT ![id.key] = Absent]
                              ELSE CredsAt(s, t)
           /\ LeasesAt(u, t) =
                 (IF drop THEN {x \in LeasesAt(s, t) : x.id.key # id.key}
                  ELSE {x \in LeasesAt(s, t) : x.id.key = id.key => x.id = id})
                 \cup {[token |-> u.seq, id |-> id, caller |-> c,
                        deadline |-> t + TicketLifetime]}
           /\ SeenPairs(u) = WithRecord(SeenPairs(s), id, c)
  <1> DEFINE k == id.key
             new == [token |-> u.seq, id |-> id, caller |-> c,
                     deadline |-> t + TicketLifetime]
  <1>0. s \in Store /\ k \in Key /\ id.stamp \in Stamp
    BY DEF StoreOK, Identity
  <1>1. PICK r \in Store :
           /\ StoreOK(r)
           /\ r = IF Anew(s, id, c) THEN Renew(s, k, id.stamp) ELSE s
           /\ Retrying(s, id, c) \/ r.entries[k].secret = NoSecret
           /\ u = Issue(Remember(r, id, c, 0), id, c, t)
    BY MissMeans
  <1>2. /\ u.seq = r.seq + 1
        /\ u.entries = r.entries
        /\ u.tickets = r.tickets \cup {TicketFor(r, id, c, t)}
        /\ u.seen = Noted(r.seen, id, c)
    BY <1>1, IssueFields
  <1>3. drop <=> Anew(s, id, c) /\ k \in Live(s, t)
    BY AnewMeans
  <1>4. /\ s.seq <= r.seq /\ r.seq \in Nat /\ s.seq \in Nat
        /\ SeenPairs(r) = SeenPairs(s)
        /\ k \in HeldKeys(r) /\ r.entries[k].stamp = id.stamp
        /\ k \in FilledKeys(r) => c \notin HoldersOf(r, k)
        /\ k \notin Overdue(r, t)
    <2>1. CASE Anew(s, id, c)
      <3>1. r = Renew(s, k, id.stamp)
        BY <1>1, <2>1
      <3>2. /\ s.seq < r.seq /\ SeenPairs(r) = SeenPairs(s) /\ k \in HeldKeys(r)
            /\ r.entries[k].stamp = id.stamp /\ k \notin FilledKeys(r)
        BY <1>0, <3>1, RenewView
      <3>3. k \notin Overdue(r, t)
        BY <1>1, <3>2, LiveMeans
      <3>4. s.seq \in Nat /\ r.seq \in Nat
        BY <1>0, <1>1, StoreTypes
      <3> QED
        BY <3>2, <3>3, <3>4
    <2>2. CASE ~Anew(s, id, c)
      <3>1. r = s
        BY <1>1, <2>2
      <3>2. /\ k \in HeldKeys(s) /\ s.entries[k].stamp = id.stamp
            /\ k \in FilledKeys(s) => c \notin HoldersOf(s, k)
        BY <2>2, AnewMeans
      <3>3. k \notin Overdue(s, t)
        BY DEF Fresh
      <3>4. s.seq \in Nat
        BY <1>0, StoreTypes
      <3> QED
        BY <3>1, <3>2, <3>3, <3>4
    <2> QED
      BY <2>1, <2>2
  <1>5. s.seq < u.seq
    BY <1>2, <1>4
  <1>6. /\ CredsAt(u, t) = CredsAt(r, t)
        /\ SeenPairs(u) = WithRecord(SeenPairs(s), id, c)
    <2>1. StoreOK(r) /\ u.entries = r.entries
      BY <1>1, <1>2
    <2>2. u.seen = Noted(r.seen, id, c)
      BY <1>2
    <2>3. id.key \in FilledKeys(r) => c \notin HoldersOf(r, id.key)
      BY <1>4
    <2>4. /\ CredsAt(u, t) = CredsAt(r, t)
          /\ SeenPairs(u) = WithRecord(SeenPairs(r), id, c)
      BY <2>1, <2>2, <2>3, RecordView
    <2>5. SeenPairs(r) = SeenPairs(s)
      BY <1>4
    <2> QED
      BY <2>4, <2>5, Zenon
  <1>7. LeasesAt(u, t) = LeasesAt(r, t) \cup {new}
    BY <1>1, <1>2, <1>4, TicketView
  <1>8. CASE Anew(s, id, c)
    <2>1. r = Renew(s, k, id.stamp)
      BY <1>1, <1>8
    <2>2. /\ CredsAt(r, t) = [CredsAt(s, t) EXCEPT ![k] = Absent]
          /\ LeasesAt(r, t) = {x \in LeasesAt(s, t) : x.id.key # k}
      BY <1>0, <2>1, RenewView
    <2>3. CASE k \in Live(s, t)
      <3>1. drop
        BY <1>3, <1>8, <2>3
      <3> QED
        BY <1>5, <1>6, <1>7, <2>2, <3>1
    <2>4. CASE k \notin Live(s, t)
      <3>1. ~drop
        BY <1>3, <2>4
      <3>2. CredsAt(s, t)[k] = Absent
        BY <1>0, <2>4, CredsMean
      <3>3. [CredsAt(s, t) EXCEPT ![k] = Absent] = CredsAt(s, t)
        <4>1. CredsAt(s, t) = [j \in Key |-> CredsAt(s, t)[j]]
          BY DEF CredsAt
        <4> QED
          BY <3>2, <4>1
      <3>4. k \notin HeldKeys(s) \/ s.entries[k].stamp # id.stamp
        BY <1>8, <2>4, AnewMeans
      <3>5. ASSUME NEW l \in Valid(s, t) PROVE l.id # id
        BY <1>0, <3>4, <3>5, ValidMeans
      <3>6. \A x \in LeasesAt(s, t) : x.id # id
        BY <3>5, LeaseFields, LeasesMean
      <3>7. {x \in LeasesAt(s, t) : x.id.key # k}
               = {x \in LeasesAt(s, t) : x.id.key = k => x.id = id}
        BY <3>6
      <3>8. CredsAt(u, t) = CredsAt(s, t)
        BY <1>6, <2>2, <3>3
      <3>9. LeasesAt(u, t) = {x \in LeasesAt(s, t) : x.id.key = k => x.id = id} \cup {new}
        BY <1>7, <2>2, <3>7
      <3> QED
        BY <1>5, <1>6, <2>4, <3>1, <3>8, <3>9
    <2> QED
      BY <2>3, <2>4
  <1>9. CASE ~Anew(s, id, c)
    <2>1. r = s /\ ~drop
      BY <1>1, <1>3, <1>9
    <2>2. k \in HeldKeys(s) /\ s.entries[k].stamp = id.stamp
      BY <1>9, AnewMeans
    <2>3. ASSUME NEW l \in Valid(s, t), l.id.key = k PROVE l.id = id
      BY <1>0, <2>2, <2>3, ValidMeans, IdentityEqual
    <2>4. \A x \in LeasesAt(s, t) : x.id.key = k => x.id = id
      BY <2>3, LeaseFields, LeasesMean
    <2>5. {x \in LeasesAt(s, t) : x.id.key = k => x.id = id} = LeasesAt(s, t)
      BY <2>4
    <2>6. ASSUME k \in Live(s, t) PROVE <<c, k>> \in SeenPairs(s)
      <3>1. s.entries[k].secret # NoSecret
        BY <1>0, <2>6, LiveMeans DEF FilledKeys
      <3>2. Retrying(s, id, c)
        BY <1>1, <2>1, <3>1
      <3> QED
        BY <1>0, <3>2 DEF Retrying, SeenPairs
    <2>7. LeasesAt(u, t) = {x \in LeasesAt(s, t) : x.id.key = k => x.id = id} \cup {new}
      BY <1>7, <2>1, <2>5
    <2> QED
      BY <1>5, <1>6, <2>1, <2>6, <2>7
  <1> QED
    BY <1>8, <1>9


---------------------------------------------------------------------------
\* A stored response is the new credential of its key, in place of whatever
\* was there, and every lease of the key is used up.
LEMMA PutView ==
    ASSUME NEW s, StoreOK(s), NEW t \in Nat, Fresh(s, t), TTL # 0,
           NEW id \in Identity, NEW c \in Caller, NEW secret \in Secret,
           NEW l \in s.tickets, l.id = id, l.caller = c,
           Holds(s, id, l.generation),
           NEW u \in Store, u.seq = s.seq + 1,
           u.tickets = s.tickets \ {l},
           u.entries = [s.entries EXCEPT ![id.key] =
                          [stamp |-> id.stamp, generation |-> s.seq + 1,
                           secret |-> secret, expires |-> t + TTL]],
           u.seen = IF id.key \in AgentKey THEN s.seen
                    ELSE [s.seen EXCEPT ![<<c, id.key>>] = s.seq + 1]
    PROVE  /\ LeaseOf(l) \in LeasesAt(s, t)
           /\ LeasesAt(u, t) = {x \in LeasesAt(s, t) : x.id.key # id.key}
           /\ CredsAt(u, t) = [CredsAt(s, t) EXCEPT ![id.key] =
                 [stamp |-> id.stamp, secret |-> secret, deadline |-> t + TTL,
                  holders |-> IF id.key \notin AgentKey THEN {c} ELSE {}]]
           /\ SeenPairs(u) = SeenPairs(s)
  <1> DEFINE k == id.key
             q == <<c, id.key>>
             e == [stamp |-> id.stamp, generation |-> s.seq + 1,
                   secret |-> secret, expires |-> t + TTL]
             new == [stamp |-> id.stamp, secret |-> secret, deadline |-> t + TTL,
                     holders |-> IF id.key \notin AgentKey THEN {c} ELSE {}]
  <1>0. /\ s \in Store /\ k \in Key /\ id.stamp \in Stamp /\ q \in Caller \X Key
        /\ s.seq \in Nat /\ s.seq + 1 \in Nat
        /\ DOMAIN s.entries = Key /\ DOMAIN s.seen = Caller \X Key
    BY StoreTypes DEF StoreOK, Identity
  <1>1. /\ u.entries[k] = e
        /\ \A j \in Key \ {k} : u.entries[j] = s.entries[j]
    BY <1>0
  <1>2. /\ e.stamp = id.stamp /\ e.generation = s.seq + 1
        /\ e.secret = secret /\ e.expires = t + TTL
    OBVIOUS
  <1>3. e \in Entry /\ t + TTL \in Nat
    BY <1>0, LimitsAssumption DEF Entry
  <1>4. e # Absent /\ secret # NoSecret
    BY <1>3, MarkersAssumption
  <1> HIDE DEF e
  <1>5. k \in FilledKeys(u) /\ k \in Live(u, t)
    <2>1. k \in FilledKeys(u)
      BY <1>0, <1>1, <1>2, <1>4 DEF FilledKeys, HeldKeys
    <2>2. ~(t >= t + TTL)
      BY LimitsAssumption
    <2> QED
      BY <1>1, <1>2, <2>1, <2>2, LiveMeans
  <1>6. \A p \in SeenPairs(s) : s.seen[p] # s.seq + 1
    BY <1>0 DEF StoreOK, NumbersUsedOnce
  <1>7. ASSUME NEW d \in Caller PROVE s.seen[<<d, k>>] # s.seq + 1
    <2>1. <<d, k>> \in Caller \X Key
      BY <1>0
    <2>2. CASE <<d, k>> \in SeenPairs(s)
      BY <1>6, <2>2
    <2>3. CASE s.seen[<<d, k>>] = Absent
      BY <1>0, <2>3, MarkersAssumption
    <2> QED
      BY <2>1, <2>2, <2>3 DEF SeenPairs
  <1>8. HoldersOf(u, k) = IF k \notin AgentKey THEN {c} ELSE {}
    <2>1. HoldersOf(u, k) = {d \in Caller : u.seen[<<d, k>>] = s.seq + 1}
      BY <1>1, <1>2 DEF HoldersOf
    <2>2. CASE k \in AgentKey
      BY <1>7, <2>1, <2>2
    <2>3. CASE k \notin AgentKey
      <3>1. u.seen[q] = s.seq + 1
        BY <1>0, <2>3
      <3>2. \A d \in Caller \ {c} : <<d, k>> \in (Caller \X Key) \ {q}
        BY <1>0
      <3>3. \A d \in Caller \ {c} : u.seen[<<d, k>>] = s.seen[<<d, k>>]
        BY <1>0, <2>3, <3>2
      <3> QED
        BY <1>7, <2>1, <2>3, <3>1, <3>3
    <2> QED
      BY <2>2, <2>3
  <1>9. CredentialOf(u, k) = new
    BY <1>1, <1>2, <1>8 DEF CredentialOf
  <1>10. ASSUME NEW j \in Key, j # k PROVE CredsAt(u, t)[j] = CredsAt(s, t)[j]
    <2>1. u.entries[j] = s.entries[j]
      BY <1>1, <1>10
    <2>2. \A d \in Caller : <<d, j>> \in (Caller \X Key) \ {q}
      BY <1>10
    <2>3. \A d \in Caller : u.seen[<<d, j>>] = s.seen[<<d, j>>]
      BY <1>0, <2>2
    <2>4. s \in Store /\ u \in Store /\ j \in Key /\ t \in Nat
      BY <1>0
    <2> HIDE DEF q
    <2> QED
      BY ONLY <2>1, <2>3, <2>4, SameCredential
  <1>11. CredsAt(u, t) = [CredsAt(s, t) EXCEPT ![k] = new]
    <2> DEFINE C == CredsAt(s, t)
               D == CredsAt(u, t)
    <2>1. C = [j \in Key |-> C[j]] /\ D = [j \in Key |-> D[j]]
      BY DEF CredsAt
    <2>2. D[k] = new
      BY <1>0, <1>5, <1>9, CredsMean
    <2>3. \A j \in Key \ {k} : D[j] = C[j]
      BY <1>10
    <2> HIDE DEF C, D, new
    <2>4. D = [C EXCEPT ![k] = new]
      BY <2>1, <2>2, <2>3
    <2> QED
      BY <2>4 DEF C, D
  <1>12. l \in Valid(s, t)
    BY DEF Fresh, Valid
  <1>13. \A m : m \in Valid(u, t) <=> m \in Valid(s, t) /\ m.id.key # k
    <2> SUFFICES ASSUME NEW m \in s.tickets
                 PROVE  m \in Valid(u, t) <=> m \in Valid(s, t) /\ m.id.key # k
      BY DEF Valid
    <2>1. m.id.key \in Key /\ m.generation \in 1..s.seq
      BY <1>0, StoreTypes DEF Ticket, Identity, StoreOK, NumbersUsedOnce
    <2>2. CASE m.id.key = k
      <3>1. m.generation # s.seq + 1
        BY <1>0, <2>1
      <3> QED
        BY <1>1, <1>2, <2>2, <3>1 DEF Valid, Holds
    <2>3. CASE m.id.key # k
      <3>1. u.entries[m.id.key] = s.entries[m.id.key] /\ m # l
        BY <1>1, <2>1, <2>3
      <3>2. m \in u.tickets
        BY <3>1
      <3> QED
        BY <1>0, <2>3, <3>1, <3>2, SameValid
    <2> QED
      BY <2>2, <2>3
  <1>14. LeasesAt(u, t) = {x \in LeasesAt(s, t) : x.id.key # k}
    <2>1. ASSUME NEW x
          PROVE  x \in LeasesAt(u, t) <=> x \in LeasesAt(s, t) /\ x.id.key # k
      BY <1>13, LeaseFields, LeasesMean, SMTT(30)
    <2> QED
      BY <2>1
  <1>15. SeenPairs(u) = SeenPairs(s)
    <2>1. CASE k \in AgentKey
      BY <2>1 DEF SeenPairs
    <2>2. CASE k \notin AgentKey
      <3>1. q \in SeenPairs(s)
        BY <2>2 DEF StoreOK, LeasesTracked
      <3>2. u.seen = [s.seen EXCEPT ![q] = s.seq + 1] /\ s.seq + 1 # Absent
        BY <1>0, <2>2, MarkersAssumption
      <3>3. u.seen[q] = s.seq + 1 /\ \A p \in (Caller \X Key) \ {q} : u.seen[p] = s.seen[p]
        BY <1>0, <3>2
      <3> QED
        BY <1>0, <3>1, <3>2, <3>3 DEF SeenPairs
    <2> QED
      BY <2>1, <2>2
  <1> QED
    BY <1>11, <1>12, <1>14, <1>15, LeasesMean

\* A lease that is presented in vain is used up, if it was valid at all.
LEMMA WasteView ==
    ASSUME NEW s, StoreOK(s), NEW t \in Nat, NEW token, NEW c,
           NEW u \in Store, u.seq = s.seq, u.entries = s.entries, u.seen = s.seen,
           u.tickets = s.tickets \ Presented(s, token, c)
    PROVE  /\ CredsAt(u, t) = CredsAt(s, t) /\ SeenPairs(u) = SeenPairs(s)
           /\ \/ LeasesAt(u, t) = LeasesAt(s, t)
              \/ \E l \in LeasesAt(s, t) : LeasesAt(u, t) = LeasesAt(s, t) \ {l}
  <1>0. s \in Store
    BY DEF StoreOK
  <1>1. CredsAt(u, t) = CredsAt(s, t)
    BY DEF CredsAt, Live, CredentialOf, HoldersOf, Overdue, FilledKeys, HeldKeys
  <1>2. Valid(u, t) = Valid(s, t) \ Presented(s, token, c)
    BY DEF Valid, Holds, Overdue, FilledKeys, HeldKeys
  <1>3. CASE Valid(s, t) \cap Presented(s, token, c) = {}
    <2>1. Valid(u, t) = Valid(s, t)
      BY <1>2, <1>3
    <2> QED
      BY <1>1, <2>1 DEF LeasesAt, SeenPairs
  <1>4. ASSUME NEW l \in Valid(s, t), l \in Presented(s, token, c)
        PROVE  LeaseOf(l) \in LeasesAt(s, t) /\ LeasesAt(u, t) = LeasesAt(s, t) \ {LeaseOf(l)}
    <2>1. \A m \in Valid(s, t) : m.token = l.token => m = l
      BY <1>4 DEF Valid, StoreOK, NumbersUsedOnce
    <2>2. \A m \in Valid(s, t) : m \in Presented(s, token, c) => m = l
      BY <1>4, <2>1 DEF Presented
    <2>3. Valid(u, t) = Valid(s, t) \ {l}
      BY <1>2, <1>4, <2>2
    <2>4. \A m \in Valid(s, t) : LeaseOf(m) = LeaseOf(l) => m = l
      BY <2>1, LeaseFields
    <2> QED
      BY <2>3, <2>4, LeasesMean
  <1> QED
    BY <1>1, <1>3, <1>4 DEF SeenPairs


---------------------------------------------------------------------------
\* Forgotten keys have no credential and no lease.
LEMMA ForgetView ==
    ASSUME NEW s, StoreOK(s), NEW t \in Nat, NEW K \in SUBSET Key,
           NEW u, u = Forget(s, K)
    PROVE  /\ s.seq <= u.seq /\ SeenPairs(u) = SeenPairs(s)
           /\ CredsAt(u, t) = [k \in Key |-> IF k \in K THEN Absent ELSE CredsAt(s, t)[k]]
           /\ LeasesAt(u, t) = {x \in LeasesAt(s, t) : x.id.key \notin K}
  <1>0. s \in Store
    BY DEF StoreOK
  <1>1. /\ u \in Store
        /\ u.entries = [k \in Key |-> IF k \in K THEN Absent ELSE s.entries[k]]
        /\ u.tickets = {l \in s.tickets : l.id.key \notin K}
        /\ u.seen = s.seen
        /\ s.seq <= u.seq
    BY <1>0, ForgetFields
  <1>2. ASSUME NEW k \in Key
        PROVE  CredsAt(u, t)[k] = IF k \in K THEN Absent ELSE CredsAt(s, t)[k]
    <2>1. CASE k \in K
      <3>1. u.entries[k] = Absent
        BY <1>1, <2>1
      <3>2. k \notin Live(u, t)
        BY <3>1 DEF Live, FilledKeys, HeldKeys
      <3> QED
        BY <1>1, <2>1, <3>2, CredsMean
    <2>2. CASE k \notin K
      <3>1. u.entries[k] = s.entries[k]
        BY <1>1, <2>2
      <3> QED
        BY <1>0, <1>1, <2>2, <3>1, SameCredential
    <2> QED
      BY <2>1, <2>2
  <1>3. CredsAt(u, t) = [k \in Key |-> IF k \in K THEN Absent ELSE CredsAt(s, t)[k]]
    <2> DEFINE D == CredsAt(u, t)
               C == CredsAt(s, t)
    <2>1. D = [k \in Key |-> D[k]]
      BY DEF CredsAt
    <2>2. \A k \in Key : D[k] = IF k \in K THEN Absent ELSE C[k]
      BY <1>2
    <2> HIDE DEF C, D
    <2>3. D = [k \in Key |-> IF k \in K THEN Absent ELSE C[k]]
      BY <2>1, <2>2
    <2> QED
      BY <2>3 DEF C, D
  <1>4. \A l : l \in Valid(u, t) <=> l \in Valid(s, t) /\ l.id.key \notin K
    <2> SUFFICES ASSUME NEW l \in s.tickets
                 PROVE  l \in Valid(u, t) <=> l \in Valid(s, t) /\ l.id.key \notin K
      BY <1>1 DEF Valid
    <2>1. l.id.key \in Key
      BY <1>0, StoreTypes DEF Ticket, Identity
    <2>2. CASE l.id.key \in K
      BY <1>1, <2>2 DEF Valid
    <2>3. CASE l.id.key \notin K
      <3>1. u.entries[l.id.key] = s.entries[l.id.key] /\ l \in u.tickets
        BY <1>1, <2>1, <2>3
      <3> QED
        BY <1>0, <1>1, <2>3, <3>1, SameValid
    <2> QED
      BY <2>2, <2>3
  <1>5. LeasesAt(u, t) = {x \in LeasesAt(s, t) : x.id.key \notin K}
    BY <1>4, LeaseFields, LeasesMean
  <1> QED
    BY <1>1, <1>3, <1>5 DEF SeenPairs

\* A rejection drops the live credential of its key with the leases, and
\* changes nothing that counts if there is none.
LEMMA RejectView ==
    ASSUME NEW s, StoreOK(s), NEW t \in Nat, NEW id \in Identity,
           NEW j \in FilledKeys(s),
           NEW u, u = Reject(s, id, s.entries[j].generation)
    PROVE  /\ s.seq <= u.seq /\ SeenPairs(u) = SeenPairs(s)
           /\ \/ /\ CredsAt(u, t) = CredsAt(s, t)
                 /\ LeasesAt(u, t) = LeasesAt(s, t)
              \/ /\ id.key \in Live(s, t)
                 /\ CredsAt(u, t) = [CredsAt(s, t) EXCEPT ![id.key] = Absent]
                 /\ LeasesAt(u, t) = {x \in LeasesAt(s, t) : x.id.key # id.key}
  <1> DEFINE g == s.entries[j].generation
             k == id.key
  <1>0. s \in Store /\ k \in Key /\ id.stamp \in Stamp /\ s.seq \in Nat
    BY StoreTypes DEF StoreOK, Identity
  <1>1. CASE ~Holds(s, id, g)
    <2>1. u = s
      BY <1>1 DEF Reject
    <2> QED
      BY <1>0, <2>1
  <1>2. CASE Holds(s, id, g)
    <2>1. u = Renew(s, k, id.stamp)
      BY <1>2 DEF Reject
    <2>2. k \in FilledKeys(s)
      <3>1. k \in HeldKeys(s) /\ j \in HeldKeys(s) /\ s.entries[k].generation = g
        BY <1>2 DEF Holds, FilledKeys
      <3>2. k = j
        BY <3>1 DEF StoreOK, NumbersUsedOnce
      <3> QED
        BY <3>2
    <2>3. /\ u \in Store /\ s.seq < u.seq /\ SeenPairs(u) = SeenPairs(s)
          /\ CredsAt(u, t) = [CredsAt(s, t) EXCEPT ![k] = Absent]
          /\ LeasesAt(u, t) = {x \in LeasesAt(s, t) : x.id.key # k}
      BY <1>0, <2>1, RenewView
    <2>4. s.seq <= u.seq
      BY <1>0, <2>3, StoreTypes
    <2>5. CASE k \in Live(s, t)
      BY <2>3, <2>4, <2>5
    <2>6. CASE k \notin Live(s, t)
      <3>1. k \in Overdue(s, t)
        BY <2>2, <2>6 DEF Live
      <3>2. CredsAt(s, t)[k] = Absent /\ CredsAt(s, t) = [i \in Key |-> CredsAt(s, t)[i]]
        <4>1. CredsAt(s, t) = [i \in Key |-> CredsAt(s, t)[i]]
          BY DEF CredsAt
        <4> QED
          BY <1>0, <2>6, <4>1, CredsMean
      <3>3. [CredsAt(s, t) EXCEPT ![k] = Absent] = CredsAt(s, t)
        BY <3>2
      <3>4. \A l \in Valid(s, t) : l.id.key # k
        BY <3>1 DEF Valid
      <3>5. \A x \in LeasesAt(s, t) : x.id.key # k
        BY <3>4, LeaseFields, LeasesMean
      <3>6. LeasesAt(u, t) = LeasesAt(s, t)
        BY <2>3, <3>5
      <3> QED
        BY <2>3, <2>4, <3>3, <3>6
    <2> QED
      BY <2>5, <2>6
  <1> QED
    BY <1>1, <1>2


\* A sweep forgets what it kept on behalf of callers that are gone: records,
\* and with them who holds a credential, and leases.  Nothing else that counts.
LEMMA SweepView ==
    ASSUME NEW s, StoreOK(s), NEW t \in Nat, NEW P, NEW T,
           NEW u, u = Sweep(s, P, T)
    PROVE  /\ u.seq = s.seq
           /\ SeenPairs(u) = SeenPairs(s) \ P
           /\ CredsAt(u, t) =
                 [k \in Key |-> IF CredsAt(s, t)[k] = Absent THEN Absent
                                ELSE [CredsAt(s, t)[k] EXCEPT !.holders =
                                         {c \in @ : <<c, k>> \in SeenPairs(u)}]]
           /\ \A x : x \in LeasesAt(u, t) <=>
                        \E l \in Valid(s, t) \ T : x = LeaseOf(l)
  <1> DEFINE U == Unneeded(Pruned(s, P, T))
  <1>0. s \in Store
    BY DEF StoreOK
  <1>1. /\ u \in Store /\ u.seq = s.seq
        /\ u.entries = [k \in Key |-> IF k \in U THEN Absent ELSE s.entries[k]]
        /\ u.tickets = s.tickets \ T
        /\ u.seen = [p \in Caller \X Key |-> IF p \in P THEN Absent ELSE s.seen[p]]
        /\ \A l \in s.tickets \ T : l.id.key \notin U
    <2>1. /\ Sweep(s, P, T) \in Store
          /\ Sweep(s, P, T).seq = s.seq
          /\ Sweep(s, P, T).entries = [k \in Key |-> IF k \in U THEN Absent ELSE s.entries[k]]
          /\ Sweep(s, P, T).tickets = s.tickets \ T
          /\ Sweep(s, P, T).seen = [p \in Caller \X Key |->
                                       IF p \in P THEN Absent ELSE s.seen[p]]
          /\ \A l \in s.tickets \ T : l.id.key \notin U
      BY <1>0, SweepFields
    <2> HIDE DEF U
    <2> QED
      BY <2>1
  <1>2. \A k \in U : k \in Key /\ k \notin FilledKeys(s)
    <2>1. Pruned(s, P, T).entries = s.entries
      BY <1>0 DEF Pruned, Store
    <2> QED
      BY <2>1 DEF Unneeded, FilledKeys, HeldKeys
  <1> HIDE DEF U
  <1>3. SeenPairs(u) = SeenPairs(s) \ P
    BY <1>1 DEF SeenPairs
  <1>4. ASSUME NEW k \in Key
        PROVE  CredsAt(u, t)[k] =
                  IF CredsAt(s, t)[k] = Absent THEN Absent
                  ELSE [CredsAt(s, t)[k] EXCEPT !.holders =
                           {c \in @ : <<c, k>> \in SeenPairs(u)}]
    <2>1. k \in Live(u, t) <=> k \in Live(s, t)
      BY <1>1, <1>2 DEF Live, Overdue, FilledKeys, HeldKeys
    <2>2. CASE k \notin Live(s, t)
      <3>1. CredsAt(u, t)[k] = Absent /\ CredsAt(s, t)[k] = Absent
        BY <1>0, <1>1, <2>1, <2>2, CredsMean
      <3> QED
        BY <3>1
    <2>3. CASE k \in Live(s, t)
      <3>1. k \in FilledKeys(s) /\ k \in HeldKeys(s)
        BY <1>0, <2>3, LiveMeans
      <3>2. u.entries[k] = s.entries[k]
        BY <1>1, <1>2, <3>1
      <3>3. s.entries[k].generation # Absent
        BY <1>0, <3>1, HeldTypes, MarkersAssumption
      <3>4. \A c \in Caller : <<c, k>> \in SeenPairs(u) <=> u.seen[<<c, k>>] # Absent
        BY DEF SeenPairs
      <3>5. \A c \in Caller : u.seen[<<c, k>>] = Absent \/ u.seen[<<c, k>>] = s.seen[<<c, k>>]
        BY <1>1
      <3>6. HoldersOf(u, k) = {c \in HoldersOf(s, k) : <<c, k>> \in SeenPairs(u)}
        BY <3>2, <3>3, <3>4, <3>5 DEF HoldersOf
      <3>7. CredentialOf(u, k) = [CredentialOf(s, k) EXCEPT !.holders =
                                     {c \in @ : <<c, k>> \in SeenPairs(u)}]
        <4> DEFINE H == {c \in HoldersOf(s, k) : <<c, k>> \in SeenPairs(u)}
        <4>1. HoldersOf(u, k) = H
          BY <3>6
        <4>2. CredentialOf(s, k).holders = HoldersOf(s, k)
          BY DEF CredentialOf
        <4>3. [CredentialOf(s, k) EXCEPT !.holders =
                  {c \in @ : <<c, k>> \in SeenPairs(u)}]
                 = [CredentialOf(s, k) EXCEPT !.holders = H]
          BY <4>2
        <4> HIDE DEF H
        <4>4. CredentialOf(u, k) = [CredentialOf(s, k) EXCEPT !.holders = H]
          BY <3>2, <4>1 DEF CredentialOf
        <4> QED
          BY <4>3, <4>4
      <3>8. CredsAt(u, t)[k] = CredentialOf(u, k)
        BY <1>1, <2>1, <2>3, CredsMean
      <3>9. CredsAt(s, t)[k] = CredentialOf(s, k) /\ CredsAt(s, t)[k] # Absent
        BY <1>0, <2>3, CredsMean
      <3> QED
        BY <3>7, <3>8, <3>9
    <2> QED
      BY <2>2, <2>3
  <1>5. CredsAt(u, t) =
           [k \in Key |-> IF CredsAt(s, t)[k] = Absent THEN Absent
                          ELSE [CredsAt(s, t)[k] EXCEPT !.holders =
                                   {c \in @ : <<c, k>> \in SeenPairs(u)}]]
    <2> DEFINE D == CredsAt(u, t)
               F(k) == IF CredsAt(s, t)[k] = Absent THEN Absent
                       ELSE [CredsAt(s, t)[k] EXCEPT !.holders =
                                {c \in @ : <<c, k>> \in SeenPairs(u)}]
    <2>1. D = [k \in Key |-> D[k]]
      BY DEF CredsAt
    <2>2. \A k \in Key : D[k] = F(k)
      BY <1>4
    <2> HIDE DEF D, F
    <2>3. D = [k \in Key |-> F(k)]
      BY <2>1, <2>2
    <2> QED
      BY <2>3 DEF D, F
  <1>6. Valid(u, t) = Valid(s, t) \ T
    <2> SUFFICES ASSUME NEW l \in s.tickets \ T
                 PROVE  l \in Valid(u, t) <=> l \in Valid(s, t)
      BY <1>1 DEF Valid
    <2>1. l.id.key \in Key
      BY <1>0, StoreTypes DEF Ticket, Identity
    <2>2. u.entries[l.id.key] = s.entries[l.id.key] /\ l \in u.tickets
      BY <1>1, <2>1
    <2> QED
      BY <1>0, <1>1, <2>2, SameValid
  <1> QED
    BY <1>1, <1>3, <1>5, <1>6, LeasesMean

\* Time passes: overdue credentials go, with the leases of their keys.
LEMMA TickView ==
    ASSUME NEW s, StoreOK(s), NEW t \in Nat
    PROVE  LET lapsed(k) == /\ CredsAt(s, t)[k] # Absent
                            /\ t + 1 >= CredsAt(s, t)[k].deadline
           IN /\ CredsAt(s, t + 1) =
                    [k \in Key |-> IF lapsed(k) THEN Absent ELSE CredsAt(s, t)[k]]
              /\ LeasesAt(s, t + 1) =
                    {x \in LeasesAt(s, t) : t + 1 < x.deadline /\ ~lapsed(x.id.key)}
  <1> DEFINE lapsed(k) == /\ CredsAt(s, t)[k] # Absent
                          /\ t + 1 >= CredsAt(s, t)[k].deadline
  <1>0. s \in Store /\ t + 1 \in Nat
    BY DEF StoreOK
  <1>1. \A k \in HeldKeys(s) : s.entries[k].expires \in Nat
    BY <1>0, HeldTypes DEF Entry
  <1>2. ASSUME NEW k \in Key
        PROVE  /\ lapsed(k) <=> k \in Live(s, t) /\ t + 1 >= s.entries[k].expires
               /\ k \in Live(s, t + 1) <=> k \in Live(s, t) /\ ~lapsed(k)
               /\ k \in Overdue(s, t + 1) <=> k \in Overdue(s, t) \/ lapsed(k)
    <2>1. k \in Live(s, t) => CredsAt(s, t)[k].deadline = s.entries[k].expires
      <3>1. CredentialOf(s, k).deadline = s.entries[k].expires
        BY DEF CredentialOf
      <3> QED
        BY <1>0, <3>1, CredsMean
    <2>2. lapsed(k) <=> k \in Live(s, t) /\ t + 1 >= s.entries[k].expires
      BY <1>0, <2>1, CredsMean
    <2> HIDE DEF lapsed
    <2>3. k \in FilledKeys(s) =>
             (t >= s.entries[k].expires => t + 1 >= s.entries[k].expires)
      BY <1>1 DEF FilledKeys
    <2> QED
      BY <2>2, <2>3 DEF Live, Overdue
  <1>3. \A k \in Key : CredsAt(s, t + 1)[k] = IF lapsed(k) THEN Absent ELSE CredsAt(s, t)[k]
    <2> SUFFICES ASSUME NEW k \in Key
                 PROVE  CredsAt(s, t + 1)[k] = IF lapsed(k) THEN Absent ELSE CredsAt(s, t)[k]
      OBVIOUS
    <2>1. CredsAt(s, t + 1)[k] = IF k \in Live(s, t + 1) THEN CredentialOf(s, k) ELSE Absent
      BY <1>0, CredsMean
    <2>2. CredsAt(s, t)[k] = IF k \in Live(s, t) THEN CredentialOf(s, k) ELSE Absent
      BY <1>0, CredsMean
    <2>3. k \in Live(s, t + 1) <=> k \in Live(s, t) /\ ~lapsed(k)
      BY <1>2
    <2> HIDE DEF lapsed
    <2> QED
      BY <2>1, <2>2, <2>3
  <1>4. CredsAt(s, t + 1) = [k \in Key |-> IF lapsed(k) THEN Absent ELSE CredsAt(s, t)[k]]
    <2> DEFINE D == CredsAt(s, t + 1)
    <2>1. D = [k \in Key |-> D[k]]
      BY DEF CredsAt
    <2>2. \A k \in Key : D[k] = IF lapsed(k) THEN Absent ELSE CredsAt(s, t)[k]
      BY <1>3
    <2> HIDE DEF D, lapsed
    <2>3. D = [k \in Key |-> IF lapsed(k) THEN Absent ELSE CredsAt(s, t)[k]]
      BY <2>1, <2>2
    <2> QED
      BY <2>3 DEF D
  <1>5. \A l : l \in Valid(s, t + 1)
                  <=> l \in Valid(s, t) /\ t + 1 < l.expires /\ ~lapsed(l.id.key)
    <2> SUFFICES ASSUME NEW l \in s.tickets
                 PROVE  l \in Valid(s, t + 1)
                          <=> l \in Valid(s, t) /\ t + 1 < l.expires /\ ~lapsed(l.id.key)
      BY DEF Valid
    <2>1. l.id.key \in Key /\ l.expires \in Nat
      BY <1>0, StoreTypes DEF Ticket, Identity
    <2>2. l.id.key \in Overdue(s, t + 1) <=> l.id.key \in Overdue(s, t) \/ lapsed(l.id.key)
      BY <1>2, <2>1
    <2>3. t + 1 < l.expires => t < l.expires
      BY <2>1
    <2> HIDE DEF lapsed
    <2> QED
      BY <2>2, <2>3 DEF Valid
  <1> HIDE DEF lapsed
  <1>6. LeasesAt(s, t + 1) =
           {x \in LeasesAt(s, t) : t + 1 < x.deadline /\ ~lapsed(x.id.key)}
    BY <1>5, LeaseFields, LeasesMean
  <1> QED
    BY <1>4, <1>6 DEF lapsed


---------------------------------------------------------------------------
(* Every step of the cache is a step of CredentialLease, or a stutter.     *)

\* No lease where the cache is disabled.
LeaseInv == TTL = 0 => store.tickets = {}

LEMMA BeginOutcomes ==
    ASSUME NEW s, NEW t, NEW id, NEW c
    PROVE  \/ Begin(s, t, id, c).lookup.reason = "hit"
           \/ Begin(s, t, id, c).lookup.reason = "miss" /\ TTL # 0
           \/ /\ Begin(s, t, id, c).store = s
              /\ Begin(s, t, id, c).lookup.reason \notin {"hit", "miss"}
  <1>1. TTL = 0 => Begin(s, t, id, c) = [store |-> s, lookup |-> NoLookup("disabled")]
    BY DEF Begin
  <1>2. TTL # 0 /\ NoRoom(s, id, c)
           => Begin(s, t, id, c) = [store |-> s, lookup |-> NoLookup("capacity")]
    BY DEF Begin
  <1>3. TTL # 0 /\ ~NoRoom(s, id, c) => Begin(s, t, id, c).lookup.reason \in {"hit", "miss"}
    BY DEF Begin
  <1>4. NoLookup("disabled").reason \notin {"hit", "miss"}
        /\ NoLookup("capacity").reason \notin {"hit", "miss"}
    BY DEF NoLookup
  <1> QED
    BY <1>1, <1>2, <1>3, <1>4

LEMMA BeginStepsLease ==
    ASSUME StoreInv, NEW c \in Caller, NEW id \in Identity, BeginCall(c, id)
    PROVE  \/ Lease!Supply(c, id) /\ store'.seq >= store.seq
           \/ Lease!Grant(c, id)
           \/ Lease!Refuse /\ store'.seq >= store.seq
  <1>1. PICK s \in Expire(store, now) :
          /\ store' = Begin(s, now, id, c).store
          /\ reply' = BeginReply(c, id, Begin(s, now, id, c).lookup)
          /\ UNCHANGED <<now, alive>>
    BY DEF BeginCall
  <1>2. /\ StoreOK(store) /\ store \in Store /\ now \in Nat
        /\ store.seq \in Nat /\ id.key \in Key
    BY StoreTypes DEF StoreInv, TypeOK, StoreOK, Identity
  <1>3. /\ StoreOK(s) /\ s \in Store /\ store.seq <= s.seq /\ s.seq \in Nat
        /\ SeenPairs(s) = SeenPairs(store)
        /\ Fresh(s, now)
        /\ CredsAt(s, now) = Credentials
        /\ LeasesAt(s, now) = Leases
    <2>1. /\ StoreOK(s) /\ store.seq <= s.seq /\ SeenPairs(s) = SeenPairs(store)
          /\ Fresh(s, now)
          /\ CredsAt(s, now) = CredsAt(store, now)
          /\ LeasesAt(s, now) = LeasesAt(store, now)
      BY <1>2, ExpiryHidden
    <2>2. s \in Store /\ s.seq \in Nat
      BY <2>1, StoreTypes DEF StoreOK
    <2> QED
      BY <2>1, <2>2, Views
  <1>4. /\ StoreOK(store') /\ store' \in Store /\ store'.seq \in Nat
    <2>1. StoreOK(store')
      BY <1>1, <1>2, <1>3, BeginOK
    <2> QED
      BY <2>1, StoreTypes DEF StoreOK
  <1>5. Credentials' = CredsAt(store', now) /\ Leases' = LeasesAt(store', now)
    BY <1>1, Views
  <1>6. CASE Begin(s, now, id, c).lookup.reason = "hit"
    <2>1. /\ store' = Remember(s, id, c, s.entries[id.key].generation)
          /\ id.key \in FilledKeys(s) /\ s.entries[id.key].stamp = id.stamp
          /\ ~Retrying(s, id, c)
          /\ Begin(s, now, id, c).lookup.secret = s.entries[id.key].secret
      BY <1>1, <1>2, <1>3, <1>6, HitMeans
    <2>2. /\ <<c, id.key>> \notin SeenPairs(s)
          /\ LeasesAt(store', now) = LeasesAt(s, now)
          /\ IF id.key \in AgentKey
             THEN CredsAt(store', now) = CredsAt(s, now) /\ SeenPairs(store') = SeenPairs(s)
             ELSE /\ CredsAt(store', now) =
                       [CredsAt(s, now) EXCEPT ![id.key].holders = @ \cup {c}]
                  /\ SeenPairs(store') = SeenPairs(s) \cup {<<c, id.key>>}
      BY <1>2, <1>3, <2>1, HitView
    <2>3. store'.seq >= store.seq
      <3>1. s.entries[id.key].generation \in Nat
        BY <1>3, <2>1, HeldTypes DEF FilledKeys
      <3>2. store'.seq = s.seq
        <4> DEFINE g == s.entries[id.key].generation
        <4>1. g \in Nat /\ s \in Store /\ store' = Remember(s, id, c, g)
          BY <1>3, <2>1, <3>1
        <4> HIDE DEF g
        <4>2. Remember(s, id, c, g).seq = s.seq
          BY <4>1 DEF Remember, Store
        <4> QED
          BY <4>1, <4>2
      <3> QED
        BY <1>2, <1>3, <3>2
    <2>4. /\ Credentials[id.key] # Absent
          /\ Credentials[id.key].stamp = id.stamp
          /\ Credentials[id.key].secret = s.entries[id.key].secret
      <3>1. id.key \in Live(s, now)
        BY <1>2, <1>3, <2>1, FreshMeans
      <3>2. CredsAt(s, now)[id.key] = CredentialOf(s, id.key) /\ CredsAt(s, now)[id.key] # Absent
        BY <1>2, <1>3, <3>1, CredsMean
      <3>3. /\ CredentialOf(s, id.key).stamp = s.entries[id.key].stamp
            /\ CredentialOf(s, id.key).secret = s.entries[id.key].secret
        BY DEF CredentialOf
      <3> QED
        BY <1>3, <2>1, <3>2, <3>3
    <2>5. reply' = Supplied(c, id, Credentials[id.key].secret)
      BY <1>1, <1>6, <2>1, <2>4 DEF BeginReply
    <2>6. Leases' = Leases
      BY <1>3, <1>5, <2>2
    <2>7. IF id.key \notin AgentKey
          THEN /\ Credentials' = [Credentials EXCEPT ![id.key].holders = @ \cup {c}]
               /\ SeenPairs(store') = SeenPairs(store) \cup {<<c, id.key>>}
          ELSE Credentials' = Credentials /\ SeenPairs(store') = SeenPairs(store)
      BY <1>3, <1>5, <2>2
    <2>8. Lease!Supply(c, id)
      BY <1>1, <1>3, <2>2, <2>4, <2>5, <2>6, <2>7
         DEF Lease!Supply, Lease!FileKey, Lease!Supplied, Supplied, SeenPairs
    <2> QED
      BY <2>3, <2>8
  <1>7. CASE Begin(s, now, id, c).lookup.reason = "miss"
    <2> DEFINE drop == GrantDrops(s, now, id, c)
               new == [token |-> store'.seq, id |-> id, caller |-> c,
                       deadline |-> now + TicketLifetime]
    <2>1. /\ id.key \in Live(s, now) => drop \/ <<c, id.key>> \in SeenPairs(s)
          /\ s.seq < store'.seq
          /\ CredsAt(store', now) =
                IF drop THEN [CredsAt(s, now) EXCEPT ![id.key] = Absent]
                ELSE CredsAt(s, now)
          /\ LeasesAt(store', now) =
                (IF drop THEN {x \in LeasesAt(s, now) : x.id.key # id.key}
                 ELSE {x \in LeasesAt(s, now) : x.id.key = id.key => x.id = id})
                \cup {new}
          /\ SeenPairs(store') = WithRecord(SeenPairs(s), id, c)
      BY <1>1, <1>2, <1>3, <1>4, <1>7, GrantView
    <2>2. drop <=> /\ Credentials[id.key] # Absent
                   /\ \/ Credentials[id.key].stamp # id.stamp
                      \/ c \in Credentials[id.key].holders
      <3>1. /\ CredsAt(s, now)[id.key] # Absent <=> id.key \in Live(s, now)
            /\ id.key \in Live(s, now) => CredsAt(s, now)[id.key] = CredentialOf(s, id.key)
        BY <1>2, <1>3, CredsMean
      <3>2. /\ CredentialOf(s, id.key).stamp = s.entries[id.key].stamp
            /\ CredentialOf(s, id.key).holders = HoldersOf(s, id.key)
        BY DEF CredentialOf
      <3> QED
        BY <1>3, <3>1, <3>2 DEF GrantDrops
    <2>3. Credentials[id.key] = Absent \/ drop \/ <<c, id.key>> \in SeenPairs(store)
      <3>1. CredsAt(s, now)[id.key] # Absent <=> id.key \in Live(s, now)
        BY <1>2, <1>3, CredsMean
      <3> QED
        BY <1>3, <2>1, <3>1
    <2>4. reply' = Quiet
      BY <1>1, <1>7 DEF BeginReply
    <2> HIDE DEF drop, new
    <2>5. store'.seq > store.seq
      BY <1>2, <1>3, <1>4, <2>1
    <2>6. SeenPairs(store') = IF id.key \notin AgentKey
                              THEN SeenPairs(store) \cup {<<c, id.key>>}
                              ELSE SeenPairs(store)
      BY <1>3, <2>1 DEF WithRecord
    <2>7. Credentials' = IF drop THEN [Credentials EXCEPT ![id.key] = Absent]
                         ELSE Credentials
      BY <1>3, <1>5, <2>1
    <2>8. Leases' = (IF drop THEN {x \in Leases : x.id.key # id.key}
                     ELSE {x \in Leases : x.id.key = id.key => x.id = id}) \cup {new}
      BY <1>3, <1>5, <2>1
    <2>9. Lease!Grant(c, id)
      BY <1>1, <2>2, <2>3, <2>4, <2>5, <2>6, <2>7, <2>8
         DEF Lease!Grant, Lease!FileKey, Lease!Elsewhere, Lease!Quiet, Quiet, SeenPairs, new
    <2> QED
      BY <2>9
  <1>8. CASE /\ Begin(s, now, id, c).store = s
             /\ Begin(s, now, id, c).lookup.reason \notin {"hit", "miss"}
    <2>1. reply' = Quiet /\ store' = s
      BY <1>1, <1>8 DEF BeginReply
    <2>2. Credentials' = Credentials /\ Leases' = Leases /\ SeenPairs(store') = SeenPairs(store)
      BY <1>3, <1>5, <2>1
    <2>3. Lease!Refuse
      BY <1>1, <2>1, <2>2 DEF Lease!Refuse, Lease!Quiet, Quiet, SeenPairs
    <2> QED
      BY <1>2, <1>3, <2>1, <2>3
  <1> QED
    BY <1>6, <1>7, <1>8, BeginOutcomes


\* What a commit does to the parts of the store.
LEMMA CommitFields ==
    ASSUME NEW s, StoreOK(s), NEW t \in Nat, NEW token, NEW id \in Identity,
           NEW c \in Caller, NEW secret \in Secret \cup {NoSecret},
           NEW u, u = Commit(s, t, token, id, c, secret).store
    PROVE  Commit(s, t, token, id, c, secret).stored =>
                \E l \in s.tickets :
                   /\ l.id = id /\ l.caller = c /\ Holds(s, id, l.generation)
                   /\ secret \in Secret
                   /\ u.seq = s.seq + 1
                   /\ u.tickets = s.tickets \ {l}
                   /\ u.entries = [s.entries EXCEPT ![id.key] =
                         [stamp |-> id.stamp, generation |-> s.seq + 1,
                          secret |-> secret, expires |-> t + TTL]]
                   /\ u.seen = IF id.key \in AgentKey THEN s.seen
                               ELSE [s.seen EXCEPT ![<<c, id.key>>] = s.seq + 1]
  <1> DEFINE P == Presented(s, token, c)
             m == [s EXCEPT !.tickets = s.tickets \ P]
             good == \E k \in P : /\ k.id = id
                                  /\ Holds(s, id, k.generation)
                                  /\ secret # NoSecret
  <1>0. s \in Store /\ s.seq \in Nat /\ s.seq + 1 \in Nat
    BY StoreTypes DEF StoreOK
  <1>1. /\ m \in Store /\ m.seq = s.seq /\ m.entries = s.entries
        /\ m.tickets = s.tickets \ P /\ m.seen = s.seen
    BY <1>0 DEF Store
  <1>2. Commit(s, t, token, id, c, secret) =
           IF good
           THEN [store |-> Remember(Fill(m, id, secret, t), id, c, s.seq + 1),
                 stored |-> TRUE]
           ELSE [store |-> m, stored |-> FALSE]
    BY DEF Commit
  <1> HIDE DEF m
  <1>3. CASE good
    <2>1. PICK l \in P : l.id = id /\ Holds(s, id, l.generation) /\ secret # NoSecret
      BY <1>3
    <2> HIDE DEF good
    <2>2. l \in s.tickets /\ l.caller = c /\ l.token = token
      BY DEF Presented
    <2>3. \A n \in s.tickets : n.token = l.token => n = l
      BY <2>2 DEF StoreOK, NumbersUsedOnce
    <2>4. P = {l}
      BY <2>2, <2>3 DEF Presented
    <2>5. secret \in Secret /\ u = Remember(Fill(m, id, secret, t), id, c, s.seq + 1)
      BY <1>2, <1>3, <2>1
    <2> DEFINE f == Fill(m, id, secret, t)
    <2>6. /\ f \in Store /\ f.seq = s.seq + 1 /\ f.tickets = s.tickets \ {l}
          /\ f.seen = s.seen
          /\ f.entries = [s.entries EXCEPT ![id.key] =
                [stamp |-> id.stamp, generation |-> s.seq + 1,
                 secret |-> secret, expires |-> t + TTL]]
      <3>1. /\ f \in Store /\ f.seq = m.seq + 1 /\ f.tickets = m.tickets
            /\ f.seen = m.seen
            /\ f.entries = [m.entries EXCEPT ![id.key] =
                  [stamp |-> id.stamp, generation |-> m.seq + 1,
                   secret |-> secret, expires |-> t + TTL]]
        BY <1>1, <2>5, FillFields
      <3> HIDE DEF f
      <3> QED
        BY <1>1, <2>4, <3>1
    <2> HIDE DEF f
    <2>7. u = Remember(f, id, c, s.seq + 1)
      BY <2>5 DEF f
    <2>8. /\ u.seq = f.seq /\ u.entries = f.entries /\ u.tickets = f.tickets
          /\ u.seen = IF id.key \in AgentKey THEN f.seen
                      ELSE [f.seen EXCEPT ![<<c, id.key>>] = s.seq + 1]
      BY <2>6, <2>7 DEF Remember, Store
    <2>9. Commit(s, t, token, id, c, secret).stored
      BY <1>2, <1>3
    <2> QED
      BY <2>1, <2>2, <2>5, <2>6, <2>8, <2>9
  <1>4. CASE ~good
    <2> HIDE DEF good
    <2>1. ~Commit(s, t, token, id, c, secret).stored
      BY <1>2, <1>4
    <2> QED
      BY <2>1
  <1> QED
    BY <1>3, <1>4

LEMMA CommitSpends ==
    ASSUME NEW s \in Store, NEW t, NEW token, NEW id, NEW c, NEW secret,
           NEW u, u = Commit(s, t, token, id, c, secret).store,
           ~Commit(s, t, token, id, c, secret).stored
    PROVE  /\ u.seq = s.seq /\ u.entries = s.entries /\ u.seen = s.seen
           /\ u.tickets = s.tickets \ Presented(s, token, c)
  <1>1. u = [s EXCEPT !.tickets = s.tickets \ Presented(s, token, c)]
    BY DEF Commit
  <1> QED
    BY <1>1 DEF Store

LEMMA CommitStepsLease ==
    ASSUME StoreInv, LeaseInv, NEW c \in Caller, NEW id \in Identity, NEW token,
           NEW secret \in Secret \cup {NoSecret}, CommitCall(c, id, token, secret)
    PROVE  /\ store'.seq >= store.seq
           /\ \/ \E l \in Leases : Lease!Waste(l) \/ \E v \in Secret : Lease!Put(l, v)
              \/ Lease!Refuse
  <1>1. PICK s \in Expire(store, now) :
          /\ store' = Commit(s, now, token, id, c, secret).store
          /\ reply' = IF Commit(s, now, token, id, c, secret).stored
                      THEN Stored(c, id, secret) ELSE Quiet
          /\ UNCHANGED <<now, alive>>
    BY DEF CommitCall
  <1>2. /\ StoreOK(store) /\ store \in Store /\ now \in Nat
        /\ store.seq \in Nat /\ id.key \in Key
    BY StoreTypes DEF StoreInv, TypeOK, StoreOK, Identity
  <1>3. /\ StoreOK(s) /\ s \in Store /\ store.seq <= s.seq /\ s.seq \in Nat
        /\ SeenPairs(s) = SeenPairs(store)
        /\ Fresh(s, now)
        /\ CredsAt(s, now) = Credentials
        /\ LeasesAt(s, now) = Leases
        /\ s.tickets \subseteq store.tickets
    <2>1. /\ StoreOK(s) /\ store.seq <= s.seq /\ SeenPairs(s) = SeenPairs(store)
          /\ Fresh(s, now)
          /\ CredsAt(s, now) = CredsAt(store, now)
          /\ LeasesAt(s, now) = LeasesAt(store, now)
      BY <1>2, ExpiryHidden
    <2>2. s \in Store /\ s.seq \in Nat /\ s.tickets \subseteq store.tickets
      BY <1>2, <2>1, StoreTypes, ExpireOK DEF StoreOK
    <2> QED
      BY <2>1, <2>2, Views
  <1>4. StoreOK(store') /\ store' \in Store
    <2>1. StoreOK(store')
      BY <1>1, <1>2, <1>3, CommitOK
    <2> QED
      BY <2>1 DEF StoreOK
  <1>5. Credentials' = CredsAt(store', now) /\ Leases' = LeasesAt(store', now)
    BY <1>1, Views
  <1>6. CASE Commit(s, now, token, id, c, secret).stored
    <2>1. PICK l \in s.tickets :
             /\ l.id = id /\ l.caller = c /\ Holds(s, id, l.generation)
             /\ secret \in Secret
             /\ store'.seq = s.seq + 1
             /\ store'.tickets = s.tickets \ {l}
             /\ store'.entries = [s.entries EXCEPT ![id.key] =
                   [stamp |-> id.stamp, generation |-> s.seq + 1,
                    secret |-> secret, expires |-> now + TTL]]
             /\ store'.seen = IF id.key \in AgentKey THEN s.seen
                              ELSE [s.seen EXCEPT ![<<c, id.key>>] = s.seq + 1]
      BY <1>1, <1>2, <1>3, <1>6, CommitFields, SMTT(40)
    <2>2. TTL # 0
      BY <1>3 DEF LeaseInv
    <2>3. /\ LeaseOf(l) \in LeasesAt(s, now)
          /\ LeasesAt(store', now) = {x \in LeasesAt(s, now) : x.id.key # id.key}
          /\ CredsAt(store', now) = [CredsAt(s, now) EXCEPT ![id.key] =
                [stamp |-> id.stamp, secret |-> secret, deadline |-> now + TTL,
                 holders |-> IF id.key \notin AgentKey THEN {c} ELSE {}]]
          /\ SeenPairs(store') = SeenPairs(s)
      BY <1>2, <1>3, <1>4, <2>1, <2>2, PutView
    <2>4. LeaseOf(l).id = id /\ LeaseOf(l).caller = c
      BY <2>1, LeaseFields
    <2>5. reply' = Stored(c, id, secret)
      BY <1>1, <1>6
    <2>6. store'.seq >= store.seq
      BY <1>2, <1>3, <2>1
    <2>7. /\ LeaseOf(l) \in Leases
          /\ Leases' = {x \in Leases : x.id.key # id.key}
          /\ Credentials' = [Credentials EXCEPT ![id.key] =
                [stamp |-> id.stamp, secret |-> secret, deadline |-> now + TTL,
                 holders |-> IF id.key \notin AgentKey THEN {c} ELSE {}]]
          /\ SeenPairs(store') = SeenPairs(store)
      BY <1>3, <1>5, <2>3
    <2>8. Lease!Put(LeaseOf(l), secret)
      BY <1>1, <2>4, <2>5, <2>7
         DEF Lease!Put, Lease!FileKey, Lease!Elsewhere, Lease!Stored, Stored, SeenPairs
    <2> QED
      BY <2>1, <2>6, <2>7, <2>8
  <1>7. CASE ~Commit(s, now, token, id, c, secret).stored
    <2>1. /\ store'.seq = s.seq /\ store'.entries = s.entries /\ store'.seen = s.seen
          /\ store'.tickets = s.tickets \ Presented(s, token, c)
      BY <1>1, <1>3, <1>7, CommitSpends
    <2>2. /\ CredsAt(store', now) = CredsAt(s, now) /\ SeenPairs(store') = SeenPairs(s)
          /\ \/ LeasesAt(store', now) = LeasesAt(s, now)
             \/ \E l \in LeasesAt(s, now) : LeasesAt(store', now) = LeasesAt(s, now) \ {l}
      BY <1>2, <1>3, <1>4, <2>1, WasteView
    <2>3. reply' = Quiet /\ store'.seq >= store.seq
      BY <1>1, <1>2, <1>3, <1>7, <2>1
    <2>4. CASE LeasesAt(store', now) = LeasesAt(s, now)
      <3>1. Lease!Refuse
        BY <1>1, <1>3, <1>5, <2>2, <2>3, <2>4 DEF Lease!Refuse, Lease!Quiet, Quiet, SeenPairs
      <3> QED
        BY <2>3, <3>1
    <2>5. ASSUME NEW l \in LeasesAt(s, now), LeasesAt(store', now) = LeasesAt(s, now) \ {l}
          PROVE  l \in Leases /\ Lease!Waste(l)
      BY <1>1, <1>3, <1>5, <2>2, <2>3, <2>5 DEF Lease!Waste, Lease!Quiet, Quiet, SeenPairs
    <2> QED
      BY <2>2, <2>3, <2>4, <2>5
  <1> QED
    BY <1>6, <1>7


LEMMA StepLeaseInv == StoreInv /\ LeaseInv /\ [Next]_vars => LeaseInv'
  <1> SUFFICES ASSUME StoreInv, LeaseInv, [Next]_vars, TTL = 0
               PROVE  store'.tickets = {}
    BY DEF LeaseInv
  <1>1. store.tickets = {} /\ StoreOK(store) /\ store \in Store /\ now \in Nat
    BY DEF StoreInv, LeaseInv, TypeOK, StoreOK
  <1>2. ASSUME NEW s \in Expire(store, now)
        PROVE  StoreOK(s) /\ s \in Store /\ s.tickets = {}
    BY <1>1, ExpireOK DEF StoreOK
  <1>3. ASSUME NEW c \in Caller, NEW id \in Identity, BeginCall(c, id)
        PROVE  store'.tickets = {}
    <2>1. PICK s \in Expire(store, now) : store' = Begin(s, now, id, c).store
      BY <1>3 DEF BeginCall
    <2>2. store' = s
      BY <2>1 DEF Begin
    <2> QED
      BY <1>2, <2>2
  <1>4. ASSUME NEW c \in Caller, NEW id \in Identity, NEW token \in Tokens,
               NEW secret \in Secret \cup {NoSecret},
               CommitCall(c, id, token, secret)
        PROVE  store'.tickets = {}
    <2>1. PICK s \in Expire(store, now) : store' = Commit(s, now, token, id, c, secret).store
      BY <1>4 DEF CommitCall
    <2>2. ~Commit(s, now, token, id, c, secret).stored
      BY <1>2 DEF Commit, Presented
    <2>3. store'.tickets = s.tickets \ Presented(s, token, c)
      BY <1>2, <2>1, <2>2, CommitSpends
    <2> QED
      BY <1>2, <2>3
  <1>5. ASSUME CurrentCall PROVE store'.tickets = {}
    BY <1>2, <1>5 DEF CurrentCall
  <1>6. ASSUME NEW id \in Identity, RejectCall(id) PROVE store'.tickets = {}
    <2>1. store' = store \/ store' = Renew(store, id.key, id.stamp)
      BY <1>6 DEF RejectCall, Reject
    <2>2. id.key \in Key /\ id.stamp \in Stamp
      BY DEF Identity
    <2>3. Renew(store, id.key, id.stamp).tickets = store.tickets
      BY <1>1 DEF Renew, Store
    <2> QED
      BY <1>1, <2>1, <2>3
  <1>7. ASSUME NEW K \in SUBSET Key, ForgetCall(K) PROVE store'.tickets = {}
    BY <1>1, <1>7 DEF ForgetCall, Forget, Store
  <1>8. ASSUME SweepCall PROVE store'.tickets = {}
    <2>1. PICK s \in Expire(store, now) : \E P, T : store' = Sweep(s, P, T)
      BY <1>8 DEF SweepCall
    <2>2. PICK P, T : store' = Sweep(s, P, T)
      BY <2>1
    <2>3. store'.tickets = s.tickets \ T
      BY <1>2, <2>2 DEF Sweep, Pruned, Store
    <2> QED
      BY <1>2, <2>3
  <1>9. (\E c \in Caller : CallerExits(c)) \/ Tick \/ UNCHANGED vars
            => store'.tickets = {}
    BY <1>1 DEF CallerExits, Tick, vars
  <1>10. (\E k \in Key : ForgetCall({k})) \/ ForgetCall(Key)
            => \E K \in SUBSET Key : ForgetCall(K)
    OBVIOUS
  <1> QED
    BY <1>3, <1>4, <1>5, <1>6, <1>7, <1>8, <1>9, <1>10 DEF Next

LEMMA CurrentStepsLease ==
    ASSUME StoreInv, CurrentCall
    PROVE  Lease!Refuse /\ store'.seq >= store.seq
  <1>1. /\ StoreOK(store) /\ store \in Store /\ now \in Nat
        /\ store' \in Expire(store, now) /\ reply' = Quiet /\ UNCHANGED <<now, alive>>
    BY DEF CurrentCall, StoreInv, TypeOK, StoreOK
  <1>2. /\ StoreOK(store') /\ store.seq <= store'.seq /\ SeenPairs(store') = SeenPairs(store)
        /\ CredsAt(store', now) = CredsAt(store, now)
        /\ LeasesAt(store', now) = LeasesAt(store, now)
    BY <1>1, ExpiryHidden
  <1>3. Credentials' = Credentials /\ Leases' = Leases
    BY <1>1, <1>2, Views
  <1>4. store'.seq >= store.seq
    BY <1>1, <1>2, StoreTypes DEF StoreOK
  <1> QED
    BY <1>1, <1>2, <1>3, <1>4 DEF Lease!Refuse, Lease!Quiet, Quiet, SeenPairs

LEMMA RejectStepsLease ==
    ASSUME StoreInv, NEW id \in Identity, RejectCall(id)
    PROVE  (Lease!Refuse \/ Lease!Revoke(id.key)) /\ store'.seq >= store.seq
  <1>1. PICK j \in FilledKeys(store) :
          /\ store' = Reject(store, id, store.entries[j].generation)
          /\ reply' = Quiet
          /\ UNCHANGED <<now, alive>>
    BY DEF RejectCall
  <1>2. /\ StoreOK(store) /\ store \in Store /\ now \in Nat
        /\ store.seq \in Nat /\ id.key \in Key
    BY StoreTypes DEF StoreInv, TypeOK, StoreOK, Identity
  <1>3. StoreOK(store') /\ store'.seq \in Nat
    <2>1. StoreOK(store')
      BY <1>1, <1>2, RejectOK
    <2> QED
      BY <2>1, StoreTypes DEF StoreOK
  <1>4. /\ store.seq <= store'.seq /\ SeenPairs(store') = SeenPairs(store)
        /\ \/ /\ CredsAt(store', now) = CredsAt(store, now)
              /\ LeasesAt(store', now) = LeasesAt(store, now)
           \/ /\ id.key \in Live(store, now)
              /\ CredsAt(store', now) = [CredsAt(store, now) EXCEPT ![id.key] = Absent]
              /\ LeasesAt(store', now) = {x \in LeasesAt(store, now) : x.id.key # id.key}
    BY <1>1, <1>2, RejectView
  <1>5. store'.seq >= store.seq
    BY <1>2, <1>3, <1>4
  <1>6. CASE /\ CredsAt(store', now) = CredsAt(store, now)
             /\ LeasesAt(store', now) = LeasesAt(store, now)
    <2>1. Credentials' = Credentials /\ Leases' = Leases
      BY <1>1, <1>6, Views
    <2>2. Lease!Refuse
      BY <1>1, <1>4, <2>1 DEF Lease!Refuse, Lease!Quiet, Quiet, SeenPairs
    <2> QED
      BY <1>5, <2>2
  <1>7. CASE /\ id.key \in Live(store, now)
             /\ CredsAt(store', now) = [CredsAt(store, now) EXCEPT ![id.key] = Absent]
             /\ LeasesAt(store', now) = {x \in LeasesAt(store, now) : x.id.key # id.key}
    <2>1. /\ Credentials[id.key] # Absent
          /\ Credentials' = [Credentials EXCEPT ![id.key] = Absent]
          /\ Leases' = {x \in Leases : x.id.key # id.key}
      <3>1. CredsAt(store, now)[id.key] # Absent
        BY <1>2, <1>7, CredsMean
      <3> QED
        BY <1>1, <1>7, <3>1, Views
    <2>2. Lease!Revoke(id.key)
      BY <1>1, <1>4, <2>1 DEF Lease!Revoke, Lease!Elsewhere, Lease!Quiet, Quiet, SeenPairs
    <2> QED
      BY <1>5, <2>2
  <1> QED
    BY <1>4, <1>6, <1>7

LEMMA ForgetStepsLease ==
    ASSUME StoreInv, NEW K \in SUBSET Key, ForgetCall(K)
    PROVE  Lease!Forget(K) /\ store'.seq >= store.seq
  <1>1. /\ store' = Forget(store, K) /\ reply' = Forgot(K) /\ UNCHANGED <<now, alive>>
    BY DEF ForgetCall
  <1>2. /\ StoreOK(store) /\ store \in Store /\ now \in Nat /\ store.seq \in Nat
    BY StoreTypes DEF StoreInv, TypeOK, StoreOK
  <1>3. StoreOK(store') /\ store'.seq \in Nat
    <2>1. StoreOK(store')
      BY <1>1, <1>2, ForgetOK
    <2> QED
      BY <2>1, StoreTypes DEF StoreOK
  <1>4. /\ store.seq <= store'.seq /\ SeenPairs(store') = SeenPairs(store)
        /\ CredsAt(store', now) =
              [k \in Key |-> IF k \in K THEN Absent ELSE CredsAt(store, now)[k]]
        /\ LeasesAt(store', now) = {x \in LeasesAt(store, now) : x.id.key \notin K}
    BY <1>1, <1>2, ForgetView
  <1>5. store'.seq >= store.seq
    BY <1>2, <1>3, <1>4
  <1>6. /\ Credentials' = [k \in Key |-> IF k \in K THEN Absent ELSE Credentials[k]]
        /\ Leases' = {x \in Leases : x.id.key \notin K}
    BY <1>1, <1>4, Views
  <1> QED
    BY <1>1, <1>4, <1>5, <1>6 DEF Lease!Forget, Lease!Forgot, Forgot, SeenPairs


LEMMA SweepStepsLease ==
    ASSUME StoreInv, SweepCall
    PROVE  Lease!Exit /\ store'.seq >= store.seq
  <1>1. PICK s \in Expire(store, now), exiting \in SUBSET alive :
          \E latePairs \in SUBSET PairsOf(s, exiting),
             lateTickets \in SUBSET TicketsOf(s, exiting) :
            /\ store' = Sweep(s, PairsOf(s, Caller \ alive) \cup latePairs,
                                 TicketsOf(s, Caller \ alive) \cup lateTickets)
            /\ alive' = alive \ exiting
            /\ reply' = Quiet
            /\ UNCHANGED now
    BY DEF SweepCall
  <1>2. PICK latePairs \in SUBSET PairsOf(s, exiting),
             lateTickets \in SUBSET TicketsOf(s, exiting) :
          /\ store' = Sweep(s, PairsOf(s, Caller \ alive) \cup latePairs,
                               TicketsOf(s, Caller \ alive) \cup lateTickets)
          /\ alive' = alive \ exiting
          /\ reply' = Quiet
          /\ UNCHANGED now
    BY <1>1
  <1> DEFINE P == PairsOf(s, Caller \ alive) \cup latePairs
             T == TicketsOf(s, Caller \ alive) \cup lateTickets
  <1>3. /\ StoreOK(store) /\ store \in Store /\ now \in Nat /\ store.seq \in Nat
        /\ alive \subseteq Caller
    BY StoreTypes DEF StoreInv, TypeOK, StoreOK
  <1>4. /\ StoreOK(s) /\ store.seq <= s.seq /\ SeenPairs(s) = SeenPairs(store)
        /\ CredsAt(s, now) = Credentials
        /\ LeasesAt(s, now) = Leases
    BY <1>3, ExpiryHidden, Views
  <1>5. \A p \in P : p[1] \notin alive'
    BY <1>2 DEF PairsOf
  <1>6. \A l \in T : l.caller \notin alive'
    BY <1>2 DEF TicketsOf
  <1>7. store' = Sweep(s, P, T)
    BY <1>2
  <1> HIDE DEF P, T
  <1>8. /\ store'.seq = s.seq
        /\ SeenPairs(store') = SeenPairs(s) \ P
        /\ CredsAt(store', now) =
              [k \in Key |-> IF CredsAt(s, now)[k] = Absent THEN Absent
                             ELSE [CredsAt(s, now)[k] EXCEPT !.holders =
                                      {c \in @ : <<c, k>> \in SeenPairs(store')}]]
        /\ \A x : x \in LeasesAt(store', now) <=>
                     \E l \in Valid(s, now) \ T : x = LeaseOf(l)
    BY <1>3, <1>4, <1>7, SweepView
  <1>9. store'.seq >= store.seq
    <2>1. s.seq \in Nat
      BY <1>4, StoreTypes DEF StoreOK
    <2> QED
      BY <1>3, <1>4, <1>8, <2>1
  <1>10. /\ \A x \in Leases' : x \in Leases
         /\ \A x \in Leases \ Leases' : x.caller \notin alive'
    <2>1. Leases' = LeasesAt(store', now)
      BY <1>2, Views
    <2>2. \A x : x \in Leases <=> \E l \in Valid(s, now) : x = LeaseOf(l)
      BY <1>4, LeasesMean
    <2>3. ASSUME NEW x \in Leases, x \notin Leases' PROVE x.caller \notin alive'
      <3>1. PICK l \in Valid(s, now) : x = LeaseOf(l)
        BY <2>2
      <3>2. l \in T
        BY <1>8, <2>1, <2>3, <3>1
      <3> QED
        BY <1>6, <3>1, <3>2, LeaseFields
    <2> QED
      BY <1>8, <2>1, <2>2, <2>3
  <1>11. Credentials' =
           [k \in Key |-> IF Credentials[k] = Absent THEN Absent
                          ELSE [Credentials[k] EXCEPT !.holders =
                                   {c \in @ : <<c, k>> \in SeenPairs(store')}]]
    BY <1>2, <1>4, <1>8, Views
  <1>12. /\ alive' \subseteq alive
         /\ SeenPairs(store') \subseteq SeenPairs(store)
         /\ \A p \in SeenPairs(store) \ SeenPairs(store') : p[1] \notin alive'
    BY <1>2, <1>4, <1>5, <1>8
  <1>13. Leases' \subseteq Leases
    BY <1>10
  <1> QED
    BY <1>2, <1>9, <1>10, <1>11, <1>12, <1>13
       DEF Lease!Exit, Lease!Quiet, Quiet, SeenPairs

\* Only recorded callers hold anything: filtering the holders by the records
\* changes nothing.
LEMMA HoldersKept ==
    ASSUME NEW s, StoreOK(s), NEW t \in Nat
    PROVE  CredsAt(s, t) =
              [k \in Key |-> IF CredsAt(s, t)[k] = Absent THEN Absent
                             ELSE [CredsAt(s, t)[k] EXCEPT !.holders =
                                      {c \in @ : <<c, k>> \in SeenPairs(s)}]]
  <1> DEFINE C == CredsAt(s, t)
             F(k) == IF C[k] = Absent THEN Absent
                     ELSE [C[k] EXCEPT !.holders = {c \in @ : <<c, k>> \in SeenPairs(s)}]
  <1>1. s \in Store
    BY DEF StoreOK
  <1>2. ASSUME NEW k \in Key PROVE C[k] = F(k)
    <2>1. CASE k \notin Live(s, t)
      BY <1>1, <2>1, CredsMean
    <2>2. CASE k \in Live(s, t)
      <3>1. C[k] = CredentialOf(s, k) /\ C[k] # Absent
        BY <1>1, <2>2, CredsMean
      <3>2. \A c \in HoldersOf(s, k) : <<c, k>> \in SeenPairs(s)
        BY <1>1, <2>2, LiveMeans, HoldersSeen
      <3>3. {c \in HoldersOf(s, k) : <<c, k>> \in SeenPairs(s)} = HoldersOf(s, k)
        BY <3>2
      <3>4. CredentialOf(s, k).holders = HoldersOf(s, k)
        BY DEF CredentialOf
      <3>5. [CredentialOf(s, k) EXCEPT !.holders = HoldersOf(s, k)] = CredentialOf(s, k)
        BY DEF CredentialOf
      <3>6. [CredentialOf(s, k) EXCEPT !.holders = {c \in @ : <<c, k>> \in SeenPairs(s)}]
               = CredentialOf(s, k)
        BY <3>3, <3>4, <3>5
      <3> HIDE DEF C
      <3> QED
        BY <3>1, <3>6
    <2> QED
      BY <2>1, <2>2
  <1>3. C = [k \in Key |-> C[k]]
    BY DEF CredsAt
  <1>4. C = [k \in Key |-> F(k)]
    <2> HIDE DEF C, F
    <2> QED
      BY <1>2, <1>3
  <1> QED
    BY <1>4

LEMMA ExitStepsLease ==
    ASSUME StoreInv, NEW c \in Caller, CallerExits(c)
    PROVE  Lease!Exit /\ store'.seq >= store.seq
  <1>1. /\ alive' \subseteq alive /\ reply' = Quiet /\ UNCHANGED <<store, now>>
    BY DEF CallerExits
  <1>2. /\ StoreOK(store) /\ now \in Nat /\ store.seq \in Nat
    BY StoreTypes DEF StoreInv, TypeOK, StoreOK
  <1>3. Credentials = CredsAt(store, now) /\ Credentials' = CredsAt(store, now)
        /\ Leases' = Leases /\ SeenPairs(store') = SeenPairs(store)
    BY <1>1, Views
  <1>4. Credentials' =
           [k \in Key |-> IF Credentials[k] = Absent THEN Absent
                          ELSE [Credentials[k] EXCEPT !.holders =
                                   {d \in @ : <<d, k>> \in SeenPairs(store')}]]
    BY <1>2, <1>3, HoldersKept
  <1>5. store'.seq >= store.seq
    BY <1>1, <1>2
  <1> QED
    BY <1>1, <1>3, <1>4, <1>5 DEF Lease!Exit, Lease!Quiet, Quiet, SeenPairs

LEMMA TickStepsLease ==
    ASSUME StoreInv, Tick
    PROVE  Lease!Tick
  <1>1. /\ StoreOK(store) /\ now \in Nat
    BY DEF StoreInv, TypeOK
  <1>2. now' = now + 1 /\ reply' = Quiet /\ UNCHANGED <<store, alive>>
    BY DEF Tick
  <1> DEFINE lapsed(k) == /\ CredsAt(store, now)[k] # Absent
                          /\ now + 1 >= CredsAt(store, now)[k].deadline
  <1>3. /\ CredsAt(store, now + 1) =
              [k \in Key |-> IF lapsed(k) THEN Absent ELSE CredsAt(store, now)[k]]
        /\ LeasesAt(store, now + 1) =
              {x \in LeasesAt(store, now) : now + 1 < x.deadline /\ ~lapsed(x.id.key)}
    BY <1>1, TickView
  <1>4. /\ Credentials' =
              [k \in Key |-> IF lapsed(k) THEN Absent ELSE Credentials[k]]
        /\ Leases' = {x \in Leases : now + 1 < x.deadline /\ ~lapsed(x.id.key)}
    BY <1>2, <1>3, Views
  <1>5. \A k : lapsed(k) <=> Lease!Lapsed(k)
    BY <1>2, Views DEF Lease!Lapsed
  <1> HIDE DEF lapsed
  <1>6. /\ Credentials' =
              [k \in Key |-> IF Lease!Lapsed(k) THEN Absent ELSE Credentials[k]]
        /\ Leases' = {x \in Leases : now' < x.deadline /\ ~Lease!Lapsed(x.id.key)}
    BY <1>2, <1>4, <1>5
  <1> QED
    BY <1>2, <1>6 DEF Lease!Tick, Lease!Quiet, Quiet, SeenPairs


LEMMA StepLease ==
    ASSUME StoreInv, LeaseInv, [Next]_vars
    PROVE  [Lease!LeaseNext]_(Lease!lvars)
  <1>0. store'.seq >= store.seq => Lease!LeaseNext
           \/ ~ \/ \E c \in Caller, id \in Lease!Identity : Lease!Supply(c, id)
                \/ \E l \in Leases : Lease!Waste(l) \/ \E v \in Secret : Lease!Put(l, v)
                \/ \E k \in Key : Lease!Revoke(k)
                \/ \E k \in Key : Lease!Forget({k})
                \/ Lease!Forget(Key)
                \/ Lease!Refuse
                \/ Lease!Exit
    BY DEF Lease!LeaseNext
  <1>1. Lease!Identity = Identity /\ \A id \in Identity : id.key \in Key
    BY DEF Lease!Identity, Identity
  <1>2. ASSUME NEW c \in Caller, NEW id \in Identity, BeginCall(c, id)
        PROVE  Lease!LeaseNext
    <2>1. CASE Lease!Grant(c, id)
      BY <1>1, <2>1 DEF Lease!LeaseNext
    <2> QED
      BY <1>0, <1>1, <1>2, <2>1, BeginStepsLease
  <1>3. ASSUME NEW c \in Caller, NEW id \in Identity, NEW token \in Tokens,
               NEW secret \in Secret \cup {NoSecret},
               CommitCall(c, id, token, secret)
        PROVE  Lease!LeaseNext
    BY <1>0, <1>3, CommitStepsLease
  <1>4. ASSUME CurrentCall PROVE Lease!LeaseNext
    BY <1>0, <1>4, CurrentStepsLease
  <1>5. ASSUME NEW id \in Identity, RejectCall(id) PROVE Lease!LeaseNext
    BY <1>0, <1>1, <1>5, RejectStepsLease
  <1>6. ASSUME NEW k \in Key, ForgetCall({k}) PROVE Lease!LeaseNext
    <2>1. Lease!Forget({k}) /\ store'.seq >= store.seq
      BY <1>6, ForgetStepsLease
    <2> QED
      BY <1>0, <2>1
  <1>7. ASSUME ForgetCall(Key) PROVE Lease!LeaseNext
    <2>1. Lease!Forget(Key) /\ store'.seq >= store.seq
      BY <1>7, ForgetStepsLease
    <2> QED
      BY <1>0, <2>1
  <1>8. ASSUME SweepCall PROVE Lease!LeaseNext
    BY <1>0, <1>8, SweepStepsLease
  <1>9. ASSUME NEW c \in Caller, CallerExits(c) PROVE Lease!LeaseNext
    BY <1>0, <1>9, ExitStepsLease
  <1>10. ASSUME Tick PROVE Lease!LeaseNext
    BY <1>10, TickStepsLease DEF Lease!LeaseNext
  <1>11. ASSUME UNCHANGED vars PROVE UNCHANGED Lease!lvars
    <2>1. /\ now' = now /\ alive' = alive /\ store' = store /\ reply' = reply
      BY <1>11 DEF vars
    <2>2. Credentials' = Credentials /\ Leases' = Leases
      BY <2>1, Views
    <2> QED
      BY <2>1, <2>2 DEF Lease!lvars, SeenPairs
  <1> QED
    BY <1>2, <1>3, <1>4, <1>5, <1>6, <1>7, <1>8, <1>9, <1>10, <1>11 DEF Next

LEMMA InitLease == Init => Lease!LeaseInit
  <1> SUFFICES ASSUME Init PROVE Lease!LeaseInit
    OBVIOUS
  <1>1. /\ store.seq = 0 /\ store.tickets = {}
        /\ store.entries = [k \in Key |-> Absent]
        /\ store.seen = [p \in Caller \X Key |-> Absent]
        /\ now = 0 /\ alive = Caller /\ reply = Quiet
    BY DEF Init, NewStore
  <1>2. HeldKeys(store) = {} /\ SeenPairs(store) = {}
    BY <1>1 DEF HeldKeys, SeenPairs
  <1>3. Live(store, now) = {} /\ Valid(store, now) = {}
    BY <1>1, <1>2 DEF Live, FilledKeys, Valid
  <1>4. Credentials = [k \in Key |-> Absent] /\ Leases = {}
    <2>1. CredsAt(store, now) = [k \in Key |-> Absent]
      BY <1>3 DEF CredsAt
    <2>2. LeasesAt(store, now) = {}
      BY <1>3 DEF LeasesAt
    <2> QED
      BY <2>1, <2>2, Views
  <1> QED
    BY <1>1, <1>2, <1>4 DEF Lease!LeaseInit, Lease!Quiet, Quiet, SeenPairs

\* For every set of keys, callers and secrets and all limits and lifetimes:
\* what callers get from the store, and what becomes of credentials and
\* leases, is what CredentialLease allows.
THEOREM CacheImplementsLease == Spec => ImplementsLease
  <1>1. Init => LeaseInv
    BY DEF Init, NewStore, LeaseInv
  <1>2. StoreInv /\ LeaseInv /\ [Next]_vars => LeaseInv'
    BY StepLeaseInv
  <1>3. StoreInv /\ LeaseInv /\ [Next]_vars => [Lease!LeaseNext]_(Lease!lvars)
    BY StepLease
  <1> QED
    BY <1>1, <1>2, <1>3, InitLease, StoreInvariant, PTL
       DEF Spec, ImplementsLease, Lease!LeaseSpec

===========================================================================
