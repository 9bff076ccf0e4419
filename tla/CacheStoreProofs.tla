------------------------- MODULE CacheStoreProofs -------------------------
(***************************************************************************)
(* Every operator of CacheStore preserves StoreOK, for every set of keys,  *)
(* stamps, callers and secrets, finite or not where the store allows it,   *)
(* and for all limits and lifetimes.  One lemma gives the fields of an     *)
(* operator's result, a second one shows StoreOK of it.                    *)
(***************************************************************************)
EXTENDS CacheStore, FiniteSetTheorems, TLAPS

---------------------------------------------------------------------------
(* The sets that the limits count are finite.                              *)

LEMMA KeysFinite ==
    ASSUME NEW s
    PROVE  /\ IsFiniteSet(HeldKeys(s))
           /\ Cardinality(HeldKeys(s)) \in Nat
           /\ IsFiniteSet(SeenPairs(s))
           /\ Cardinality(SeenPairs(s)) \in Nat
  <1>1. HeldKeys(s) \in SUBSET Key /\ SeenPairs(s) \in SUBSET (Caller \X Key)
    BY DEF HeldKeys, SeenPairs
  <1>2. IsFiniteSet(Key) /\ IsFiniteSet(Caller \X Key)
    BY KeysAssumption, CallersAssumption, FS_Product
  <1>3. IsFiniteSet(HeldKeys(s)) /\ IsFiniteSet(SeenPairs(s))
    BY <1>1, <1>2, FS_Subset
  <1> QED
    BY <1>3, FS_CardinalityType

LEMMA WithEntries ==
    ASSUME NEW s \in Store, NEW q \in Nat,
           NEW e \in [Key -> Entry \cup {Absent}]
    PROVE  [s EXCEPT !.seq = q, !.entries = e] \in Store
  BY DEF Store

LEMMA WithEntriesTickets ==
    ASSUME NEW s \in Store, NEW q \in Nat,
           NEW e \in [Key -> Entry \cup {Absent}], NEW l \in SUBSET Ticket
    PROVE  [s EXCEPT !.seq = q, !.entries = e, !.tickets = l] \in Store
  BY DEF Store

LEMMA StoreTypes ==
    ASSUME NEW s \in Store
    PROVE  /\ s.seq \in Nat
           /\ s.entries \in [Key -> Entry \cup {Absent}]
           /\ s.tickets \in SUBSET Ticket
           /\ s.seen \in [Caller \X Key -> Nat \cup {Absent}]
  BY DEF Store

\* A held entry is an entry: its fields have their types.
LEMMA HeldTypes ==
    ASSUME NEW s \in Store, NEW k \in HeldKeys(s)
    PROVE  /\ k \in Key
           /\ s.entries[k] \in Entry
           /\ s.entries[k].stamp \in Stamp
           /\ s.entries[k].generation \in Nat
           /\ s.entries[k].secret \in Secret \cup {NoSecret}
  <1>1. k \in Key /\ s.entries[k] # Absent
    BY DEF HeldKeys
  <1>2. s.entries[k] \in Entry
    BY <1>1, StoreTypes
  <1> QED
    BY <1>1, <1>2 DEF Entry

LEMMA VacantType ==
    ASSUME NEW stamp \in Stamp, NEW g \in Nat
    PROVE  /\ Vacant(stamp, g) \in Entry
           /\ Vacant(stamp, g) # Absent
           /\ Vacant(stamp, g).stamp = stamp
           /\ Vacant(stamp, g).generation = g
           /\ Vacant(stamp, g).secret = NoSecret
  BY MarkersAssumption DEF Vacant, Entry
---------------------------------------------------------------------------
(* What all changes of entries have in common: the entries are kept or get *)
(* fresh generations, and leases and seen records are at most dropped.     *)

\* What r holds is what s held, or has a number that s has not given out.
Refreshes(s, r) ==
    /\ s.seq <= r.seq /\ r.tickets \subseteq s.tickets
    /\ \A p \in SeenPairs(r) : p \in SeenPairs(s) /\ r.seen[p] = s.seen[p]
    /\ Cardinality(HeldKeys(r)) <= MaxKeys
    /\ \A k \in HeldKeys(r) :
          \/ k \in HeldKeys(s) /\ r.entries[k] = s.entries[k]
          \/ r.entries[k].generation \in (s.seq + 1)..r.seq
    /\ \A j, k \in HeldKeys(r) :
          /\ r.entries[j].generation = r.entries[k].generation
          /\ s.seq < r.entries[k].generation
          => j = k

LEMMA RefreshOK ==
    ASSUME NEW s, StoreOK(s), NEW r \in Store, Refreshes(s, r), LeasesTracked(r)
    PROVE  StoreOK(r)
  <1> USE DEF Refreshes
  <1>1. s \in Store /\ s.seq \in Nat /\ r.seq \in Nat
    BY StoreTypes DEF StoreOK
  <1>2. WithinLimits(r)
    <2>1. IsFiniteSet(s.tickets) /\ Cardinality(s.tickets) <= MaxTickets
      BY DEF StoreOK, WithinLimits
    <2>2. IsFiniteSet(r.tickets) /\ Cardinality(r.tickets) <= Cardinality(s.tickets)
      BY <2>1, FS_Subset
    <2>3. /\ Cardinality(r.tickets) \in Nat
          /\ Cardinality(s.tickets) \in Nat
          /\ MaxTickets \in Nat /\ MaxCallers \in Nat
      BY <2>1, <2>2, FS_CardinalityType, LimitsAssumption
    <2>4. SeenPairs(r) \in SUBSET SeenPairs(s)
      OBVIOUS
    <2>5. Cardinality(SeenPairs(r)) <= Cardinality(SeenPairs(s))
      BY <2>4, KeysFinite, FS_Subset
    <2>6. Cardinality(SeenPairs(s)) <= MaxCallers
      BY DEF StoreOK, WithinLimits
    <2>7. Cardinality(SeenPairs(r)) <= MaxCallers
      BY <2>3, <2>5, <2>6, KeysFinite
    <2> QED
      BY <2>1, <2>2, <2>3, <2>7 DEF WithinLimits
  <1>3. \A k \in HeldKeys(s) : s.entries[k].generation \in 1..s.seq
    BY DEF StoreOK, NumbersUsedOnce
  <1>4. NumbersUsedOnce(r)
    <2>1. \A k \in HeldKeys(r) : r.entries[k].generation \in 1..r.seq
      BY <1>1, <1>3
    <2>2. ASSUME NEW l \in r.tickets
          PROVE  l.token \in 1..r.seq /\ l.generation \in 1..r.seq
      <3>1. l.token \in 1..s.seq /\ l.generation \in 1..s.seq
        BY DEF StoreOK, NumbersUsedOnce
      <3> QED
        BY <1>1, <3>1
    <2>3. ASSUME NEW p \in SeenPairs(r)
          PROVE  r.seen[p] \in 0..r.seq
      <3>1. r.seen[p] \in 0..s.seq
        BY DEF StoreOK, NumbersUsedOnce
      <3> QED
        BY <1>1, <3>1
    <2>4. \A l, m \in r.tickets : l.token = m.token => l = m
      BY DEF StoreOK, NumbersUsedOnce
    <2>5. ASSUME NEW j \in HeldKeys(r), NEW k \in HeldKeys(r),
                 r.entries[j].generation = r.entries[k].generation
          PROVE  j = k
      <3>1. CASE s.seq < r.entries[k].generation
        BY <2>5, <3>1
      <3>2. CASE ~(s.seq < r.entries[k].generation)
        <4>1. /\ k \in HeldKeys(s) /\ r.entries[k] = s.entries[k]
              /\ j \in HeldKeys(s) /\ r.entries[j] = s.entries[j]
          BY <1>1, <2>5, <3>2
        <4> QED
          BY <2>5, <4>1 DEF StoreOK, NumbersUsedOnce
      <3> QED
        BY <3>1, <3>2
    <2> QED
      BY <2>1, <2>2, <2>3, <2>4, <2>5 DEF NumbersUsedOnce
  <1>5. GenerationsMeanWhatTheySay(r)
    <2>1. ASSUME NEW l \in r.tickets, l.id.key \in HeldKeys(r),
                 r.entries[l.id.key].generation = l.generation
          PROVE  r.entries[l.id.key].stamp = l.id.stamp
      <3>1. l.generation \in 1..s.seq
        BY DEF StoreOK, NumbersUsedOnce
      <3>2. l.id.key \in HeldKeys(s) /\ r.entries[l.id.key] = s.entries[l.id.key]
        BY <1>1, <2>1, <3>1
      <3> QED
        BY <2>1, <3>2 DEF StoreOK, GenerationsMeanWhatTheySay
    <2>2. ASSUME NEW p \in SeenPairs(r)
          PROVE  p[2] \notin AgentKey
      BY DEF StoreOK, GenerationsMeanWhatTheySay
    <2>3. ASSUME NEW p \in SeenPairs(r), p[2] \in HeldKeys(r),
                 r.seen[p] = r.entries[p[2]].generation
          PROVE  p[2] \in FilledKeys(r)
      <3>1. r.seen[p] \in 0..s.seq
        BY DEF StoreOK, NumbersUsedOnce
      <3>2. p[2] \in HeldKeys(s) /\ r.entries[p[2]] = s.entries[p[2]]
        BY <1>1, <2>3, <3>1
      <3>3. p[2] \in FilledKeys(s)
        BY <2>3, <3>2 DEF StoreOK, GenerationsMeanWhatTheySay
      <3> QED
        BY <2>3, <3>2, <3>3 DEF FilledKeys
    <2> QED
      BY <2>1, <2>2, <2>3 DEF GenerationsMeanWhatTheySay
  <1> QED
    BY <1>2, <1>4, <1>5 DEF StoreOK

\* Leases stay tracked as long as what they need is not dropped under them.
LEMMA StillTracked ==
    ASSUME NEW s, StoreOK(s), NEW r, r.tickets \subseteq s.tickets,
           \A l \in r.tickets :
              /\ l.id.key \in HeldKeys(s) => l.id.key \in HeldKeys(r)
              /\ <<l.caller, l.id.key>> \in SeenPairs(s)
                    => <<l.caller, l.id.key>> \in SeenPairs(r)
    PROVE  LeasesTracked(r)
  BY DEF StoreOK, LeasesTracked

---------------------------------------------------------------------------
(* Renew.                                                                  *)

LEMMA RenewFields ==
    ASSUME NEW s \in Store, NEW k \in Key, NEW stamp \in Stamp
    PROVE  /\ Renew(s, k, stamp) \in Store
           /\ Renew(s, k, stamp).seq = s.seq + 1
           /\ Renew(s, k, stamp).entries =
                 [s.entries EXCEPT ![k] = Vacant(stamp, s.seq + 1)]
           /\ Renew(s, k, stamp).tickets = s.tickets
           /\ Renew(s, k, stamp).seen = s.seen
  <1>1. s.seq + 1 \in Nat
    BY StoreTypes
  <1>2. [s.entries EXCEPT ![k] = Vacant(stamp, s.seq + 1)]
           \in [Key -> Entry \cup {Absent}]
    BY <1>1, StoreTypes, VacantType
  <1>3. [s EXCEPT !.seq = s.seq + 1,
                  !.entries = [s.entries EXCEPT ![k] = Vacant(stamp, s.seq + 1)]]
           \in Store
    BY <1>1, <1>2, WithEntries
  <1> QED
    BY <1>3 DEF Renew, Store

LEMMA RenewOK ==
    ASSUME NEW s, StoreOK(s), NEW k \in Key, NEW stamp \in Stamp,
           k \in HeldKeys(s) \/ Cardinality(HeldKeys(s)) < MaxKeys
    PROVE  /\ StoreOK(Renew(s, k, stamp))
           /\ HeldKeys(Renew(s, k, stamp)) = HeldKeys(s) \cup {k}
           /\ SeenPairs(Renew(s, k, stamp)) = SeenPairs(s)
  <1> SUFFICES ASSUME NEW r, r = Renew(s, k, stamp)
               PROVE  /\ StoreOK(r)
                      /\ HeldKeys(r) = HeldKeys(s) \cup {k}
                      /\ SeenPairs(r) = SeenPairs(s)
    OBVIOUS
  <1>1. s \in Store
    BY DEF StoreOK
  <1>2. /\ r \in Store
        /\ r.seq = s.seq + 1
        /\ r.entries = [s.entries EXCEPT ![k] = Vacant(stamp, s.seq + 1)]
        /\ r.tickets = s.tickets
        /\ r.seen = s.seen
    BY <1>1, RenewFields
  <1>3. s.seq \in Nat /\ s.seq + 1 \in Nat
    BY <1>1, StoreTypes
  <1>4. /\ r.entries[k].generation = s.seq + 1
        /\ r.entries[k] # Absent
        /\ \A j \in Key \ {k} : r.entries[j] = s.entries[j]
    BY <1>1, <1>2, <1>3, StoreTypes, VacantType
  <1>5. HeldKeys(r) = HeldKeys(s) \cup {k} /\ SeenPairs(r) = SeenPairs(s)
    BY <1>2, <1>4 DEF HeldKeys, SeenPairs
  <1>6. Cardinality(HeldKeys(r)) <= MaxKeys
    <2>1. /\ IsFiniteSet(HeldKeys(s))
          /\ Cardinality(HeldKeys(s)) \in Nat
          /\ Cardinality(HeldKeys(s)) <= MaxKeys
          /\ MaxKeys \in Nat
      BY KeysFinite, LimitsAssumption DEF StoreOK, WithinLimits
    <2>2. Cardinality(HeldKeys(r)) =
            IF k \in HeldKeys(s) THEN Cardinality(HeldKeys(s))
                                 ELSE Cardinality(HeldKeys(s)) + 1
      BY <1>5, <2>1, FS_AddElement
    <2> QED
      BY <2>1, <2>2
  <1>7. \A j \in HeldKeys(r) : j # k => /\ j \in HeldKeys(s)
                                        /\ r.entries[j] = s.entries[j]
                                        /\ s.entries[j].generation \in 1..s.seq
    BY <1>4, <1>5 DEF HeldKeys, StoreOK, NumbersUsedOnce
  <1>8. LeasesTracked(r)
    BY <1>2, <1>5, StillTracked
  <1>9. \A i, j \in HeldKeys(r) :
           /\ r.entries[i].generation = r.entries[j].generation
           /\ s.seq < r.entries[j].generation
           => i = j
    BY <1>3, <1>4, <1>7
  <1>10. StoreOK(r)
    <2>1. \A j \in HeldKeys(r) :
             \/ j \in HeldKeys(s) /\ r.entries[j] = s.entries[j]
             \/ r.entries[j].generation \in (s.seq + 1)..r.seq
      BY <1>2, <1>3, <1>4, <1>7
    <2>2. /\ s.seq <= r.seq
          /\ r.tickets \subseteq s.tickets
          /\ \A p \in SeenPairs(r) : p \in SeenPairs(s) /\ r.seen[p] = s.seen[p]
      BY <1>2, <1>3, <1>5
    <2>3. Refreshes(s, r)
      BY <1>6, <1>9, <2>1, <2>2 DEF Refreshes
    <2> QED
      BY <1>2, <1>8, <2>3, RefreshOK
  <1> QED
    BY <1>5, <1>10
---------------------------------------------------------------------------
(* Expire.                                                                 *)

\* The fields of an expired store, for the numbering g of the wiped entries.
ExpiredBy(s, t, r, g) ==
    /\ g \in Numberings(s, Overdue(s, t))
    /\ r.seq = s.seq + Cardinality(Overdue(s, t))
    /\ r.entries = Wiped(s, g)
    /\ r.tickets = {l \in s.tickets : t < l.expires}
    /\ r.seen = s.seen

LEMMA WipedType ==
    ASSUME NEW s \in Store, NEW t \in Nat,
           NEW g \in Numberings(s, Overdue(s, t))
    PROVE  /\ Wiped(s, g) \in [Key -> Entry \cup {Absent}]
           /\ s.seq + Cardinality(Overdue(s, t)) \in Nat
           /\ s.seq <= s.seq + Cardinality(Overdue(s, t))
           /\ \A k \in Overdue(s, t) :
                /\ Wiped(s, g)[k] = Vacant(s.entries[k].stamp, g[k])
                /\ Wiped(s, g)[k].generation = g[k]
                /\ Wiped(s, g)[k] # Absent
                /\ g[k] \in (s.seq + 1)..(s.seq + Cardinality(Overdue(s, t)))
           /\ \A k \in Key \ Overdue(s, t) : Wiped(s, g)[k] = s.entries[k]
           /\ \A j, k \in Overdue(s, t) : g[j] = g[k] => j = k
  <1> DEFINE K == Overdue(s, t)
  <1>1. K \in SUBSET HeldKeys(s) /\ K \in SUBSET Key
    BY DEF Overdue, FilledKeys, HeldKeys
  <1>2. Cardinality(K) \in Nat
    BY <1>1, KeysFinite, FS_Subset, FS_CardinalityType
  <1>3. s.seq \in Nat
    BY StoreTypes
  <1>4. g \in [K -> (s.seq + 1)..(s.seq + Cardinality(K))] /\ IsInjective(g)
    BY DEF Numberings
  <1> HIDE DEF K
  <1>5. DOMAIN g = K
    BY <1>4
  <1>6. \A k \in K : g[k] \in (s.seq + 1)..(s.seq + Cardinality(K)) /\ g[k] \in Nat
    BY <1>2, <1>3, <1>4
  <1>7. \A k \in K : /\ Vacant(s.entries[k].stamp, g[k]) \in Entry
                     /\ Vacant(s.entries[k].stamp, g[k]) # Absent
                     /\ Vacant(s.entries[k].stamp, g[k]).generation = g[k]
    BY <1>1, <1>6, HeldTypes, VacantType
  <1>8. \A k \in Key : Wiped(s, g)[k] = IF k \in K
                                        THEN Vacant(s.entries[k].stamp, g[k])
                                        ELSE s.entries[k]
    BY <1>5 DEF Wiped
  <1>9. Wiped(s, g) \in [Key -> Entry \cup {Absent}]
    <2>1. \A k \in Key : Wiped(s, g)[k] \in Entry \cup {Absent}
      BY <1>7, <1>8, StoreTypes
    <2> QED
      BY <2>1 DEF Wiped
  <1>10. \A j, k \in K : g[j] = g[k] => j = k
    BY <1>4, <1>5 DEF IsInjective
  <1>11. \A k \in K : /\ Wiped(s, g)[k] = Vacant(s.entries[k].stamp, g[k])
                      /\ Wiped(s, g)[k].generation = g[k]
                      /\ Wiped(s, g)[k] # Absent
    BY <1>1, <1>7, <1>8
  <1>12. \A k \in Key \ K : Wiped(s, g)[k] = s.entries[k]
    BY <1>8
  <1>13. s.seq + Cardinality(K) \in Nat /\ s.seq <= s.seq + Cardinality(K)
    BY <1>2, <1>3
  <1> QED
    BY <1>6, <1>9, <1>10, <1>11, <1>12, <1>13 DEF K

LEMMA ExpireFields ==
    ASSUME NEW s \in Store, NEW t \in Nat, NEW r \in Expire(s, t)
    PROVE  r \in Store /\ \E g : ExpiredBy(s, t, r, g)
  <1>1. PICK g \in Numberings(s, Overdue(s, t)) :
          r = [s EXCEPT !.seq = s.seq + Cardinality(Overdue(s, t)),
                        !.entries = Wiped(s, g),
                        !.tickets = {l \in s.tickets : t < l.expires}]
    BY DEF Expire
  <1>2. r \in Store
    <2>1. {l \in s.tickets : t < l.expires} \in SUBSET Ticket
      BY StoreTypes
    <2>2. /\ s.seq + Cardinality(Overdue(s, t)) \in Nat
          /\ Wiped(s, g) \in [Key -> Entry \cup {Absent}]
      BY WipedType
    <2>3. [s EXCEPT !.seq = s.seq + Cardinality(Overdue(s, t)),
                    !.entries = Wiped(s, g),
                    !.tickets = {l \in s.tickets : t < l.expires}] \in Store
      BY <2>1, <2>2, WithEntriesTickets
    <2> QED
      BY <1>1, <2>3, Zenon
  <1>3. ExpiredBy(s, t, r, g)
    BY <1>1 DEF ExpiredBy, Store
  <1> QED
    BY <1>2, <1>3

LEMMA ExpireOK ==
    ASSUME NEW s, StoreOK(s), NEW t \in Nat, NEW r \in Expire(s, t)
    PROVE  /\ StoreOK(r)
           /\ HeldKeys(r) = HeldKeys(s)
           /\ SeenPairs(r) = SeenPairs(s)
           /\ r.tickets \subseteq s.tickets
           /\ s.seq <= r.seq
  <1>1. s \in Store
    BY DEF StoreOK
  <1>2. r \in Store
    BY <1>1, ExpireFields
  <1>3. PICK g : ExpiredBy(s, t, r, g)
    BY <1>1, ExpireFields
  <1> DEFINE K == Overdue(s, t)
  <1>4. /\ g \in Numberings(s, K)
        /\ r.entries = Wiped(s, g)
        /\ r.seq = s.seq + Cardinality(K)
        /\ r.tickets \subseteq s.tickets
        /\ r.seen = s.seen
    BY <1>3 DEF ExpiredBy
  <1>5. K \subseteq HeldKeys(s) /\ HeldKeys(s) \subseteq Key
    BY DEF Overdue, FilledKeys, HeldKeys
  <1>6. /\ s.seq <= r.seq
        /\ \A k \in K : /\ r.entries[k].generation = g[k]
                        /\ r.entries[k] # Absent
                        /\ g[k] \in (s.seq + 1)..r.seq
        /\ \A k \in Key \ K : r.entries[k] = s.entries[k]
        /\ \A j, k \in K : g[j] = g[k] => j = k
    BY <1>1, <1>4, WipedType
  <1> HIDE DEF K
  <1>7. HeldKeys(r) = HeldKeys(s) /\ SeenPairs(r) = SeenPairs(s)
    BY <1>4, <1>5, <1>6 DEF HeldKeys, SeenPairs
  <1>8. LeasesTracked(r)
    BY <1>4, <1>7, StillTracked
  <1>9. Cardinality(HeldKeys(r)) <= MaxKeys
    BY <1>7 DEF StoreOK, WithinLimits
  <1>10. s.seq \in Nat /\ \A k \in HeldKeys(s) : s.entries[k].generation \in 1..s.seq
    BY <1>1, StoreTypes DEF StoreOK, NumbersUsedOnce
  <1>11. \A k \in HeldKeys(r) :
            \/ k \in HeldKeys(s) /\ r.entries[k] = s.entries[k]
            \/ r.entries[k].generation \in (s.seq + 1)..r.seq
    BY <1>5, <1>6, <1>7
  <1>12. \A j, k \in HeldKeys(r) :
            /\ r.entries[j].generation = r.entries[k].generation
            /\ s.seq < r.entries[k].generation
            => j = k
    <2> SUFFICES ASSUME NEW j \in HeldKeys(s), NEW k \in HeldKeys(s),
                        r.entries[j].generation = r.entries[k].generation,
                        s.seq < r.entries[k].generation
                 PROVE  j = k
      BY <1>7
    <2>1. j \in K /\ k \in K
      BY <1>5, <1>6, <1>10
    <2> QED
      BY <1>6, <2>1
  <1>13. \A p \in SeenPairs(r) : p \in SeenPairs(s) /\ r.seen[p] = s.seen[p]
    BY <1>4, <1>7
  <1>14. StoreOK(r)
    <2>1. Refreshes(s, r)
      BY <1>2, <1>4, <1>6, <1>8, <1>9, <1>11, <1>12, <1>13 DEF Refreshes
    <2> QED
      BY <1>2, <1>4, <1>6, <1>8, <1>9, <2>1, RefreshOK
  <1> QED
    BY <1>4, <1>6, <1>7, <1>14
---------------------------------------------------------------------------
(* Forget and Sweep: entries disappear with the leases that need them.     *)

LEMMA ForgetFields ==
    ASSUME NEW s \in Store, NEW K \in SUBSET Key
    PROVE  /\ Forget(s, K) \in Store
           /\ Forget(s, K).seq = s.seq + Cardinality(HeldKeys(s) \cap K)
           /\ Forget(s, K).entries =
                 [k \in Key |-> IF k \in K THEN Absent ELSE s.entries[k]]
           /\ Forget(s, K).tickets = {l \in s.tickets : l.id.key \notin K}
           /\ Forget(s, K).seen = s.seen
           /\ s.seq <= Forget(s, K).seq
  <1>1. HeldKeys(s) \cap K \in SUBSET HeldKeys(s)
    OBVIOUS
  <1>2. Cardinality(HeldKeys(s) \cap K) \in Nat
    BY <1>1, KeysFinite, FS_Subset, FS_CardinalityType
  <1>3. /\ s.seq + Cardinality(HeldKeys(s) \cap K) \in Nat
        /\ s.seq <= s.seq + Cardinality(HeldKeys(s) \cap K)
    BY <1>2, StoreTypes
  <1>4. [k \in Key |-> IF k \in K THEN Absent ELSE s.entries[k]]
           \in [Key -> Entry \cup {Absent}]
    BY StoreTypes
  <1>5. {l \in s.tickets : l.id.key \notin K} \in SUBSET Ticket
    BY StoreTypes
  <1>6. [s EXCEPT !.seq = s.seq + Cardinality(HeldKeys(s) \cap K),
                  !.entries = [k \in Key |-> IF k \in K THEN Absent ELSE s.entries[k]],
                  !.tickets = {l \in s.tickets : l.id.key \notin K}] \in Store
    BY <1>3, <1>4, <1>5, WithEntriesTickets
  <1> QED
    BY <1>3, <1>6 DEF Forget, Store

\* A store that only lost entries, leases and seen records.
LEMMA ShrinkOK ==
    ASSUME NEW s, StoreOK(s), NEW r \in Store, s.seq <= r.seq,
           r.tickets \subseteq s.tickets,
           \A p \in SeenPairs(r) : p \in SeenPairs(s) /\ r.seen[p] = s.seen[p],
           \A k \in HeldKeys(r) : k \in HeldKeys(s) /\ r.entries[k] = s.entries[k],
           LeasesTracked(r)
    PROVE  StoreOK(r)
  <1>1. s.seq \in Nat /\ \A k \in HeldKeys(s) : s.entries[k].generation \in 1..s.seq
    BY StoreTypes DEF StoreOK, NumbersUsedOnce
  <1>2. Cardinality(HeldKeys(r)) <= MaxKeys
    <2>1. HeldKeys(r) \in SUBSET HeldKeys(s)
      OBVIOUS
    <2>2. Cardinality(HeldKeys(r)) <= Cardinality(HeldKeys(s))
      BY <2>1, KeysFinite, FS_Subset
    <2>3. Cardinality(HeldKeys(s)) <= MaxKeys
      BY DEF StoreOK, WithinLimits
    <2> QED
      BY <2>2, <2>3, KeysFinite, LimitsAssumption
  <1>3. \A j, k \in HeldKeys(r) :
            /\ r.entries[j].generation = r.entries[k].generation
            /\ s.seq < r.entries[k].generation
            => j = k
    BY <1>1
  <1> QED
    BY <1>2, <1>3, RefreshOK DEF Refreshes

LEMMA ForgetOK ==
    ASSUME NEW s, StoreOK(s), NEW K \in SUBSET Key
    PROVE  StoreOK(Forget(s, K))
  <1> SUFFICES ASSUME NEW r, r = Forget(s, K)
               PROVE  StoreOK(r)
    OBVIOUS
  <1>1. /\ r \in Store
        /\ s.seq <= r.seq
        /\ r.entries = [k \in Key |-> IF k \in K THEN Absent ELSE s.entries[k]]
        /\ r.tickets = {l \in s.tickets : l.id.key \notin K}
        /\ r.seen = s.seen
    BY ForgetFields DEF StoreOK
  <1>2. /\ \A k \in HeldKeys(r) : k \in HeldKeys(s) /\ r.entries[k] = s.entries[k]
        /\ \A k \in HeldKeys(s) : k \in K \/ k \in HeldKeys(r)
        /\ SeenPairs(r) = SeenPairs(s)
    BY <1>1 DEF HeldKeys, SeenPairs
  <1>3. LeasesTracked(r)
    BY <1>1, <1>2, StillTracked
  <1>4. /\ r.tickets \subseteq s.tickets
        /\ \A p \in SeenPairs(r) : p \in SeenPairs(s) /\ r.seen[p] = s.seen[p]
    BY <1>1, <1>2
  <1> QED
    BY <1>1, <1>2, <1>3, <1>4, ShrinkOK

LEMMA SweepFields ==
    ASSUME NEW s \in Store, NEW P, NEW T
    PROVE  /\ Sweep(s, P, T) \in Store
           /\ Sweep(s, P, T).seq = s.seq
           /\ Sweep(s, P, T).entries =
                 [k \in Key |-> IF k \in Unneeded(Pruned(s, P, T))
                                THEN Absent ELSE s.entries[k]]
           /\ Sweep(s, P, T).tickets = s.tickets \ T
           /\ Sweep(s, P, T).seen = [p \in Caller \X Key |->
                                        IF p \in P THEN Absent ELSE s.seen[p]]
           /\ \A l \in s.tickets \ T : l.id.key \notin Unneeded(Pruned(s, P, T))
  <1> SUFFICES ASSUME NEW n, NEW U, NEW m,
                      n = [p \in Caller \X Key |->
                              IF p \in P THEN Absent ELSE s.seen[p]],
                      m = Pruned(s, P, T),
                      U = Unneeded(m)
               PROVE  /\ Sweep(s, P, T) \in Store
                      /\ Sweep(s, P, T).seq = s.seq
                      /\ Sweep(s, P, T).entries =
                            [k \in Key |-> IF k \in U THEN Absent ELSE s.entries[k]]
                      /\ Sweep(s, P, T).tickets = s.tickets \ T
                      /\ Sweep(s, P, T).seen = n
                      /\ \A l \in s.tickets \ T : l.id.key \notin U
    OBVIOUS
  <1>1. n \in [Caller \X Key -> Nat \cup {Absent}] /\ s.tickets \ T \in SUBSET Ticket
    BY StoreTypes
  <1>2. /\ m.seq = s.seq
        /\ m.entries = s.entries
        /\ m.tickets = s.tickets \ T
        /\ m.seen = n
    BY DEF Pruned, Store
  <1>3. m \in Store
    <2>1. \A q \in [Caller \X Key -> Nat \cup {Absent}], l \in SUBSET Ticket :
             [s EXCEPT !.seen = q, !.tickets = l] \in Store
      BY DEF Store
    <2>2. [s EXCEPT !.seen = n, !.tickets = s.tickets \ T] \in Store
      BY <1>1, <2>1
    <2> QED
      BY <2>2 DEF Pruned
  <1>4. \A l \in s.tickets \ T : l.id.key \notin U
    BY <1>2 DEF Unneeded
  <1>5. [k \in Key |-> IF k \in U THEN Absent ELSE s.entries[k]]
           \in [Key -> Entry \cup {Absent}]
    BY StoreTypes
  <1>6. Sweep(s, P, T) =
           [m EXCEPT !.entries =
               [k \in Key |-> IF k \in U THEN Absent ELSE s.entries[k]]]
    BY <1>2, Zenon DEF Sweep
  <1>7. [m EXCEPT !.entries =
            [k \in Key |-> IF k \in U THEN Absent ELSE s.entries[k]]] \in Store
    <2>1. \A e \in [Key -> Entry \cup {Absent}] : [m EXCEPT !.entries = e] \in Store
      BY <1>3 DEF Store
    <2> QED
      BY <1>5, <2>1
  <1>8. Sweep(s, P, T) \in Store
    BY <1>6, <1>7, Zenon
  <1>9. /\ Sweep(s, P, T).seq = m.seq
        /\ Sweep(s, P, T).tickets = m.tickets
        /\ Sweep(s, P, T).seen = m.seen
        /\ Sweep(s, P, T).entries =
              [k \in Key |-> IF k \in U THEN Absent ELSE s.entries[k]]
    BY <1>3, <1>6 DEF Store
  <1> QED
    BY <1>2, <1>4, <1>8, <1>9

\* The caller of a dropped seen record loses its leases in the same sweep.
LEMMA SweepOK ==
    ASSUME NEW s, StoreOK(s), NEW P, NEW T,
           \A p \in P : \A l \in s.tickets : l.caller = p[1] => l \in T
    PROVE  StoreOK(Sweep(s, P, T))
  <1> SUFFICES ASSUME NEW r, r = Sweep(s, P, T)
               PROVE  StoreOK(r)
    OBVIOUS
  <1> DEFINE U == Unneeded(Pruned(s, P, T))
  <1>1. /\ r \in Store
        /\ r.seq = s.seq
        /\ r.entries = [k \in Key |-> IF k \in U THEN Absent ELSE s.entries[k]]
        /\ r.tickets = s.tickets \ T
        /\ r.seen = [p \in Caller \X Key |-> IF p \in P THEN Absent ELSE s.seen[p]]
        /\ \A l \in s.tickets \ T : l.id.key \notin U
    <2>1. s \in Store
      BY DEF StoreOK
    <2>2. /\ Sweep(s, P, T) \in Store
          /\ Sweep(s, P, T).seq = s.seq
          /\ Sweep(s, P, T).entries =
                [k \in Key |-> IF k \in U THEN Absent ELSE s.entries[k]]
          /\ Sweep(s, P, T).tickets = s.tickets \ T
          /\ Sweep(s, P, T).seen = [p \in Caller \X Key |->
                                        IF p \in P THEN Absent ELSE s.seen[p]]
          /\ \A l \in s.tickets \ T : l.id.key \notin U
      BY <2>1, SweepFields, Zenon
    <2> HIDE DEF U
    <2> QED
      BY <2>2, Zenon
  <1>2. \A l \in r.tickets : l.id.key \notin U
    BY <1>1
  <1> HIDE DEF U
  <1>3. /\ \A k \in HeldKeys(r) : k \in HeldKeys(s) /\ r.entries[k] = s.entries[k]
        /\ \A k \in HeldKeys(s) : k \in U \/ k \in HeldKeys(r)
    BY <1>1 DEF HeldKeys
  <1>4. /\ \A p \in SeenPairs(r) : p \in SeenPairs(s) /\ r.seen[p] = s.seen[p]
        /\ \A p \in SeenPairs(s) : p \in P \/ p \in SeenPairs(r)
    BY <1>1 DEF SeenPairs
  <1>5. LeasesTracked(r)
    <2>1. ASSUME NEW l \in r.tickets
          PROVE  <<l.caller, l.id.key>> \notin P
      <3>1. l \in s.tickets /\ l \notin T
        BY <1>1
      <3>2. <<l.caller, l.id.key>>[1] = l.caller
        OBVIOUS
      <3> QED
        BY <3>1, <3>2
    <2>2. r.tickets \subseteq s.tickets
      BY <1>1
    <2>3. \A l \in r.tickets :
             /\ l.id.key \in HeldKeys(s) => l.id.key \in HeldKeys(r)
             /\ <<l.caller, l.id.key>> \in SeenPairs(s)
                   => <<l.caller, l.id.key>> \in SeenPairs(r)
      BY <1>2, <1>3, <1>4, <2>1
    <2> QED
      BY <2>2, <2>3, StillTracked
  <1>6. s.seq <= r.seq /\ r.tickets \subseteq s.tickets
    BY <1>1, StoreTypes
  <1> QED
    BY <1>1, <1>3, <1>4, <1>5, <1>6, ShrinkOK
---------------------------------------------------------------------------
(* Fill, Remember, Issue: the three writes of Begin and Commit.            *)

LEMMA FillFields ==
    ASSUME NEW s \in Store, NEW id \in Identity, NEW secret \in Secret,
           NEW t \in Nat
    PROVE  LET e == [stamp |-> id.stamp, generation |-> s.seq + 1,
                     secret |-> secret, expires |-> t + TTL]
           IN /\ e \in Entry
              /\ Fill(s, id, secret, t) \in Store
              /\ Fill(s, id, secret, t).seq = s.seq + 1
              /\ Fill(s, id, secret, t).entries = [s.entries EXCEPT ![id.key] = e]
              /\ Fill(s, id, secret, t).tickets = s.tickets
              /\ Fill(s, id, secret, t).seen = s.seen
  <1> DEFINE e == [stamp |-> id.stamp, generation |-> s.seq + 1,
                   secret |-> secret, expires |-> t + TTL]
  <1>1. s.seq + 1 \in Nat /\ t + TTL \in Nat
    BY StoreTypes, LimitsAssumption
  <1>2. id.key \in Key /\ id.stamp \in Stamp
    BY DEF Identity
  <1>3. e \in Entry
    BY <1>1, <1>2 DEF Entry
  <1> HIDE DEF e
  <1>4. [s.entries EXCEPT ![id.key] = e] \in [Key -> Entry \cup {Absent}]
    BY <1>3, StoreTypes
  <1>5. [s EXCEPT !.seq = s.seq + 1,
                  !.entries = [s.entries EXCEPT ![id.key] = e]] \in Store
    BY <1>1, <1>4, WithEntries
  <1>6. /\ [s EXCEPT !.seq = s.seq + 1, !.entries[id.key] = e].seq = s.seq + 1
        /\ [s EXCEPT !.seq = s.seq + 1, !.entries[id.key] = e].entries =
              [s.entries EXCEPT ![id.key] = e]
        /\ [s EXCEPT !.seq = s.seq + 1, !.entries[id.key] = e].tickets = s.tickets
        /\ [s EXCEPT !.seq = s.seq + 1, !.entries[id.key] = e].seen = s.seen
    BY DEF Store
  <1> QED
    BY <1>3, <1>5, <1>6 DEF Fill, e

LEMMA FillOK ==
    ASSUME NEW s, StoreOK(s), NEW id \in Identity, NEW secret \in Secret,
           NEW t \in Nat, id.key \in HeldKeys(s)
    PROVE  LET r == Fill(s, id, secret, t)
           IN /\ StoreOK(r)
              /\ r.seq = s.seq + 1
              /\ id.key \in FilledKeys(r)
              /\ r.entries[id.key].generation = s.seq + 1
              /\ SeenPairs(r) = SeenPairs(s)
  <1> SUFFICES ASSUME NEW r, r = Fill(s, id, secret, t)
               PROVE  /\ StoreOK(r)
                      /\ r.seq = s.seq + 1
                      /\ id.key \in FilledKeys(r)
                      /\ r.entries[id.key].generation = s.seq + 1
                      /\ SeenPairs(r) = SeenPairs(s)
    OBVIOUS
  <1> DEFINE e == [stamp |-> id.stamp, generation |-> s.seq + 1,
                   secret |-> secret, expires |-> t + TTL]
             k == id.key
  <1>1. s \in Store /\ s.seq \in Nat
    BY StoreTypes DEF StoreOK
  <1>2. /\ e \in Entry
        /\ r \in Store
        /\ r.seq = s.seq + 1
        /\ r.entries = [s.entries EXCEPT ![k] = e]
        /\ r.tickets = s.tickets
        /\ r.seen = s.seen
    BY <1>1, FillFields
  <1>3. e.generation = s.seq + 1 /\ e.secret \in Secret
    OBVIOUS
  <1>4. k \in Key /\ k \in HeldKeys(s)
    BY DEF Identity
  <1> HIDE DEF e, k
  <1>5. /\ r.entries[k] = e
        /\ e # Absent /\ e.secret # NoSecret
        /\ \A j \in Key \ {k} : r.entries[j] = s.entries[j]
    BY <1>1, <1>2, <1>3, <1>4, StoreTypes, MarkersAssumption
  <1>6. HeldKeys(r) = HeldKeys(s) /\ SeenPairs(r) = SeenPairs(s)
    BY <1>2, <1>4, <1>5 DEF HeldKeys, SeenPairs
  <1>7. k \in FilledKeys(r) /\ r.entries[k].generation = s.seq + 1
    BY <1>3, <1>4, <1>5, <1>6 DEF FilledKeys
  <1>8. LeasesTracked(r)
    BY <1>2, <1>6, StillTracked
  <1>9. \A j \in HeldKeys(r) : j # k => /\ j \in HeldKeys(s)
                                        /\ r.entries[j] = s.entries[j]
                                        /\ s.entries[j].generation \in 1..s.seq
    BY <1>5, <1>6 DEF HeldKeys, StoreOK, NumbersUsedOnce
  <1>10. StoreOK(r)
    <2>1. \A j \in HeldKeys(r) :
             \/ j \in HeldKeys(s) /\ r.entries[j] = s.entries[j]
             \/ r.entries[j].generation \in (s.seq + 1)..r.seq
      BY <1>1, <1>2, <1>7, <1>9
    <2>2. \A i, j \in HeldKeys(r) :
             /\ r.entries[i].generation = r.entries[j].generation
             /\ s.seq < r.entries[j].generation
             => i = j
      BY <1>1, <1>7, <1>9
    <2>3. /\ s.seq <= r.seq
          /\ r.tickets \subseteq s.tickets
          /\ \A p \in SeenPairs(r) : p \in SeenPairs(s) /\ r.seen[p] = s.seen[p]
          /\ Cardinality(HeldKeys(r)) <= MaxKeys
      BY <1>1, <1>2, <1>6 DEF StoreOK, WithinLimits
    <2>4. Refreshes(s, r)
      BY <2>1, <2>2, <2>3 DEF Refreshes
    <2> QED
      BY <1>2, <1>8, <2>4, RefreshOK
  <1> QED
    BY <1>2, <1>6, <1>7, <1>10 DEF k

LEMMA RememberFields ==
    ASSUME NEW s \in Store, NEW id \in Identity, NEW c \in Caller, NEW g \in Nat
    PROVE  /\ Remember(s, id, c, g) \in Store
           /\ Remember(s, id, c, g).seq = s.seq
           /\ Remember(s, id, c, g).entries = s.entries
           /\ Remember(s, id, c, g).tickets = s.tickets
           /\ Remember(s, id, c, g).seen =
                 IF id.key \in AgentKey THEN s.seen
                 ELSE [s.seen EXCEPT ![<<c, id.key>>] = g]
  <1>1. CASE id.key \in AgentKey
    BY <1>1 DEF Remember
  <1>2. CASE id.key \notin AgentKey
    <2>1. <<c, id.key>> \in Caller \X Key
      BY DEF Identity
    <2>2. [s.seen EXCEPT ![<<c, id.key>>] = g]
             \in [Caller \X Key -> Nat \cup {Absent}]
      BY <2>1, StoreTypes
    <2>3. \A n \in [Caller \X Key -> Nat \cup {Absent}] :
             [s EXCEPT !.seen = n] \in Store
      BY DEF Store
    <2>4. [s EXCEPT !.seen = [s.seen EXCEPT ![<<c, id.key>>] = g]] \in Store
      BY <2>2, <2>3
    <2> QED
      BY <1>2, <2>4 DEF Remember, Store
  <1> QED
    BY <1>1, <1>2
\* A record may be written if there is one already or room for one more, and
\* if the generation it names is of a filled entry, or of none.
LEMMA RememberOK ==
    ASSUME NEW s, StoreOK(s), NEW id \in Identity, NEW c \in Caller,
           NEW g \in 0..s.seq,
           \/ id.key \in AgentKey
           \/ <<c, id.key>> \in SeenPairs(s)
           \/ Cardinality(SeenPairs(s)) < MaxCallers,
           id.key \in HeldKeys(s) /\ g = s.entries[id.key].generation
              => id.key \in FilledKeys(s)
    PROVE  LET r == Remember(s, id, c, g)
           IN /\ StoreOK(r)
              /\ r.seq = s.seq
              /\ r.entries = s.entries
              /\ r.tickets = s.tickets
              /\ id.key \notin AgentKey => <<c, id.key>> \in SeenPairs(r)
  <1>1. CASE id.key \in AgentKey
    BY <1>1 DEF Remember
  <1>2. CASE id.key \notin AgentKey
    <2> SUFFICES ASSUME NEW r, r = Remember(s, id, c, g)
                 PROVE  /\ StoreOK(r)
                        /\ r.seq = s.seq
                        /\ r.entries = s.entries
                        /\ r.tickets = s.tickets
                        /\ <<c, id.key>> \in SeenPairs(r)
      BY <1>2
    <2> DEFINE q == <<c, id.key>>
    <2>1. s \in Store /\ s.seq \in Nat /\ g \in Nat
      BY StoreTypes DEF StoreOK
    <2>2. /\ r \in Store
          /\ r.seq = s.seq
          /\ r.entries = s.entries
          /\ r.tickets = s.tickets
          /\ r.seen = [s.seen EXCEPT ![q] = g]
      BY <1>2, <2>1, RememberFields
    <2>3. q \in Caller \X Key /\ q[2] = id.key
      BY DEF Identity
    <2> HIDE DEF q
    <2>4. /\ r.seen[q] = g
          /\ \A p \in (Caller \X Key) \ {q} : r.seen[p] = s.seen[p]
      BY <2>1, <2>2, <2>3, StoreTypes
    <2>5. SeenPairs(r) = SeenPairs(s) \cup {q}
      BY <2>1, <2>3, <2>4, MarkersAssumption DEF SeenPairs
    <2>6. HeldKeys(r) = HeldKeys(s) /\ FilledKeys(r) = FilledKeys(s)
      BY <2>2 DEF HeldKeys, FilledKeys
    <2>7. Cardinality(SeenPairs(r)) <= MaxCallers
      <3>1. q \in SeenPairs(s) \/ Cardinality(SeenPairs(s)) < MaxCallers
        BY <1>2 DEF q
      <3>2. /\ IsFiniteSet(SeenPairs(s))
            /\ Cardinality(SeenPairs(s)) \in Nat
            /\ Cardinality(SeenPairs(s)) <= MaxCallers
            /\ MaxCallers \in Nat
        BY KeysFinite, LimitsAssumption DEF StoreOK, WithinLimits
      <3>3. Cardinality(SeenPairs(r)) =
              IF q \in SeenPairs(s) THEN Cardinality(SeenPairs(s))
                                    ELSE Cardinality(SeenPairs(s)) + 1
        BY <2>5, <3>2, FS_AddElement
      <3> QED
        BY <3>1, <3>2, <3>3
    <2>8. WithinLimits(r)
      BY <2>2, <2>6, <2>7 DEF StoreOK, WithinLimits
    <2>9. LeasesTracked(r)
      BY <2>2, <2>5, <2>6 DEF StoreOK, LeasesTracked
    <2>10. NumbersUsedOnce(r)
      <3>1. \A p \in SeenPairs(r) : r.seen[p] \in 0..r.seq
        BY <2>2, <2>4, <2>5 DEF StoreOK, NumbersUsedOnce, SeenPairs
      <3> QED
        BY <2>2, <2>6, <3>1 DEF StoreOK, NumbersUsedOnce
    <2>11. GenerationsMeanWhatTheySay(r)
      <3>1. \A p \in SeenPairs(r) :
               /\ p[2] \notin AgentKey
               /\ p[2] \in HeldKeys(r) =>
                     (r.seen[p] = r.entries[p[2]].generation
                          => p[2] \in FilledKeys(r))
        <4> TAKE p \in SeenPairs(r)
        <4>1. CASE p = q
          BY <1>2, <2>2, <2>3, <2>4, <2>6, <4>1
        <4>2. CASE p # q
          <5>1. p \in SeenPairs(s) /\ r.seen[p] = s.seen[p]
            BY <2>4, <2>5, <4>2 DEF SeenPairs
          <5> QED
            BY <2>2, <2>6, <5>1 DEF StoreOK, GenerationsMeanWhatTheySay
        <4> QED
          BY <4>1, <4>2
      <3> QED
        BY <2>2, <2>6, <3>1 DEF StoreOK, GenerationsMeanWhatTheySay
    <2>12. StoreOK(r)
      BY <2>2, <2>8, <2>9, <2>10, <2>11 DEF StoreOK
    <2> QED
      BY <2>2, <2>5, <2>12 DEF q
  <1> QED
    BY <1>1, <1>2

LEMMA IssueOK ==
    ASSUME NEW s, StoreOK(s), NEW id \in Identity, NEW c \in Caller,
           NEW t \in Nat,
           id.key \in HeldKeys(s), s.entries[id.key].stamp = id.stamp,
           id.key \notin AgentKey => <<c, id.key>> \in SeenPairs(s),
           Cardinality(s.tickets) < MaxTickets
    PROVE  StoreOK(Issue(s, id, c, t))
  <1> SUFFICES ASSUME NEW r, r = Issue(s, id, c, t)
               PROVE  StoreOK(r)
    OBVIOUS
  <1> DEFINE l == [token |-> s.seq + 1, id |-> id,
                   generation |-> s.entries[id.key].generation,
                   caller |-> c, expires |-> t + TicketLifetime]
  <1>1. s \in Store /\ s.seq \in Nat /\ s.seq + 1 \in Nat /\ t + TicketLifetime \in Nat
    BY StoreTypes, LimitsAssumption DEF StoreOK
  <1>2. s.entries[id.key].generation \in 1..s.seq
    BY DEF StoreOK, NumbersUsedOnce
  <1>3. l \in Ticket
    BY <1>1, <1>2 DEF Ticket
  <1>4. /\ l.token = s.seq + 1
        /\ l.id = id
        /\ l.generation = s.entries[id.key].generation
        /\ l.caller = c
    OBVIOUS
  <1>5. Issue(s, id, c, t) = [s EXCEPT !.seq = s.seq + 1, !.tickets = s.tickets \cup {l}]
    BY DEF Issue
  <1> HIDE DEF l
  <1>6. /\ r \in Store
        /\ r.seq = s.seq + 1
        /\ r.entries = s.entries
        /\ r.tickets = s.tickets \cup {l}
        /\ r.seen = s.seen
    <2>1. s.tickets \cup {l} \in SUBSET Ticket
      BY <1>1, <1>3, StoreTypes
    <2>2. \A q \in Nat, T \in SUBSET Ticket :
             [s EXCEPT !.seq = q, !.tickets = T] \in Store
      BY <1>1 DEF Store
    <2>3. [s EXCEPT !.seq = s.seq + 1, !.tickets = s.tickets \cup {l}] \in Store
      BY <1>1, <2>1, <2>2
    <2>4. Issue(s, id, c, t) \in Store
      BY <1>5, <2>3, Zenon
    <2>5. /\ Issue(s, id, c, t).seq = s.seq + 1
          /\ Issue(s, id, c, t).entries = s.entries
          /\ Issue(s, id, c, t).tickets = s.tickets \cup {l}
          /\ Issue(s, id, c, t).seen = s.seen
      BY <1>1, <1>5 DEF Store
    <2> QED
      BY <2>4, <2>5, Zenon
  <1>7. /\ HeldKeys(r) = HeldKeys(s)
        /\ SeenPairs(r) = SeenPairs(s)
        /\ FilledKeys(r) = FilledKeys(s)
    BY <1>6 DEF HeldKeys, SeenPairs, FilledKeys
  <1>8. WithinLimits(r)
    <2>1. /\ IsFiniteSet(s.tickets)
          /\ Cardinality(s.tickets) \in Nat
          /\ MaxTickets \in Nat
      BY FS_CardinalityType, LimitsAssumption DEF StoreOK, WithinLimits
    <2>2. /\ IsFiniteSet(r.tickets)
          /\ Cardinality(r.tickets) = IF l \in s.tickets THEN Cardinality(s.tickets)
                                      ELSE Cardinality(s.tickets) + 1
      <3>1. /\ IsFiniteSet(s.tickets \cup {l})
            /\ Cardinality(s.tickets \cup {l}) =
                  IF l \in s.tickets THEN Cardinality(s.tickets)
                                     ELSE Cardinality(s.tickets) + 1
        BY <2>1, FS_AddElement
      <3> QED
        BY <1>6, <3>1, Zenon
    <2>3. Cardinality(r.tickets) <= MaxTickets
      BY <2>1, <2>2
    <2> QED
      BY <1>7, <2>2, <2>3 DEF StoreOK, WithinLimits
  <1>9. LeasesTracked(r)
    BY <1>4, <1>6, <1>7 DEF StoreOK, LeasesTracked
  <1>10. NumbersUsedOnce(r)
    <2>1. /\ \A k \in HeldKeys(r) : r.entries[k].generation \in 1..r.seq
          /\ \A p \in SeenPairs(r) : r.seen[p] \in 0..r.seq
      <3>1. /\ \A k \in HeldKeys(s) : s.entries[k].generation \in 1..s.seq
            /\ \A p \in SeenPairs(s) : s.seen[p] \in 0..s.seq
        BY DEF StoreOK, NumbersUsedOnce
      <3> QED
        BY <1>1, <1>6, <1>7, <3>1
    <2>2. /\ \A m \in s.tickets : m.token \in 1..s.seq /\ m.generation \in 1..s.seq
          /\ \A m, n \in s.tickets : m.token = n.token => m = n
      BY DEF StoreOK, NumbersUsedOnce
    <2>3. \A m \in r.tickets : m.token \in 1..r.seq /\ m.generation \in 1..r.seq
      BY <1>1, <1>2, <1>4, <1>6, <2>2
    <2>4. \A m, n \in r.tickets : m.token = n.token => m = n
      BY <1>1, <1>4, <1>6, <2>2
    <2>5. \A j, k \in HeldKeys(r) :
             r.entries[j].generation = r.entries[k].generation => j = k
      BY <1>6, <1>7 DEF StoreOK, NumbersUsedOnce
    <2> QED
      BY <2>1, <2>3, <2>4, <2>5 DEF NumbersUsedOnce
  <1>11. GenerationsMeanWhatTheySay(r)
    <2>1. \A m \in r.tickets :
             m.id.key \in HeldKeys(r) =>
                (r.entries[m.id.key].generation = m.generation
                     => r.entries[m.id.key].stamp = m.id.stamp)
      <3> TAKE m \in r.tickets
      <3>1. CASE m = l
        BY <1>4, <1>6, <3>1
      <3>2. CASE m \in s.tickets
        BY <1>6, <1>7, <3>2 DEF StoreOK, GenerationsMeanWhatTheySay
      <3> QED
        BY <1>6, <3>1, <3>2
    <2> QED
      BY <1>6, <1>7, <2>1 DEF StoreOK, GenerationsMeanWhatTheySay
  <1> QED
    BY <1>6, <1>8, <1>9, <1>10, <1>11 DEF StoreOK

---------------------------------------------------------------------------
(* The methods.                                                            *)

LEMMA RejectOK ==
    ASSUME NEW s, StoreOK(s), NEW id \in Identity, NEW g
    PROVE  StoreOK(Reject(s, id, g))
  <1>1. CASE Holds(s, id, g)
    <2>1. id.key \in HeldKeys(s) /\ id.key \in Key /\ id.stamp \in Stamp
      BY <1>1 DEF Holds, Identity
    <2> QED
      BY <1>1, <2>1, RenewOK DEF Reject
  <1>2. CASE ~Holds(s, id, g)
    BY <1>2 DEF Reject
  <1> QED
    BY <1>1, <1>2
LEMMA OpenedOK ==
    ASSUME NEW s, StoreOK(s), NEW id \in Identity, NEW c \in Caller,
           ~NoRoom(s, id, c)
    PROVE  LET r == Opened(s, id)
           IN /\ StoreOK(r)
              /\ id.key \in HeldKeys(r)
              /\ r.entries[id.key].stamp = id.stamp
              /\ r.tickets = s.tickets
              /\ r.seen = s.seen
  <1>1. CASE id.key \in HeldKeys(s) /\ s.entries[id.key].stamp = id.stamp
    BY <1>1 DEF Opened
  <1>2. CASE ~(id.key \in HeldKeys(s) /\ s.entries[id.key].stamp = id.stamp)
    <2>1. id.key \in Key /\ id.stamp \in Stamp /\ s \in Store
      BY DEF Identity, StoreOK
    <2>2. id.key \in HeldKeys(s) \/ Cardinality(HeldKeys(s)) < MaxKeys
      BY <2>1, KeysFinite, LimitsAssumption DEF NoRoom, HeldKeys
    <2> DEFINE r == Renew(s, id.key, id.stamp)
    <2>3. StoreOK(r) /\ id.key \in HeldKeys(r)
      BY <2>1, <2>2, RenewOK
    <2>4. /\ r.entries = [s.entries EXCEPT ![id.key] = Vacant(id.stamp, s.seq + 1)]
          /\ r.tickets = s.tickets
          /\ r.seen = s.seen
      BY <2>1, RenewFields
    <2>5. r.entries[id.key].stamp = id.stamp
      <3>1. s.seq + 1 \in Nat /\ id.key \in DOMAIN s.entries
        BY <2>1, StoreTypes
      <3>2. r.entries[id.key] = Vacant(id.stamp, s.seq + 1)
        BY <2>4, <3>1
      <3> QED
        BY <2>1, <3>1, <3>2, VacantType
    <2> QED
      BY <1>2, <2>3, <2>4, <2>5 DEF Opened
  <1> QED
    BY <1>1, <1>2

LEMMA RetractedOK ==
    ASSUME NEW s, StoreOK(s), NEW id \in Identity, NEW c \in Caller,
           id.key \in HeldKeys(s), s.entries[id.key].stamp = id.stamp
    PROVE  LET r == Retracted(s, id, c)
           IN /\ StoreOK(r)
              /\ id.key \in HeldKeys(r)
              /\ r.entries[id.key].stamp = id.stamp
              /\ r.tickets = s.tickets
              /\ r.seen = s.seen
  <1> DEFINE again == /\ Retrying(s, id, c)
                      /\ s.seen[<<c, id.key>>] = s.entries[id.key].generation
  <1>1. CASE ~again
    BY <1>1 DEF Retracted
  <1>2. CASE again
    <2>1. id.key \in Key /\ id.stamp \in Stamp /\ s \in Store
      BY DEF Identity, StoreOK
    <2> DEFINE r == Renew(s, id.key, id.stamp)
    <2>2. StoreOK(r) /\ id.key \in HeldKeys(r)
      BY <2>1, RenewOK
    <2>3. /\ r.entries = [s.entries EXCEPT ![id.key] = Vacant(id.stamp, s.seq + 1)]
          /\ r.tickets = s.tickets
          /\ r.seen = s.seen
      BY <2>1, RenewFields
    <2>4. r.entries[id.key].stamp = id.stamp
      <3>1. s.seq + 1 \in Nat /\ id.key \in DOMAIN s.entries
        BY <2>1, StoreTypes
      <3>2. r.entries[id.key] = Vacant(id.stamp, s.seq + 1)
        BY <2>3, <3>1
      <3> QED
        BY <2>1, <3>1, <3>2, VacantType
    <2> QED
      BY <1>2, <2>2, <2>3, <2>4 DEF Retracted
  <1> QED
    BY <1>1, <1>2

LEMMA BeginOK ==
    ASSUME NEW s, StoreOK(s), NEW t \in Nat, NEW id \in Identity,
           NEW c \in Caller
    PROVE  /\ StoreOK(Begin(s, t, id, c).store)
           /\ Begin(s, t, id, c).lookup.reason = "hit"
                 => Begin(s, t, id, c).lookup.secret \in Secret
  <1>1. CASE TTL = 0
    BY <1>1 DEF Begin, NoLookup
  <1>2. CASE TTL # 0 /\ NoRoom(s, id, c)
    BY <1>2 DEF Begin, NoLookup
  <1>3. CASE TTL # 0 /\ ~NoRoom(s, id, c)
    <2> DEFINE o == Opened(s, id)
               r == Retracted(Opened(s, id), id, c)
               e == r.entries[id.key]
    <2>1. /\ StoreOK(o)
          /\ id.key \in HeldKeys(o)
          /\ o.entries[id.key].stamp = id.stamp
          /\ o.tickets = s.tickets
          /\ o.seen = s.seen
      BY <1>3, OpenedOK
    <2> HIDE DEF o
    <2>2. /\ StoreOK(r)
          /\ id.key \in HeldKeys(r)
          /\ r.entries[id.key].stamp = id.stamp
          /\ r.tickets = s.tickets
          /\ r.seen = s.seen
      BY <2>1, RetractedOK DEF o
    <2>3. /\ Begin(s, t, id, c).store =
                IF ~Retrying(s, id, c) /\ e.secret # NoSecret
                THEN Remember(r, id, c, e.generation)
                ELSE Issue(Remember(r, id, c, 0), id, c, t)
          /\ Begin(s, t, id, c).lookup.reason = "hit"
                => ~Retrying(s, id, c) /\ e.secret # NoSecret
                      /\ Begin(s, t, id, c).lookup.secret = e.secret
      BY <1>3 DEF Begin
    <2> HIDE DEF r
    <2>4. SeenPairs(r) = SeenPairs(s)
      BY <2>2 DEF SeenPairs
    <2>5. \/ id.key \in AgentKey
          \/ <<c, id.key>> \in SeenPairs(r)
          \/ Cardinality(SeenPairs(r)) < MaxCallers
      <3>1. <<c, id.key>> \in Caller \X Key
        BY DEF Identity
      <3>2. Retrying(s, id, c) => <<c, id.key>> \in SeenPairs(s)
        BY <3>1 DEF Retrying, SeenPairs
      <3> QED
        BY <1>3, <2>4, <3>2, KeysFinite, LimitsAssumption DEF NoRoom
    <2>6. Cardinality(r.tickets) < MaxTickets
      <3>1. Cardinality(s.tickets) \in Nat /\ MaxTickets \in Nat
        BY FS_CardinalityType, LimitsAssumption DEF StoreOK, WithinLimits
      <3> QED
        BY <1>3, <2>2, <3>1 DEF NoRoom
    <2>7. /\ r \in Store /\ r.seq \in Nat /\ e.generation \in 1..r.seq
          /\ e.secret \in Secret \cup {NoSecret}
      BY <2>2, StoreTypes, HeldTypes DEF StoreOK, NumbersUsedOnce
    <2>8. CASE ~Retrying(s, id, c) /\ e.secret # NoSecret
      <3>1. id.key \in FilledKeys(r)
        BY <2>2, <2>8 DEF FilledKeys
      <3>2. e.generation \in 0..r.seq
        BY <2>7
      <3>3. StoreOK(Remember(r, id, c, e.generation))
        BY <2>2, <2>5, <3>1, <3>2, RememberOK
      <3> QED
        BY <2>3, <2>7, <2>8, <3>3
    <2>9. CASE ~(~Retrying(s, id, c) /\ e.secret # NoSecret)
      <3> DEFINE m == Remember(r, id, c, 0)
      <3>1. 0 \in 0..r.seq /\ 0 # e.generation
        BY <2>7
      <3>2. /\ StoreOK(m)
            /\ m.entries = r.entries
            /\ m.tickets = r.tickets
            /\ id.key \notin AgentKey => <<c, id.key>> \in SeenPairs(m)
        BY <2>2, <2>5, <3>1, RememberOK
      <3> HIDE DEF m
      <3>3. id.key \in HeldKeys(m) /\ m.entries[id.key].stamp = id.stamp
        BY <2>2, <3>2 DEF HeldKeys
      <3>4. StoreOK(Issue(m, id, c, t))
        BY <2>6, <3>2, <3>3, IssueOK
      <3> QED
        BY <2>3, <2>9, <3>4 DEF m
    <2> QED
      BY <2>8, <2>9
  <1> QED
    BY <1>1, <1>2, <1>3

LEMMA CommitOK ==
    ASSUME NEW s, StoreOK(s), NEW t \in Nat, NEW token, NEW id \in Identity,
           NEW c \in Caller, NEW secret \in Secret \cup {NoSecret}
    PROVE  /\ StoreOK(Commit(s, t, token, id, c, secret).store)
           /\ Commit(s, t, token, id, c, secret).stored => secret \in Secret
  <1> DEFINE P == Presented(s, token, c)
             m == [s EXCEPT !.tickets = s.tickets \ P]
             good == \E k \in P : /\ k.id = id
                                  /\ Holds(s, id, k.generation)
                                  /\ secret # NoSecret
  <1>1. s \in Store /\ s.seq \in Nat
    BY StoreTypes DEF StoreOK
  <1>2. /\ m \in Store
        /\ m.seq = s.seq
        /\ m.entries = s.entries
        /\ m.tickets = s.tickets \ P
        /\ m.seen = s.seen
    <2>1. s.tickets \ P \in SUBSET Ticket
      BY <1>1, StoreTypes
    <2>2. \A T \in SUBSET Ticket : [s EXCEPT !.tickets = T] \in Store
      BY <1>1 DEF Store
    <2>3. m \in Store
      BY <2>1, <2>2
    <2> QED
      BY <1>1, <2>3 DEF Store
  <1>3. /\ Commit(s, t, token, id, c, secret).store =
              IF good THEN Remember(Fill(m, id, secret, t), id, c, s.seq + 1)
                      ELSE m
        /\ Commit(s, t, token, id, c, secret).stored = good
    BY DEF Commit
  <1> HIDE DEF m
  <1>4. HeldKeys(m) = HeldKeys(s) /\ SeenPairs(m) = SeenPairs(s)
    BY <1>2 DEF HeldKeys, SeenPairs
  <1>5. StoreOK(m)
    <2>1. LeasesTracked(m)
      BY <1>2, <1>4, StillTracked
    <2>2. /\ s.seq <= m.seq
          /\ m.tickets \subseteq s.tickets
          /\ \A p \in SeenPairs(m) : p \in SeenPairs(s) /\ m.seen[p] = s.seen[p]
          /\ \A k \in HeldKeys(m) : k \in HeldKeys(s) /\ m.entries[k] = s.entries[k]
      BY <1>1, <1>2, <1>4
    <2> QED
      BY <1>2, <2>1, <2>2, ShrinkOK
  <1>6. CASE ~good
    BY <1>3, <1>5, <1>6
  <1>7. CASE good
    <2>1. PICK k \in P : /\ k.id = id
                         /\ Holds(s, id, k.generation)
                         /\ secret # NoSecret
      BY <1>7
    <2>2. k \in s.tickets /\ k.caller = c
      BY DEF Presented
    <2>3. id.key \in HeldKeys(m) /\ secret \in Secret
      BY <1>4, <2>1 DEF Holds
    <2>4. id.key \notin AgentKey => <<c, id.key>> \in SeenPairs(m)
      BY <1>4, <2>1, <2>2 DEF StoreOK, LeasesTracked
    <2> DEFINE f == Fill(m, id, secret, t)
    <2>5. /\ StoreOK(f)
          /\ f.seq = s.seq + 1
          /\ id.key \in FilledKeys(f)
          /\ SeenPairs(f) = SeenPairs(m)
      BY <1>2, <1>5, <2>3, FillOK
    <2> HIDE DEF f
    <2>6. s.seq + 1 \in 0..f.seq
      BY <1>1, <2>5
    <2>7. StoreOK(Remember(f, id, c, s.seq + 1))
      BY <2>4, <2>5, <2>6, RememberOK
    <2> QED
      BY <1>3, <1>7, <2>3, <2>7 DEF f
  <1> QED
    BY <1>6, <1>7

LEMMA NewStoreOK == StoreOK(NewStore)
  <1> DEFINE s == NewStore
  <1>1. /\ s.seq = 0
        /\ s.entries = [k \in Key |-> Absent]
        /\ s.tickets = {}
        /\ s.seen = [p \in Caller \X Key |-> Absent]
        /\ s \in Store
    BY DEF NewStore, Store
  <1> HIDE DEF s
  <1>2. HeldKeys(s) = {} /\ SeenPairs(s) = {}
    BY <1>1 DEF HeldKeys, SeenPairs
  <1>3. WithinLimits(s)
    BY <1>1, <1>2, FS_EmptySet, LimitsAssumption DEF WithinLimits
  <1>4. /\ LeasesTracked(s)
        /\ NumbersUsedOnce(s)
        /\ GenerationsMeanWhatTheySay(s)
    BY <1>1, <1>2 DEF LeasesTracked, NumbersUsedOnce, GenerationsMeanWhatTheySay
  <1> QED
    BY <1>1, <1>3, <1>4 DEF StoreOK, s
---------------------------------------------------------------------------
(* Seen records: only Sweep drops them, and an answered Begin leaves one.  *)

LEMMA SeenAfterRemember ==
    ASSUME NEW s \in Store, NEW id \in Identity, NEW c \in Caller, NEW g \in Nat
    PROVE  /\ SeenPairs(s) \subseteq SeenPairs(Remember(s, id, c, g))
           /\ id.key \notin AgentKey
                 => <<c, id.key>> \in SeenPairs(Remember(s, id, c, g))
  <1> SUFFICES ASSUME NEW r, r = Remember(s, id, c, g)
               PROVE  /\ SeenPairs(s) \subseteq SeenPairs(r)
                      /\ id.key \notin AgentKey => <<c, id.key>> \in SeenPairs(r)
    OBVIOUS
  <1>1. r.seen = IF id.key \in AgentKey THEN s.seen
                 ELSE [s.seen EXCEPT ![<<c, id.key>>] = g]
    BY RememberFields
  <1>2. <<c, id.key>> \in Caller \X Key /\ g # Absent
    BY MarkersAssumption DEF Identity
  <1>3. DOMAIN s.seen = Caller \X Key
    BY StoreTypes
  <1> QED
    BY <1>1, <1>2, <1>3 DEF SeenPairs

LEMMA SeenAfterIssue ==
    ASSUME NEW s \in Store, NEW id \in Identity, NEW c \in Caller, NEW t \in Nat
    PROVE  SeenPairs(Issue(s, id, c, t)) = SeenPairs(s)
  <1>1. Issue(s, id, c, t).seen = s.seen
    BY DEF Issue, Store
  <1> QED
    BY <1>1 DEF SeenPairs

LEMMA SeenAfterBegin ==
    ASSUME NEW s, StoreOK(s), NEW t \in Nat, NEW id \in Identity,
           NEW c \in Caller
    PROVE  /\ SeenPairs(s) \subseteq SeenPairs(Begin(s, t, id, c).store)
           /\ id.key \notin AgentKey =>
                /\ Begin(s, t, id, c).lookup.reason \in {"hit", "miss"}
                      => <<c, id.key>> \in SeenPairs(Begin(s, t, id, c).store)
                /\ Begin(s, t, id, c).lookup.reason = "hit"
                      => <<c, id.key>> \notin SeenPairs(s)
  <1>1. CASE TTL = 0
    BY <1>1 DEF Begin, NoLookup
  <1>2. CASE TTL # 0 /\ NoRoom(s, id, c)
    BY <1>2 DEF Begin, NoLookup
  <1>3. CASE TTL # 0 /\ ~NoRoom(s, id, c)
    <2> DEFINE o == Opened(s, id)
               r == Retracted(Opened(s, id), id, c)
               e == r.entries[id.key]
    <2>1. /\ StoreOK(o)
          /\ id.key \in HeldKeys(o)
          /\ o.entries[id.key].stamp = id.stamp
          /\ o.seen = s.seen
      BY <1>3, OpenedOK
    <2> HIDE DEF o
    <2>2. /\ StoreOK(r)
          /\ id.key \in HeldKeys(r)
          /\ r.seen = s.seen
      BY <2>1, RetractedOK DEF o
    <2>3. /\ Begin(s, t, id, c).store =
                IF ~Retrying(s, id, c) /\ e.secret # NoSecret
                THEN Remember(r, id, c, e.generation)
                ELSE Issue(Remember(r, id, c, 0), id, c, t)
          /\ Begin(s, t, id, c).lookup.reason = "hit" => ~Retrying(s, id, c)
      BY <1>3 DEF Begin
    <2> HIDE DEF r
    <2>4. SeenPairs(r) = SeenPairs(s) /\ r \in Store /\ e.generation \in Nat
      BY <2>2, HeldTypes DEF SeenPairs, StoreOK
    <2>5. /\ SeenPairs(s) \subseteq SeenPairs(Begin(s, t, id, c).store)
          /\ id.key \notin AgentKey
                => <<c, id.key>> \in SeenPairs(Begin(s, t, id, c).store)
      <3>1. CASE ~Retrying(s, id, c) /\ e.secret # NoSecret
        <4>1. Begin(s, t, id, c).store = Remember(r, id, c, e.generation)
          BY <2>3, <3>1
        <4> HIDE DEF e
        <4> QED
          BY <2>4, <4>1, SeenAfterRemember
      <3>2. CASE ~(~Retrying(s, id, c) /\ e.secret # NoSecret)
        <4>1. Begin(s, t, id, c).store = Issue(Remember(r, id, c, 0), id, c, t)
          BY <2>3, <3>2
        <4>2. Remember(r, id, c, 0) \in Store
          BY <2>4, RememberFields
        <4>3. SeenPairs(Begin(s, t, id, c).store) = SeenPairs(Remember(r, id, c, 0))
          BY <4>1, <4>2, SeenAfterIssue
        <4> QED
          BY <2>4, <4>3, SeenAfterRemember
      <3> QED
        BY <3>1, <3>2
    <2> QED
      BY <2>3, <2>5 DEF Retrying, SeenPairs
  <1> QED
    BY <1>1, <1>2, <1>3

LEMMA SeenAfterFill ==
    ASSUME NEW s \in Store, NEW id \in Identity, NEW secret \in Secret,
           NEW t \in Nat
    PROVE  /\ Fill(s, id, secret, t) \in Store
           /\ SeenPairs(Fill(s, id, secret, t)) = SeenPairs(s)
  <1>1. Fill(s, id, secret, t) \in Store
    BY FillFields
  <1>2. Fill(s, id, secret, t).seen = s.seen
    BY DEF Fill, Store
  <1> QED
    BY <1>1, <1>2 DEF SeenPairs

LEMMA SeenAfterCommit ==
    ASSUME NEW s \in Store, NEW t \in Nat, NEW token, NEW id \in Identity,
           NEW c \in Caller, NEW secret \in Secret \cup {NoSecret}
    PROVE  SeenPairs(s) \subseteq SeenPairs(Commit(s, t, token, id, c, secret).store)
  <1> DEFINE P == Presented(s, token, c)
             m == [s EXCEPT !.tickets = s.tickets \ P]
             f == Fill(m, id, secret, t)
             good == \E k \in P : /\ k.id = id
                                  /\ Holds(s, id, k.generation)
                                  /\ secret # NoSecret
  <1>1. m \in Store /\ m.seen = s.seen
    <2>1. s.tickets \ P \in SUBSET Ticket
      BY StoreTypes
    <2>2. \A T \in SUBSET Ticket : [s EXCEPT !.tickets = T] \in Store
      BY DEF Store
    <2>3. m \in Store
      BY <2>1, <2>2
    <2> QED
      BY <2>3 DEF Store
  <1>2. SeenPairs(m) = SeenPairs(s)
    BY <1>1 DEF SeenPairs
  <1>3. Commit(s, t, token, id, c, secret).store =
           IF good THEN Remember(f, id, c, s.seq + 1) ELSE m
    BY DEF Commit
  <1> HIDE DEF m
  <1>4. ASSUME good
        PROVE  SeenPairs(s) \subseteq SeenPairs(Remember(f, id, c, s.seq + 1))
    <2>1. secret \in Secret
      BY <1>4
    <2>2. f \in Store /\ SeenPairs(f) = SeenPairs(m)
      BY <1>1, <2>1, SeenAfterFill
    <2> HIDE DEF f
    <2>4. s.seq + 1 \in Nat
      BY StoreTypes
    <2> QED
      BY <1>2, <2>2, <2>4, SeenAfterRemember
  <1> QED
    BY <1>2, <1>3, <1>4
LEMMA SeenAfterSweep ==
    ASSUME NEW s \in Store, NEW P, NEW T
    PROVE  \A p \in SeenPairs(s) : p \in P \/ p \in SeenPairs(Sweep(s, P, T))
  <1>1. Sweep(s, P, T).seen = [p \in Caller \X Key |->
                                  IF p \in P THEN Absent ELSE s.seen[p]]
    BY DEF Sweep, Pruned, Store
  <1> QED
    BY <1>1 DEF SeenPairs

---------------------------------------------------------------------------
(* Entries are never rewritten: an entry stays what it is, goes away, or   *)
(* makes room for a vacant one with a number nobody has seen.  Commit      *)
(* alone puts a secret in, under such a number.                            *)

Ages(s, t) ==
    /\ s.seq <= t.seq
    /\ \A k \in HeldKeys(t) :
          \/ k \in HeldKeys(s) /\ t.entries[k] = s.entries[k]
          \/ s.seq < t.entries[k].generation /\ t.entries[k].secret = NoSecret

Filled(s, t, id, secret) ==
    /\ s.seq <= t.seq
    /\ id.key \in HeldKeys(t)
    /\ s.seq < t.entries[id.key].generation
    /\ t.entries[id.key].stamp = id.stamp
    /\ t.entries[id.key].secret = secret
    /\ \A k \in HeldKeys(t) \ {id.key} :
          \/ k \in HeldKeys(s) /\ t.entries[k] = s.entries[k]
          \/ s.seq < t.entries[k].generation /\ t.entries[k].secret = NoSecret

LEMMA AgesReflexive ==
    ASSUME NEW s \in Store
    PROVE  Ages(s, s)
  BY StoreTypes DEF Ages

LEMMA AgesTransitive ==
    ASSUME NEW s \in Store, NEW t \in Store, NEW u \in Store,
           Ages(s, t), Ages(t, u)
    PROVE  Ages(s, u)
  <1>1. s.seq \in Nat /\ t.seq \in Nat /\ u.seq \in Nat
    BY StoreTypes
  <1>2. \A k \in HeldKeys(u) : u.entries[k].generation \in Nat
    BY HeldTypes
  <1>3. ASSUME NEW k \in HeldKeys(u)
        PROVE  \/ k \in HeldKeys(s) /\ u.entries[k] = s.entries[k]
               \/ s.seq < u.entries[k].generation /\ u.entries[k].secret = NoSecret
    <2>1. CASE k \in HeldKeys(t) /\ u.entries[k] = t.entries[k]
      BY <2>1 DEF Ages
    <2>2. CASE t.seq < u.entries[k].generation /\ u.entries[k].secret = NoSecret
      BY <1>1, <1>2, <2>2 DEF Ages
    <2> QED
      BY <2>1, <2>2 DEF Ages
  <1> QED
    BY <1>1, <1>3 DEF Ages

LEMMA AgesThenFilled ==
    ASSUME NEW s \in Store, NEW t \in Store, NEW u \in Store, NEW id, NEW secret,
           Ages(s, t), Filled(t, u, id, secret)
    PROVE  Filled(s, u, id, secret)
  <1>1. s.seq \in Nat /\ t.seq \in Nat /\ u.seq \in Nat
    BY StoreTypes
  <1>2. \A k \in HeldKeys(u) : u.entries[k].generation \in Nat
    BY HeldTypes
  <1>3. s.seq <= u.seq /\ s.seq < u.entries[id.key].generation
    BY <1>1, <1>2 DEF Ages, Filled
  <1>4. ASSUME NEW k \in HeldKeys(u) \ {id.key}
        PROVE  \/ k \in HeldKeys(s) /\ u.entries[k] = s.entries[k]
               \/ s.seq < u.entries[k].generation /\ u.entries[k].secret = NoSecret
    <2>1. CASE k \in HeldKeys(t) /\ u.entries[k] = t.entries[k]
      BY <2>1 DEF Ages
    <2>2. CASE t.seq < u.entries[k].generation /\ u.entries[k].secret = NoSecret
      BY <1>1, <1>2, <2>2 DEF Ages
    <2> QED
      BY <2>1, <2>2 DEF Filled
  <1> QED
    BY <1>3, <1>4 DEF Filled

\* Of a number that was drawn before, there is at most the old entry.
LEMMA OldNumbers ==
    ASSUME NEW s \in Store, NEW t \in Store, NEW k \in HeldKeys(t),
           t.entries[k].generation <= s.seq,
           \/ Ages(s, t)
           \/ \E id, secret : Filled(s, t, id, secret)
    PROVE  k \in HeldKeys(s) /\ t.entries[k] = s.entries[k]
  <1>1. s.seq \in Nat /\ t.entries[k].generation \in Nat
    BY StoreTypes, HeldTypes
  <1>2. ~(s.seq < t.entries[k].generation)
    BY <1>1
  <1> QED
    BY <1>2 DEF Ages, Filled

\* A store that keeps its entries, whatever happens to leases and records.
LEMMA AgesSameEntries ==
    ASSUME NEW s, NEW t, s.seq <= t.seq, t.entries = s.entries
    PROVE  Ages(s, t)
  BY DEF Ages, HeldKeys

LEMMA RenewAges ==
    ASSUME NEW s \in Store, NEW k \in Key, NEW stamp \in Stamp
    PROVE  Ages(s, Renew(s, k, stamp))
  <1> SUFFICES ASSUME NEW t, t = Renew(s, k, stamp)
               PROVE  Ages(s, t)
    OBVIOUS
  <1>1. /\ t.seq = s.seq + 1
        /\ t.entries = [s.entries EXCEPT ![k] = Vacant(stamp, s.seq + 1)]
        /\ s.seq \in Nat
        /\ s.seq + 1 \in Nat
    BY RenewFields, StoreTypes
  <1>2. /\ Vacant(stamp, s.seq + 1).generation = s.seq + 1
        /\ Vacant(stamp, s.seq + 1).secret = NoSecret
    BY <1>1, VacantType
  <1>3. \A j \in Key : t.entries[j] = IF j = k THEN Vacant(stamp, s.seq + 1)
                                      ELSE s.entries[j]
    BY <1>1, StoreTypes
  <1>4. s.seq < s.seq + 1 /\ s.seq <= s.seq + 1
    BY <1>1
  <1> QED
    BY <1>1, <1>2, <1>3, <1>4 DEF Ages, HeldKeys

LEMMA ExpireAges ==
    ASSUME NEW s, StoreOK(s), NEW t \in Nat, NEW r \in Expire(s, t)
    PROVE  Ages(s, r)
  <1>1. s \in Store /\ r \in Store
    BY ExpireFields DEF StoreOK
  <1>2. PICK g : ExpiredBy(s, t, r, g)
    BY <1>1, ExpireFields
  <1> DEFINE K == Overdue(s, t)
  <1>3. /\ g \in Numberings(s, K)
        /\ r.entries = Wiped(s, g)
        /\ r.seq = s.seq + Cardinality(K)
    BY <1>2 DEF ExpiredBy
  <1>4. /\ s.seq <= r.seq
        /\ \A k \in K : /\ r.entries[k] = Vacant(s.entries[k].stamp, g[k])
                        /\ g[k] \in (s.seq + 1)..r.seq
        /\ \A k \in Key \ K : r.entries[k] = s.entries[k]
    BY <1>1, <1>3, WipedType
  <1>5. K \subseteq HeldKeys(s) /\ HeldKeys(s) \subseteq Key /\ HeldKeys(r) \subseteq Key
    BY DEF Overdue, FilledKeys, HeldKeys
  <1> HIDE DEF K
  <1>6. s.seq \in Nat /\ r.seq \in Nat
    BY <1>1, StoreTypes
  <1>7. ASSUME NEW k \in HeldKeys(r)
        PROVE  \/ k \in HeldKeys(s) /\ r.entries[k] = s.entries[k]
               \/ s.seq < r.entries[k].generation /\ r.entries[k].secret = NoSecret
    <2>1. CASE k \in K
      <3>1. g[k] \in Nat /\ s.seq < g[k]
        BY <1>4, <1>6, <2>1
      <3>2. r.entries[k] = Vacant(s.entries[k].stamp, g[k])
        BY <1>4, <2>1
      <3>3. r.entries[k].generation = g[k] /\ r.entries[k].secret = NoSecret
        BY <3>2 DEF Vacant
      <3> QED
        BY <3>1, <3>3
    <2>2. CASE k \notin K
      BY <1>4, <1>5, <2>2 DEF HeldKeys
    <2> QED
      BY <2>1, <2>2
  <1> QED
    BY <1>4, <1>7 DEF Ages

LEMMA ForgetAges ==
    ASSUME NEW s \in Store, NEW K \in SUBSET Key
    PROVE  Ages(s, Forget(s, K))
  <1> SUFFICES ASSUME NEW t, t = Forget(s, K)
               PROVE  Ages(s, t)
    OBVIOUS
  <1>1. /\ s.seq <= t.seq
        /\ t.entries = [k \in Key |-> IF k \in K THEN Absent ELSE s.entries[k]]
    BY ForgetFields
  <1> QED
    BY <1>1 DEF Ages, HeldKeys

LEMMA SweepAges ==
    ASSUME NEW s \in Store, NEW P, NEW T
    PROVE  Ages(s, Sweep(s, P, T))
  <1> SUFFICES ASSUME NEW t, t = Sweep(s, P, T)
               PROVE  Ages(s, t)
    OBVIOUS
  <1> DEFINE U == Unneeded(Pruned(s, P, T))
  <1>1. /\ t \in Store
        /\ t.seq = s.seq
        /\ t.entries = [k \in Key |-> IF k \in U THEN Absent ELSE s.entries[k]]
    <2>1. /\ Sweep(s, P, T) \in Store
          /\ Sweep(s, P, T).seq = s.seq
          /\ Sweep(s, P, T).entries =
                [k \in Key |-> IF k \in U THEN Absent ELSE s.entries[k]]
          /\ Sweep(s, P, T).tickets = s.tickets \ T
          /\ Sweep(s, P, T).seen = [p \in Caller \X Key |->
                                        IF p \in P THEN Absent ELSE s.seen[p]]
          /\ \A l \in s.tickets \ T : l.id.key \notin U
      BY SweepFields, Zenon
    <2> QED
      BY <2>1, Zenon
  <1>2. s.seq \in Nat
    BY StoreTypes
  <1> HIDE DEF U
  <1> QED
    BY <1>1, <1>2 DEF Ages, HeldKeys

\* Reject also leaves no entry of the rejected generation behind.
LEMMA RejectAges ==
    ASSUME NEW s, StoreOK(s), NEW id \in Identity, NEW g
    PROVE  /\ Ages(s, Reject(s, id, g))
           /\ ~Holds(Reject(s, id, g), id, g)
  <1>1. s \in Store /\ id.key \in Key /\ id.stamp \in Stamp
    BY DEF StoreOK, Identity
  <1>2. CASE Holds(s, id, g)
    <2>1. Reject(s, id, g) = Renew(s, id.key, id.stamp)
      BY <1>2 DEF Reject
    <2>2. Ages(s, Renew(s, id.key, id.stamp))
      BY <1>1, RenewAges
    <2>3. g \in 1..s.seq /\ s.seq \in Nat
      BY <1>1, <1>2, StoreTypes DEF Holds, StoreOK, NumbersUsedOnce
    <2>4. Renew(s, id.key, id.stamp).entries =
             [s.entries EXCEPT ![id.key] = Vacant(id.stamp, s.seq + 1)]
      BY <1>1, RenewFields
    <2>5. Renew(s, id.key, id.stamp).entries[id.key] = Vacant(id.stamp, s.seq + 1)
      BY <1>1, <2>4, StoreTypes
    <2>6. Vacant(id.stamp, s.seq + 1).generation = s.seq + 1
      BY DEF Vacant
    <2>7. g # s.seq + 1
      BY <2>3
    <2>8. ~Holds(Renew(s, id.key, id.stamp), id, g)
      BY <2>5, <2>6, <2>7 DEF Holds
    <2> QED
      BY <2>1, <2>2, <2>8
  <1>3. CASE ~Holds(s, id, g)
    BY <1>1, <1>3, AgesReflexive DEF Reject
  <1> QED
    BY <1>2, <1>3

LEMMA OpenedAges ==
    ASSUME NEW s, StoreOK(s), NEW id \in Identity
    PROVE  Ages(s, Opened(s, id))
  <1>1. s \in Store /\ id.key \in Key /\ id.stamp \in Stamp
    BY DEF StoreOK, Identity
  <1>2. Ages(s, s) /\ Ages(s, Renew(s, id.key, id.stamp))
    BY <1>1, AgesReflexive, RenewAges
  <1> QED
    BY <1>2 DEF Opened

LEMMA RetractedAges ==
    ASSUME NEW s, StoreOK(s), NEW id \in Identity, NEW c \in Caller
    PROVE  Ages(s, Retracted(s, id, c))
  <1> SUFFICES ASSUME NEW r, r = Retracted(s, id, c)
               PROVE  Ages(s, r)
    OBVIOUS
  <1>1. s \in Store /\ id.key \in Key /\ id.stamp \in Stamp
    BY DEF StoreOK, Identity
  <1>2. Ages(s, s) /\ Ages(s, Renew(s, id.key, id.stamp))
    BY <1>1, AgesReflexive, RenewAges
  <1>3. r = s \/ r = Renew(s, id.key, id.stamp)
    BY Zenon DEF Retracted
  <1> QED
    BY <1>2, <1>3

LEMMA RememberKeeps ==
    ASSUME NEW s \in Store, NEW id \in Identity, NEW c \in Caller, NEW g \in Nat
    PROVE  /\ Remember(s, id, c, g) \in Store
           /\ Remember(s, id, c, g).seq = s.seq
           /\ Remember(s, id, c, g).entries = s.entries
  <1>1. CASE id.key \in AgentKey
    BY <1>1 DEF Remember
  <1>2. CASE id.key \notin AgentKey
    <2> SUFFICES ASSUME NEW r, r = Remember(s, id, c, g)
                 PROVE  r \in Store /\ r.seq = s.seq /\ r.entries = s.entries
      OBVIOUS
    <2>1. /\ r \in Store
          /\ r.seq = s.seq
          /\ r.entries = s.entries
          /\ r.tickets = s.tickets
          /\ r.seen = [s.seen EXCEPT ![<<c, id.key>>] = g]
      BY <1>2, RememberFields
    <2> QED
      BY <2>1
  <1> QED
    BY <1>1, <1>2

\* What Begin says of a lookup.
Lookup == [reason     : {"none", "disabled", "capacity", "hit", "miss"},
           generation : Nat,
           secret     : Secret \cup {NoSecret},
           token      : Nat]

\* Begin hands out nothing but an entry of its identity, with its number.
LEMMA BeginAges ==
    ASSUME NEW s, StoreOK(s), NEW t \in Nat, NEW id \in Identity,
           NEW c \in Caller
    PROVE  LET b == Begin(s, t, id, c)
           IN /\ Ages(s, b.store)
              /\ b.lookup \in Lookup
              /\ b.lookup.generation # 0 =>
                    Holds(b.store, id, b.lookup.generation)
              /\ b.lookup.generation <= b.store.seq
  <1> SUFFICES ASSUME NEW b, b = Begin(s, t, id, c)
               PROVE  /\ Ages(s, b.store)
                      /\ b.lookup \in Lookup
                      /\ b.lookup.generation # 0 =>
                            Holds(b.store, id, b.lookup.generation)
                      /\ b.lookup.generation <= b.store.seq
    OBVIOUS
  <1>0. s \in Store /\ s.seq \in Nat
    BY StoreTypes DEF StoreOK
  <1>1. CASE TTL = 0 \/ NoRoom(s, id, c)
    <2>1. /\ b.store = s
          /\ b.lookup \in {NoLookup("disabled"), NoLookup("capacity")}
      BY <1>1 DEF Begin
    <2>2. /\ NoLookup("disabled") \in Lookup /\ NoLookup("capacity") \in Lookup
          /\ NoLookup("disabled").generation = 0
          /\ NoLookup("capacity").generation = 0
      BY DEF NoLookup, Lookup
    <2>3. b.lookup \in Lookup /\ b.lookup.generation = 0
      BY <2>1, <2>2
    <2>4. b.lookup.generation <= b.store.seq
      BY <1>0, <2>1, <2>3
    <2> QED
      BY <1>0, <2>1, <2>3, <2>4, AgesReflexive
  <1>2. CASE TTL # 0 /\ ~NoRoom(s, id, c)
    <2> DEFINE o == Opened(s, id)
               r == Retracted(Opened(s, id), id, c)
               e == r.entries[id.key]
    <2>1. /\ StoreOK(o)
          /\ id.key \in HeldKeys(o)
          /\ o.entries[id.key].stamp = id.stamp
      BY <1>2, OpenedOK
    <2>2. Ages(s, o)
      BY OpenedAges
    <2> HIDE DEF o
    <2>3. /\ StoreOK(r)
          /\ id.key \in HeldKeys(r)
          /\ r.entries[id.key].stamp = id.stamp
      BY <2>1, RetractedOK DEF o
    <2>4. Ages(o, r)
      BY <2>1, RetractedAges DEF o
    <2>5. \/ /\ b.store = Remember(r, id, c, e.generation)
             /\ b.lookup = [reason |-> "hit", generation |-> e.generation,
                            secret |-> e.secret, token |-> 0]
          \/ /\ b.store = Issue(Remember(r, id, c, 0), id, c, t)
             /\ b.lookup = [reason |-> "miss", generation |-> 0,
                            secret |-> NoSecret, token |-> r.seq + 1]
      BY <1>2 DEF Begin
    <2> HIDE DEF r
    <2>6. /\ r \in Store /\ o \in Store /\ r.seq \in Nat
          /\ e.generation \in 1..r.seq
          /\ e.secret \in Secret \cup {NoSecret}
      BY <2>1, <2>3, StoreTypes, HeldTypes DEF StoreOK, NumbersUsedOnce
    <2>7. Ages(s, r)
      BY <1>0, <2>2, <2>4, <2>6, AgesTransitive
    <2>8. ASSUME b.store = Remember(r, id, c, e.generation),
                 b.lookup = [reason |-> "hit", generation |-> e.generation,
                             secret |-> e.secret, token |-> 0]
          PROVE  /\ Ages(s, b.store)
                 /\ b.lookup \in Lookup
                 /\ b.lookup.generation # 0 =>
                       Holds(b.store, id, b.lookup.generation)
                 /\ b.lookup.generation <= b.store.seq
      <3>1. e.generation \in Nat /\ e.generation <= r.seq
        BY <2>6
      <3> DEFINE m == Remember(r, id, c, e.generation)
      <3>2. m \in Store /\ m.seq = r.seq /\ m.entries = r.entries
        BY <2>6, <3>1, RememberKeeps
      <3> HIDE DEF e
      <3>3. b.lookup \in Lookup /\ b.lookup.generation = e.generation
        BY <2>6, <2>8, <3>1 DEF Lookup
      <3> HIDE DEF m
      <3>4. Ages(r, m)
        BY <2>6, <3>2, AgesSameEntries
      <3>5. Ages(s, m)
        BY <1>0, <2>6, <2>7, <3>2, <3>4, AgesTransitive
      <3>6. Holds(m, id, e.generation)
        BY <2>3, <3>2 DEF Holds, HeldKeys, e
      <3>7. b.store = m
        BY <2>8 DEF m
      <3> QED
        BY <3>1, <3>2, <3>3, <3>5, <3>6, <3>7
    <2>9. ASSUME b.store = Issue(Remember(r, id, c, 0), id, c, t),
                 b.lookup = [reason |-> "miss", generation |-> 0,
                             secret |-> NoSecret, token |-> r.seq + 1]
          PROVE  /\ Ages(s, b.store)
                 /\ b.lookup \in Lookup
                 /\ b.lookup.generation # 0 =>
                       Holds(b.store, id, b.lookup.generation)
                 /\ b.lookup.generation <= b.store.seq
      <3> DEFINE m == Remember(r, id, c, 0)
      <3>1. m \in Store /\ m.seq = r.seq /\ m.entries = r.entries
        <4>1. 0 \in Nat
          OBVIOUS
        <4> QED
          BY <2>6, <4>1, RememberKeeps
      <3> HIDE DEF m
      <3>2. /\ Issue(m, id, c, t).seq = m.seq + 1
            /\ Issue(m, id, c, t).entries = m.entries
        BY <3>1 DEF Issue, Store
      <3>3. b.store.seq = r.seq + 1 /\ b.store.entries = r.entries
        BY <2>9, <3>1, <3>2 DEF m
      <3>4. r.seq + 1 \in Nat /\ r.seq <= r.seq + 1 /\ s.seq <= r.seq
        BY <2>6, <2>7 DEF Ages
      <3>5. Ages(s, b.store)
        <4>1. s.seq <= b.store.seq
          BY <1>0, <2>6, <3>3, <3>4
        <4> QED
          BY <2>7, <3>3, <4>1 DEF Ages, HeldKeys
      <3>6. b.lookup \in Lookup /\ b.lookup.generation = 0
        BY <2>9, <3>4 DEF Lookup
      <3> QED
        BY <3>3, <3>4, <3>5, <3>6
    <2> QED
      BY <2>5, <2>8, <2>9
  <1> QED
    BY <1>1, <1>2

LEMMA CommitFills ==
    ASSUME NEW s, StoreOK(s), NEW t \in Nat, NEW token, NEW id \in Identity,
           NEW c \in Caller, NEW secret \in Secret \cup {NoSecret}
    PROVE  LET b == Commit(s, t, token, id, c, secret)
           IN /\ b.stored \in BOOLEAN
              /\ b.stored => Filled(s, b.store, id, secret)
              /\ ~b.stored => Ages(s, b.store)
  <1> SUFFICES ASSUME NEW b, b = Commit(s, t, token, id, c, secret)
               PROVE  /\ b.stored \in BOOLEAN
                      /\ b.stored => Filled(s, b.store, id, secret)
                      /\ ~b.stored => Ages(s, b.store)
    OBVIOUS
  <1> DEFINE P == Presented(s, token, c)
             m == [s EXCEPT !.tickets = s.tickets \ P]
             good == \E k \in P : /\ k.id = id
                                  /\ Holds(s, id, k.generation)
                                  /\ secret # NoSecret
  <1>1. s \in Store /\ s.seq \in Nat
    BY StoreTypes DEF StoreOK
  <1>2. m \in Store /\ m.seq = s.seq /\ m.entries = s.entries
    <2>1. s.tickets \ P \in SUBSET Ticket
      BY <1>1, StoreTypes
    <2>2. \A T \in SUBSET Ticket : [s EXCEPT !.tickets = T] \in Store
      BY <1>1 DEF Store
    <2>3. m \in Store
      BY <2>1, <2>2
    <2> QED
      BY <1>1, <2>3 DEF Store
  <1>3. /\ good => b.store = Remember(Fill(m, id, secret, t), id, c, s.seq + 1)
        /\ ~good => b.store = m
        /\ b.stored = good
    BY DEF Commit
  <1> HIDE DEF m
  <1>4. CASE ~good
    <2>1. s.seq <= m.seq
      BY <1>1, <1>2
    <2>2. Ages(s, m)
      BY <1>2, <2>1, AgesSameEntries
    <2>3. b.stored = FALSE /\ b.store = m
      BY <1>3, <1>4
    <2> QED
      BY <2>2, <2>3
  <1>5. CASE good
    <2>1. secret \in Secret /\ id.key \in HeldKeys(s) /\ id.key \in Key
      BY <1>5 DEF Holds, Identity
    <2> DEFINE e == [stamp |-> id.stamp, generation |-> s.seq + 1,
                     secret |-> secret, expires |-> t + TTL]
               f == Fill(m, id, secret, t)
               g == Remember(f, id, c, s.seq + 1)
    <2>2. /\ e \in Entry
          /\ f \in Store
          /\ f.seq = s.seq + 1
          /\ f.entries = [s.entries EXCEPT ![id.key] = e]
      <3>1. LET d == [stamp |-> id.stamp, generation |-> m.seq + 1,
                      secret |-> secret, expires |-> t + TTL]
            IN /\ d \in Entry
               /\ f \in Store
               /\ f.seq = m.seq + 1
               /\ f.entries = [m.entries EXCEPT ![id.key] = d]
        BY <1>2, <2>1, FillFields
      <3> QED
        BY <1>2, <3>1
    <2>3. e # Absent /\ e.stamp = id.stamp /\ e.generation = s.seq + 1 /\ e.secret = secret
      BY <2>2, MarkersAssumption
    <2>4. b.stored = TRUE /\ b.store = g
      BY <1>3, <1>5
    <2> HIDE DEF e, f
    <2>5. g.seq = s.seq + 1 /\ g.entries = f.entries
      <3>1. s.seq + 1 \in Nat
        BY <1>1
      <3> QED
        BY <2>2, <3>1, RememberKeeps
    <2> HIDE DEF g
    <2>6. \A k \in Key : g.entries[k] = IF k = id.key THEN e ELSE s.entries[k]
      BY <1>1, <2>2, <2>5, StoreTypes
    <2>7. s.seq <= s.seq + 1 /\ s.seq < s.seq + 1
      BY <1>1
    <2>8. Filled(s, g, id, secret)
      BY <2>1, <2>3, <2>5, <2>6, <2>7 DEF Filled, HeldKeys
    <2> QED
      BY <2>4, <2>8
  <1> QED
    BY <1>4, <1>5
===========================================================================
