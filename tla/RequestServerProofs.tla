------------------------ MODULE RequestServerProofs ------------------------
(***************************************************************************)
(* Theorems about RequestServer for any number of keys, goroutines and     *)
(* slots.                                                                  *)
(***************************************************************************)
EXTENDS RequestServer, FiniteSetTheorems, TLAPS

\* What wg.Wait has waited for when the cache is wiped.
Quiet == ~sweeping /\ \A h \in Handler : conn[h] = Free

\* ServerInv made inductive: from the moment at which Serve has waited for all
\* goroutines none is there that could use the cache.
ShutdownInv ==
    /\ ServerInv
    /\ serve \in {"wipe", "over"} => Quiet /\ ~listening

Busy == {h \in Handler : conn[h] # Free}

LEMMA SlotsMatchBusy == SlotsMatch <=> slots = Cardinality(Busy)
  BY DEF SlotsMatch, Busy

\* A record is of the type that TypeOK gives conn[h].
Conns == [at : Places, name : Key \cup {NoKey}, key : Key \cup {NoKey}]

LEMMA AtIsConn ==
  ASSUME NEW place \in Places
  PROVE  /\ At(place) \in Conns
         /\ At(place).at = place
         /\ place # "free" => At(place) # Free
  BY DEF At, Free, Conns

LEMMA BusyIsFinite ==
  /\ IsFiniteSet(Busy) /\ Cardinality(Busy) \in Nat
  /\ Cardinality(Busy) <= Cardinality(Handler)
  <1>1. Busy \subseteq Handler
    BY DEF Busy
  <1> QED
    BY <1>1, ServerAssumption, FS_Subset, FS_CardinalityType

\* A slot is free only while a goroutine is unused.
LEMMA IdleIsFree ==
  ASSUME TypeOK, SlotsMatch, SlotFree
  PROVE  Idle \in Handler /\ conn[Idle] = Free
  <1>1. \E h \in Handler : conn[h] = Free
    <2> SUFFICES ASSUME \A h \in Handler : conn[h] # Free
                 PROVE  FALSE
      OBVIOUS
    <2>1. Busy = Handler
      BY DEF Busy
    <2>2. slots = Cardinality(Handler)
      BY <2>1, SlotsMatchBusy
    <2>3. Cardinality(Handler) \in Nat
      BY ServerAssumption, FS_CardinalityType
    <2> QED
      BY <2>2, <2>3, ServerAssumption DEF SlotFree
  <1> QED
    BY <1>1 DEF Idle

---------------------------------------------------------------------------
(* The cache.                                                              *)

\* The part of TypeOK that the store's methods disturb.
StoreTypes ==
    /\ secret \in [Key -> {"none", "fresh", "overdue"}]
    /\ leased \subseteq Key
    /\ old \in [Handler -> SUBSET Key]

LEMMA StillThereTyped ==
  ASSUME StoreTypes
  PROVE  \A h \in Handler : StillThere[h] = old[h] \cap Occupied' /\ StillThere[h] \subseteq Key
  BY DEF StillThere, StoreTypes

LEMMA BecomesTyped ==
  ASSUME StoreTypes,
         NEW s \in [Key -> {"none", "fresh", "overdue"}], NEW l \in SUBSET Key,
         Becomes(s, l)
  PROVE  StoreTypes'
  BY StillThereTyped DEF Becomes, StoreTypes, StillThere

LEMMA TimelyTyped ==
  ASSUME StoreTypes
  PROVE  Timely \in [Key -> {"none", "fresh", "overdue"}]
  BY DEF StoreTypes, Timely

LEMMA ClearTyped ==
  ASSUME StoreTypes, NEW K, Clear(K)
  PROVE  /\ secret' \in [Key -> {"none", "fresh", "overdue"}] /\ leased' \subseteq Key
         /\ Occupied' \cap K = {}
  BY DEF Clear, StoreTypes, Occupied

LEMMA ForgetTyped ==
  ASSUME StoreTypes, NEW K, Forget(K)
  PROVE  StoreTypes'
  BY ClearTyped, StillThereTyped DEF Forget, StoreTypes, StillThere

LEMMA BeginTyped ==
  ASSUME StoreTypes, NEW k \in Key, Begin(k)
  PROVE  StoreTypes'
  <1>1. leased \ Overdue \in SUBSET Key
    BY DEF StoreTypes
  <1>2. (leased \ Overdue) \cup {k} \in SUBSET Key
    BY <1>1
  <1>3. [Timely EXCEPT ![k] = "none"] \in [Key -> {"none", "fresh", "overdue"}]
    BY TimelyTyped
  <1> QED
    BY <1>1, <1>2, <1>3, TimelyTyped, BecomesTyped DEF Begin

LEMMA CommitTyped ==
  ASSUME StoreTypes, NEW k \in Key, Commit(k)
  PROVE  StoreTypes'
  <1>1. /\ leased \ Overdue \in SUBSET Key
        /\ (leased \ Overdue) \ {k} \in SUBSET Key
    BY DEF StoreTypes
  <1>2. [Timely EXCEPT ![k] = "fresh"] \in [Key -> {"none", "fresh", "overdue"}]
    BY TimelyTyped
  <1> QED
    BY <1>1, <1>2, TimelyTyped, BecomesTyped DEF Commit

\* A cache call while Serve or a goroutine runs.
LEMMA CacheUsed ==
  ASSUME ShutdownInv, StoreTypes', serve # "over",
         UNCHANGED <<server, conn, resolves>>
  PROVE  ShutdownInv'
  BY DEF ShutdownInv, ServerInv, TypeOK, SlotsMatch, NothingAfterWipe, Quiet,
         StoreTypes, server

---------------------------------------------------------------------------
(* The goroutines.                                                         *)

LEMMA RunningMeans ==
  ASSUME ShutdownInv, NEW h \in Handler, conn[h] # Free
  PROVE  serve \notin {"wipe", "over"}
  BY DEF ShutdownInv, Quiet

\* A goroutine goes from one place of handle to another.
LEMMA Proceeds ==
  ASSUME ShutdownInv, NEW h \in Handler, conn[h] # Free,
         NEW to \in Conns, to # Free, Goes(h, to), StoreTypes'
  PROVE  ShutdownInv'
  <1>1. TypeOK /\ SlotsMatch /\ serve \notin {"wipe", "over"}
    BY RunningMeans DEF ShutdownInv, ServerInv
  <1>2. conn' \in [Handler -> Conns]
    BY <1>1 DEF TypeOK, Goes, Conns
  <1>3. \A g \in Handler : conn'[g] = IF g = h THEN to ELSE conn[g]
    BY <1>1 DEF TypeOK, Goes
  <1>4. Busy' = Busy
    BY <1>3 DEF Busy
  <1>5. SlotsMatch'
    BY <1>1, <1>4 DEF Goes, server, SlotsMatch, Busy
  <1>6. TypeOK'
    BY <1>1, <1>2 DEF TypeOK, Goes, StoreTypes, Conns, server
  <1> QED
    BY <1>1, <1>5, <1>6 DEF ShutdownInv, ServerInv, NothingAfterWipe, Goes, server

\* A goroutine returns and gives its slot back.
LEMMA Finishes ==
  ASSUME ShutdownInv, NEW h \in Handler, conn[h] # Free, Finish(h)
  PROVE  ShutdownInv'
  <1>1. TypeOK /\ SlotsMatch /\ serve \notin {"wipe", "over"}
    BY RunningMeans DEF ShutdownInv, ServerInv
  <1>2. \A g \in Handler : conn'[g] = IF g = h THEN Free ELSE conn[g]
    BY <1>1 DEF TypeOK, Finish
  <1>3. Busy' = Busy \ {h} /\ h \in Busy
    BY <1>2 DEF Busy
  <1>4. Cardinality(Busy') = Cardinality(Busy) - 1
    BY <1>3, BusyIsFinite, FS_RemoveElement
  <1>5. slots' = slots - 1 /\ slots = Cardinality(Busy)
    BY <1>1, SlotsMatchBusy DEF Finish, SlotReturned
  <1>6. SlotsMatch'
    BY <1>4, <1>5 DEF SlotsMatch, Busy
  <1>7. Cardinality(Busy) # 0
    BY <1>3, BusyIsFinite, FS_EmptySet
  <1>8. slots' \in 0..MaxConnections
    BY <1>1, <1>5, <1>7, BusyIsFinite, ServerAssumption DEF TypeOK
  <1>9. Free \in Conns
    BY DEF Free, Conns, Places
  <1>10. conn' \in [Handler -> Conns]
    BY <1>1, <1>9 DEF TypeOK, Finish, Conns
  <1>11. TypeOK'
    BY <1>1, <1>8, <1>10 DEF TypeOK, Finish, Conns, store
  <1> QED
    BY <1>1, <1>6, <1>11 DEF ShutdownInv, ServerInv, NothingAfterWipe, Finish, store

LEMMA GoroutineStep ==
  ASSUME ShutdownInv, NEW h \in Handler,
         Serves(h) \/ Ask(h) \/ EndAsk(h) \/ CancelAsk(h)
  PROVE  ShutdownInv'
  <1>1. TypeOK /\ StoreTypes /\ conn[h] \in Conns
    BY DEF ShutdownInv, ServerInv, TypeOK, StoreTypes, Conns
  <1>2. Free.at = "free"
    BY DEF Free
  <1>3. \A n \in Key : resolves[n] \in Key \cup {NoKey}
    BY <1>1 DEF TypeOK
  <1>4. CASE Control(h)
    <2>1. conn[h] # Free /\ Goes(h, At("reply"))
      BY <1>2, <1>4 DEF Control
    <2>2. StoreTypes'
      BY <1>1, <1>3, <1>4, BeginTyped, CommitTyped, ForgetTyped DEF Control
    <2> QED
      BY <2>1, <2>2, AtIsConn, Proceeds DEF Places
  <1>5. CASE ReadForget(h)
    <2>1. PICK n \in Key :
            /\ Goes(h, [At("forget") EXCEPT !.name = n])
            /\ old' = [old EXCEPT ![h] = {n, resolves[n]} \cap Occupied]
      BY <1>5 DEF ReadForget
    <2>2. Occupied \subseteq Key
      BY <1>1 DEF Occupied, StoreTypes
    <2>3. StoreTypes'
      BY <1>1, <1>5, <2>1, <2>2 DEF StoreTypes, ReadForget
    <2>4. [At("forget") EXCEPT !.name = n] \in Conns
      BY DEF At, Free, Conns, Places
    <2>5. [At("forget") EXCEPT !.name = n] # Free
      BY DEF At, Free
    <2>6. conn[h] # Free
      BY <1>2, <1>5 DEF ReadForget
    <2> QED
      BY <2>1, <2>3, <2>4, <2>5, <2>6, Proceeds
  <1>6. CASE ForgetGiven(h)
    <2>1. conn[h] # Free /\ Goes(h, [conn[h] EXCEPT !.at = "between"])
      BY <1>2, <1>6 DEF ForgetGiven
    <2>2. [conn[h] EXCEPT !.at = "between"] \in Conns
      BY <1>1 DEF Conns, Places
    <2>3. [conn[h] EXCEPT !.at = "between"] # Free
      BY <1>1 DEF Conns, Free
    <2>4. StoreTypes'
      BY <1>1, <1>6, ForgetTyped DEF ForgetGiven
    <2> QED
      BY <2>1, <2>2, <2>3, <2>4, Proceeds
  <1>7. CASE ForgetResolved(h)
    <2>1. conn[h] # Free /\ Goes(h, At("reply"))
      BY <1>2, <1>7 DEF ForgetResolved
    <2>2. StoreTypes'
      BY <1>1, <1>7, ClearTyped, StillThereTyped DEF ForgetResolved, StoreTypes, StillThere
    <2> QED
      BY <2>1, <2>2, AtIsConn, Proceeds DEF Places
  <1>8. CASE StartAsk(h)
    <2>1. PICK n \in Key :
            Goes(h, [At("ask") EXCEPT !.name = n, !.key = resolves[n]])
      BY <1>8 DEF StartAsk
    <2>2. [At("ask") EXCEPT !.name = n, !.key = resolves[n]] \in Conns
      BY <1>3 DEF At, Free, Conns, Places
    <2>3. [At("ask") EXCEPT !.name = n, !.key = resolves[n]] # Free
      BY DEF At, Free
    <2>4. StoreTypes' /\ conn[h] # Free
      BY <1>1, <1>2, <1>8 DEF StartAsk, store, StoreTypes
    <2> QED
      BY <2>1, <2>2, <2>3, <2>4, Proceeds
  <1>9. CASE Ask(h)
    <2>1. conn[h] # Free /\ conn[h].key \in Key
      BY <1>1, <1>2, <1>9 DEF Ask, Conns
    <2>2. StoreTypes'
      BY <1>1, <1>9, <2>1, BeginTyped, CommitTyped, ForgetTyped DEF Ask
    <2>3. UNCHANGED <<server, conn, resolves>>
      BY <1>9 DEF Ask
    <2> QED
      BY <2>1, <2>2, <2>3, RunningMeans, CacheUsed
  <1>10. CASE EndControl(h) \/ EndAsk(h) \/ CancelAsk(h)
    <2>1. conn[h] # Free /\ Finish(h)
      BY <1>2, <1>10 DEF EndControl, EndAsk, CancelAsk
    <2> QED
      BY <2>1, Finishes
  <1> QED
    BY <1>4, <1>5, <1>6, <1>7, <1>8, <1>9, <1>10 DEF Serves

---------------------------------------------------------------------------
(* Serve.                                                                  *)

LEMMA AcceptStep == ASSUME ShutdownInv, Accept PROVE ShutdownInv'
  <1>1. TypeOK /\ SlotsMatch /\ serve = "accept" /\ serve' = "accept"
    BY DEF ShutdownInv, ServerInv, Accept
  <1>2. CASE Refused /\ UNCHANGED <<slots, conn>>
    <2>1. TypeOK'
      BY <1>1, <1>2, ServerAssumption DEF TypeOK, Accept, store
    <2> QED
      BY <1>1, <1>2, <2>1 DEF ShutdownInv, ServerInv, SlotsMatch, NothingAfterWipe
  <1>3. CASE SlotFree /\ slots' = slots + 1 /\ conn' = [conn EXCEPT ![Idle] = At("frame")]
    <2>1. Idle \in Handler /\ conn[Idle] = Free
      BY <1>1, <1>3, IdleIsFree
    <2>2. At("frame") \in Conns /\ At("frame") # Free
      BY AtIsConn DEF Places
    <2> DEFINE i == Idle
    <2>3. \A g \in Handler : conn'[g] = IF g = i THEN At("frame") ELSE conn[g]
      BY <1>1, <1>3, <2>1 DEF TypeOK
    <2>4. Busy' = Busy \cup {i} /\ i \notin Busy
      <3> HIDE DEF i
      <3>1. i \in Handler /\ conn[i] = Free
        BY <2>1 DEF i
      <3> QED
        BY <2>2, <2>3, <3>1 DEF Busy
    <2>5. Cardinality(Busy') = Cardinality(Busy) + 1
      BY <2>4, BusyIsFinite, FS_AddElement
    <2>6. SlotsMatch'
      BY <1>1, <1>3, <2>5, SlotsMatchBusy DEF SlotsMatch, Busy
    <2>7. slots' \in 0..MaxConnections
      BY <1>1, <1>3, ServerAssumption DEF TypeOK, SlotFree
    <2>8. conn' \in [Handler -> Conns]
      BY <1>1, <1>3, <2>2 DEF TypeOK, Conns
    <2>9. waiting' \in 0..MaxWaiting
      BY <1>1, ServerAssumption DEF TypeOK, Accept
    <2>10. TypeOK'
      BY <1>1, <2>7, <2>8, <2>9 DEF TypeOK, Accept, Conns, store
    <2> QED
      BY <1>1, <2>6, <2>10 DEF ShutdownInv, ServerInv, NothingAfterWipe
  <1> QED
    BY <1>2, <1>3 DEF Accept

\* A step of Serve or the world that leaves goroutines, slots and cache alone.
LEMMA Elsewhere ==
  ASSUME ShutdownInv, TypeOK', UNCHANGED <<slots, conn, secret, leased>>,
         sweeping' => sweeping, listening' => listening,
         serve' \in {"wipe", "over"} => serve' = serve \/ (Quiet /\ ~listening'),
         serve' = "over" => serve = "over"
  PROVE  ShutdownInv'
  BY DEF ShutdownInv, ServerInv, SlotsMatch, NothingAfterWipe, Quiet, Occupied

LEMMA ServerStep == ShutdownInv /\ [Next]_vars => ShutdownInv'
  <1> SUFFICES ASSUME ShutdownInv, [Next]_vars
               PROVE  ShutdownInv'
    OBVIOUS
  <1>1. TypeOK /\ StoreTypes
    BY DEF ShutdownInv, ServerInv, TypeOK, StoreTypes
  <1>2. CASE LeaveLoop
    BY <1>1, <1>2, Elsewhere DEF LeaveLoop, TypeOK, store
  <1>3. CASE CloseListener
    <2>1. TypeOK'
      <3>1. 0 \in 0..MaxWaiting
        BY ServerAssumption
      <3>2. {stop', listening', sweeping'} \subseteq BOOLEAN
        BY <1>1, <1>3 DEF CloseListener, TypeOK
      <3> QED
        BY <1>1, <1>3, <3>1, <3>2 DEF CloseListener, TypeOK, store
    <2>2. UNCHANGED <<serve, sweeping, slots, conn, secret, leased>> /\ ~listening'
      BY <1>3 DEF CloseListener, store
    <2> QED
      BY <2>1, <2>2, Elsewhere
  <1>4. CASE Drain
    <2>1. TypeOK'
      <3>1. 0 \in 0..MaxWaiting
        BY ServerAssumption
      <3>2. {stop', listening', sweeping'} \subseteq BOOLEAN
        BY <1>1, <1>4 DEF Drain, TypeOK
      <3> QED
        BY <1>1, <1>4, <3>1, <3>2 DEF Drain, TypeOK, store
    <2>2. /\ UNCHANGED <<sweeping, slots, conn, secret, leased>>
          /\ serve' = "wipe" /\ ~listening' /\ Quiet
      BY <1>4 DEF Drain, AllEnded, Quiet, store
    <2> QED
      BY <2>1, <2>2, Elsewhere
  <1>5. CASE Wipe
    <2>1. StoreTypes'
      BY <1>1, <1>5, ForgetTyped DEF Wipe
    <2>2. \A k \in Key : secret'[k] = "none"
      BY <1>5 DEF Wipe, Forget, Clear
    <2>3. leased' = {}
      BY <1>1, <1>5 DEF Wipe, Forget, Clear, StoreTypes
    <2>4. Occupied' = {}
      BY <2>2, <2>3 DEF Occupied
    <2>5. Quiet /\ ~listening
      BY <1>5 DEF Wipe, ShutdownInv
    <2> QED
      BY <1>1, <1>5, <2>1, <2>4, <2>5
         DEF Wipe, ShutdownInv, ServerInv, TypeOK, SlotsMatch, NothingAfterWipe,
             Quiet, StoreTypes
  <1>6. CASE Sweep
    <2>1. leased \ Overdue \in SUBSET Key
      BY <1>1 DEF StoreTypes
    <2>2. StoreTypes'
      BY <1>1, <1>6, <2>1, TimelyTyped, BecomesTyped DEF Sweep, SweptSecrets
    <2>3. serve # "over"
      BY <1>6 DEF Sweep, ShutdownInv, Quiet
    <2> QED
      BY <1>6, <2>2, <2>3, CacheUsed DEF Sweep
  <1>7. CASE EndSweeps
    BY <1>1, <1>7, Elsewhere DEF EndSweeps, TypeOK, store
  <1>8. CASE Connect
    BY <1>1, <1>8, Elsewhere, ServerAssumption DEF Connect, TypeOK, store
  <1>9. CASE TimePasses
    <2>1. PICK k \in Key :
            \/ secret[k] = "fresh" /\ Becomes([secret EXCEPT ![k] = "overdue"], leased)
            \/ k \in leased /\ Becomes(secret, leased \ {k})
      BY <1>9 DEF TimePasses
    <2>2. k \in Occupied
      BY <2>1 DEF Occupied
    <2>3. serve # "over"
      BY <2>2 DEF ShutdownInv, ServerInv, NothingAfterWipe
    <2>4. [secret EXCEPT ![k] = "overdue"] \in [Key -> {"none", "fresh", "overdue"}]
      BY <1>1 DEF StoreTypes
    <2>5. leased \in SUBSET Key /\ leased \ {k} \in SUBSET Key
          /\ secret \in [Key -> {"none", "fresh", "overdue"}]
      BY <1>1 DEF StoreTypes
    <2>6. StoreTypes'
      BY <1>1, <2>1, <2>4, <2>5, BecomesTyped
    <2> QED
      BY <1>9, <2>3, <2>6, CacheUsed DEF TimePasses
  <1>10. CASE Relink
    <2>1. resolves' \in [Key -> Key \cup {NoKey}]
      BY <1>1, <1>10, ServerAssumption DEF Relink, TypeOK
    <2>2. UNCHANGED <<server, conn, store>>
      BY <1>10 DEF Relink
    <2> QED
      BY <1>1, <2>1, <2>2, Elsewhere DEF TypeOK, server, store
  <1>11. CASE Stop
    BY <1>1, <1>11, Elsewhere DEF Stop, TypeOK, store
  <1>12. CASE UNCHANGED vars
    BY <1>1, <1>12, Elsewhere DEF vars, server, store, TypeOK
  <1> QED
    BY <1>2, <1>3, <1>4, <1>5, <1>6, <1>7, <1>8, <1>9, <1>10, <1>11, <1>12,
       AcceptStep, GoroutineStep DEF Next, ServeStep

LEMMA ServerInitial == Init => ShutdownInv
  <1> SUFFICES ASSUME Init PROVE ShutdownInv
    OBVIOUS
  <1>1. Busy = {}
    BY DEF Init, Busy
  <1>2. SlotsMatch
    BY <1>1, FS_EmptySet, SlotsMatchBusy DEF Init
  <1>3. Free \in [at : Places, name : Key \cup {NoKey}, key : Key \cup {NoKey}]
    BY DEF Free, Places
  <1>4. slots \in 0..MaxConnections /\ waiting \in 0..MaxWaiting
    BY ServerAssumption DEF Init
  <1>5. resolves \in [Key -> Key \cup {NoKey}]
    BY DEF Init
  <1>6. TypeOK
    BY <1>3, <1>4, <1>5 DEF Init, TypeOK
  <1> QED
    BY <1>2, <1>6 DEF Init, ShutdownInv, ServerInv, NothingAfterWipe

\* Slots are taken exactly by running goroutines, and once Serve has returned
\* nothing is cached and nobody is left who could cache anything.
THEOREM ServerInvariant == Spec => []ServerInv
  <1>1. ShutdownInv => ServerInv
    BY DEF ShutdownInv
  <1> QED
    BY ServerInitial, ServerStep, <1>1, PTL DEF Spec
---------------------------------------------------------------------------
(* A forget.                                                               *)

\* Between the calls of a forget nothing is left of what the path given held.
GivenIsGone(h) == conn[h].at = "between" => conn[h].name \notin old[h]

ForgetsOK == \A h \in Handler : GivenIsGone(h)

LEMMA BecomesShrinks ==
  ASSUME NEW s, NEW l, Becomes(s, l)
  PROVE  \A h \in Handler : old'[h] \subseteq old[h]
  BY DEF Becomes, StillThere

LEMMA ForgetClears ==
  ASSUME StoreTypes, NEW K, Forget(K)
  PROVE  \A h \in Handler : old'[h] \subseteq old[h] \ K
  <1>1. \A h \in Handler : old'[h] = old[h] \cap Occupied'
    BY DEF Forget, StillThere
  <1>2. Occupied' \cap K = {}
    BY ClearTyped DEF Forget
  <1> QED
    BY <1>1, <1>2

LEMMA CallsShrink ==
  ASSUME StoreTypes, NEW k, Begin(k) \/ Commit(k) \/ Forget(k)
  PROVE  \A h \in Handler : old'[h] \subseteq old[h]
  BY BecomesShrinks, ForgetClears DEF Begin, Commit

\* A step that takes no forget between its two calls.
LEMMA ForgetsElsewhere ==
  ASSUME ForgetsOK,
         \A h \in Handler : \/ conn'[h] = conn[h] /\ old'[h] \subseteq old[h]
                            \/ conn'[h].at # "between"
  PROVE  ForgetsOK'
  BY DEF ForgetsOK, GivenIsGone

LEMMA GoroutineForgets ==
  ASSUME ShutdownInv, ShutdownInv', ForgetsOK, NEW h \in Handler,
         Serves(h) \/ Ask(h) \/ EndAsk(h) \/ CancelAsk(h)
  PROVE  ForgetsOK'
  <1>1. TypeOK /\ StoreTypes /\ StoreTypes' /\ conn[h] \in Conns
    BY DEF ShutdownInv, ServerInv, TypeOK, StoreTypes, Conns
  <1>2. ASSUME NEW to, Goes(h, to)
        PROVE  /\ conn'[h] = to /\ resolves' = resolves
               /\ \A g \in Handler : g # h => conn'[g] = conn[g]
    BY <1>1, <1>2 DEF Goes, TypeOK
  <1>3. \A p : At(p).at = p
    BY DEF At, Free
  <1>4. CASE Control(h)
    <2>1. \A g \in Handler : old'[g] \subseteq old[g]
      BY <1>1, <1>4, CallsShrink DEF Control
    <2> QED
      BY <1>1, <1>2, <1>3, <1>4, <2>1, ForgetsElsewhere DEF Control
  <1>5. CASE ReadForget(h)
    <2>1. PICK n \in Key :
            /\ Goes(h, [At("forget") EXCEPT !.name = n])
            /\ old' = [old EXCEPT ![h] = {n, resolves[n]} \cap Occupied]
      BY <1>5 DEF ReadForget
    <2>2. conn'[h].at = "forget"
      <3>1. [At("forget") EXCEPT !.name = n].at = "forget"
        BY DEF At, Free
      <3> QED
        BY <1>2, <2>1, <3>1
    <2>3. \A g \in Handler : g # h => old'[g] = old[g] /\ conn'[g] = conn[g]
      BY <1>1, <1>2, <2>1 DEF StoreTypes
    <2> QED
      BY <2>2, <2>3, ForgetsElsewhere
  <1>6. CASE ForgetGiven(h)
    <2>1. \A g \in Handler : old'[g] \subseteq old[g] \ {conn[h].name}
      BY <1>1, <1>6, ForgetClears DEF ForgetGiven, Given
    <2>2. /\ conn'[h].name = conn[h].name
          /\ \A g \in Handler : g # h => conn'[g] = conn[g]
      BY <1>1, <1>2, <1>6 DEF ForgetGiven, Conns
    <2>3. GivenIsGone(h)'
      BY <2>1, <2>2 DEF GivenIsGone
    <2>4. ASSUME NEW g \in Handler, g # h PROVE GivenIsGone(g)'
      BY <2>1, <2>2, <2>4 DEF ForgetsOK, GivenIsGone
    <2> QED
      BY <2>3, <2>4 DEF ForgetsOK
  <1>7. CASE ForgetResolved(h)
    <2>1. \A g \in Handler : g # h => old'[g] \subseteq old[g]
      BY <1>7 DEF ForgetResolved, StillThere
    <2>2. conn'[h].at = "reply" /\ \A g \in Handler : g # h => conn'[g] = conn[g]
      BY <1>2, <1>3, <1>7 DEF ForgetResolved
    <2> QED
      BY <2>1, <2>2, ForgetsElsewhere
  <1>8. CASE StartAsk(h)
    <2>1. PICK n \in Key :
            Goes(h, [At("ask") EXCEPT !.name = n, !.key = resolves[n]])
      BY <1>8 DEF StartAsk
    <2>2. conn'[h].at = "ask"
      <3>1. [At("ask") EXCEPT !.name = n, !.key = resolves[n]].at = "ask"
        BY DEF At, Free
      <3> QED
        BY <1>2, <2>1, <3>1
    <2> QED
      BY <1>1, <1>2, <1>8, <2>1, <2>2, ForgetsElsewhere DEF StartAsk, store
  <1>9. CASE Ask(h)
    <2>1. \A g \in Handler : old'[g] \subseteq old[g]
      BY <1>1, <1>9, CallsShrink DEF Ask
    <2> QED
      BY <1>1, <1>9, <2>1, ForgetsElsewhere DEF Ask
  <1>10. CASE EndControl(h) \/ EndAsk(h) \/ CancelAsk(h)
    <2>1. Finish(h)
      BY <1>10 DEF EndControl, EndAsk, CancelAsk
    <2>2. \A g \in Handler : conn'[g] = IF g = h THEN Free ELSE conn[g]
      BY <1>1, <2>1 DEF TypeOK, Finish
    <2>3. old' = old
      BY <2>1 DEF Finish, store
    <2> QED
      BY <1>1, <2>1, <2>2, <2>3, ForgetsElsewhere DEF Finish, Free
  <1> QED
    BY <1>4, <1>5, <1>6, <1>7, <1>8, <1>9, <1>10 DEF Serves

LEMMA ForgetsStep == ShutdownInv /\ ShutdownInv' /\ ForgetsOK /\ [Next]_vars => ForgetsOK'
  <1> SUFFICES ASSUME ShutdownInv, ShutdownInv', ForgetsOK, [Next]_vars
               PROVE  ForgetsOK'
    OBVIOUS
  <1>1. TypeOK /\ SlotsMatch /\ StoreTypes /\ StoreTypes'
    BY DEF ShutdownInv, ServerInv, TypeOK, StoreTypes
  <1>2. CASE LeaveLoop \/ CloseListener \/ Drain \/ EndSweeps \/ Connect \/ Stop
             \/ UNCHANGED vars
    BY <1>1, <1>2, ForgetsElsewhere
    DEF LeaveLoop, CloseListener, Drain, EndSweeps, Connect, Stop, vars, store
  <1>3. CASE Accept
    <2>1. CASE UNCHANGED conn
      BY <1>1, <1>3, <2>1, ForgetsElsewhere DEF Accept, store
    <2>2. CASE SlotFree /\ conn' = [conn EXCEPT ![Idle] = At("frame")]
      <3>1. PICK i \in Handler : i = Idle
        BY <1>1, <2>2, IdleIsFree
      <3>2. \A g \in Handler : conn'[g] = IF g = i THEN At("frame") ELSE conn[g]
        BY <1>1, <2>2, <3>1 DEF TypeOK
      <3>3. At("frame").at = "frame"
        BY DEF At, Free
      <3> QED
        BY <1>1, <1>3, <3>2, <3>3, ForgetsElsewhere DEF Accept, store
    <2> QED
      BY <1>3, <2>1, <2>2 DEF Accept
  <1>4. CASE Wipe \/ Sweep \/ TimePasses
    <2>1. \A g \in Handler : old'[g] \subseteq old[g]
      BY <1>1, <1>4, BecomesShrinks, ForgetClears DEF Wipe, Sweep, TimePasses
    <2> QED
      BY <1>1, <1>4, <2>1, ForgetsElsewhere DEF Wipe, Sweep, TimePasses
  <1>5. CASE Relink
    BY <1>5, ForgetsElsewhere DEF Relink, store
  <1> QED
    BY <1>2, <1>3, <1>4, <1>5, GoroutineForgets DEF Next, ServeStep

\* Only its second call takes a goroutine from between the calls to the reply.
LEMMA OnlySecondCall ==
  ASSUME ShutdownInv, [Next]_vars, NEW h \in Handler,
         conn[h].at = "between", conn'[h].at = "reply"
  PROVE  ForgetResolved(h)
  <1>1. TypeOK /\ SlotsMatch
    BY DEF ShutdownInv, ServerInv
  <1>2. conn'[h] # conn[h] /\ conn'[h] # Free /\ conn[h] # Free
    BY DEF Free
  <1>3. ASSUME NEW g \in Handler, Serves(g) \/ Ask(g) \/ EndAsk(g) \/ CancelAsk(g)
        PROVE  ForgetResolved(h)
    <2>1. \A to : Goes(g, to) => conn'[h] = IF g = h THEN to ELSE conn[h]
      BY <1>1 DEF Goes, TypeOK
    <2>2. Finish(g) => conn'[h] = IF g = h THEN Free ELSE conn[h]
      BY <1>1 DEF Finish, TypeOK
    <2>3. g = h
      BY <1>2, <1>3, <2>1, <2>2
         DEF Serves, Control, ReadForget, ForgetGiven, ForgetResolved, StartAsk,
             EndControl, Ask, EndAsk, CancelAsk
    <2> QED
      BY <1>3, <2>3 DEF Serves, Control, ReadForget, ForgetGiven, StartAsk,
                        EndControl, Ask, EndAsk, CancelAsk
  <1>4. CASE Accept
    <2>1. conn[Idle] = Free /\ Idle \in Handler /\ conn' = [conn EXCEPT ![Idle] = At("frame")]
      BY <1>1, <1>2, <1>4, IdleIsFree DEF Accept
    <2>2. conn'[h] = conn[h]
      BY <1>1, <1>2, <2>1 DEF TypeOK
    <2> QED
      BY <1>2, <2>2
  <1>5. ASSUME conn' = conn PROVE FALSE
    BY <1>2, <1>5
  <1> QED
    BY <1>3, <1>4, <1>5
       DEF Next, ServeStep, LeaveLoop, CloseListener, Drain, Wipe, Sweep, EndSweeps,
           Connect, TimePasses, Relink, Stop, vars

LEMMA SecondCallClears ==
  ASSUME ShutdownInv, ForgetsOK, [Next]_vars, NEW h \in Handler,
         conn[h].at = "between", conn'[h].at = "reply"
  PROVE  old[h] \cap {conn[h].name, resolves[conn[h].name]} \cap Occupied' = {}
  <1>1. conn[h].name \notin old[h]
    BY DEF ForgetsOK, GivenIsGone
  <1>2. Clear({resolves[conn[h].name]}) /\ StoreTypes
    BY OnlySecondCall DEF ForgetResolved, ShutdownInv, ServerInv, TypeOK, StoreTypes
  <1>3. resolves[conn[h].name] \notin Occupied'
    BY <1>2, ClearTyped
  <1> QED
    BY <1>1, <1>3

\* When a forget is done, nothing that was held under the path given when it
\* was asked for is left there, and nothing that was held under the target that
\* its second call finds, whatever other connections commit and links do in
\* between.  Of a target that the path no longer led to it says nothing.
THEOREM ForgetsAreComplete == Spec => ForgottenIsGone
  <1>1. Init => ForgetsOK
    BY DEF Init, Free, ForgetsOK, GivenIsGone
  <1>2. ShutdownInv /\ ForgetsOK /\ [Next]_vars =>
          [\A h \in Handler : conn[h].at = "between" /\ conn'[h].at = "reply"
             => old[h] \cap {conn[h].name, resolves[conn[h].name]} \cap Occupied' = {}]_vars
    BY SecondCallClears
  <1> QED
    BY ServerInitial, ServerStep, ForgetsStep, <1>1, <1>2, PTL DEF Spec, ForgottenIsGone

===========================================================================
