--------------------------- MODULE RequestServer ---------------------------
(***************************************************************************)
(* The request server: Serve and handle of internal/cacheipc/ipc.go with   *)
(* the accept loop, a goroutine per connection, the sweep ticker and the   *)
(* shutdown, on top of the credential cache.                               *)
(*                                                                         *)
(* The cache is what CredentialLease promises of it: per key a secret that *)
(* is fresh or overdue, or none, and whether a lease is outstanding that   *)
(* a commit would still honour.  A request for a response ("ask") is any   *)
(* order of cache calls on its key; PinRequest models its handler.         *)
(***************************************************************************)
EXTENDS Naturals, FiniteSets

CONSTANTS
    Key,             \* cache keys with a cleaned path
    NoKey,           \* a path that resolves to no file of the user
    Movable,         \* keys whose path may become a link to another, or vanish
    Handler,         \* the goroutines that handle connections
    MaxConnections,  \* how many may run, 64 in the code
    MaxWaiting,      \* bound: connections that wait to be accepted
    AcceptFails      \* whether accept may fail although nobody asked to stop

ASSUME ServerAssumption ==
    /\ IsFiniteSet(Key) /\ NoKey \notin Key /\ Movable \subseteq Key
    /\ IsFiniteSet(Handler) /\ Cardinality(Handler) >= MaxConnections
    /\ MaxConnections \in Nat \ {0} /\ MaxWaiting \in Nat \ {0}
    /\ AcceptFails \in BOOLEAN

VARIABLES
    serve,      \* Serve: "accept", the deferred "drain", "wipe", or "over"
    stop,       \* the service's context is cancelled
    listening,  \* the listener is open
    waiting,    \* connections that the kernel holds for accept
    slots,      \* the length of the channel sem
    sweeping,   \* the sweep goroutine runs
    conn,       \* per goroutine what it handles, or Free
    resolves,   \* what a key's path resolves to
    secret,     \* per key "none", "fresh" or "overdue"
    leased,     \* the keys with an outstanding valid lease
    old         \* history: per forget which of the path given and its target
                \* when it was read have held something ever since

server == <<serve, stop, listening, waiting, slots, sweeping>>
store == <<secret, leased, old>>
vars == <<server, conn, resolves, store>>

Free == [at |-> "free", name |-> NoKey, key |-> NoKey]

At(place) == [Free EXCEPT !.at = place]

Init ==
    /\ serve = "accept"
    /\ stop = FALSE
    /\ listening = TRUE
    /\ waiting = 0
    /\ slots = 0
    /\ sweeping = TRUE
    /\ conn = [h \in Handler |-> Free]
    /\ resolves = [k \in Key |-> k]
    /\ secret = [k \in Key |-> "none"]
    /\ leased = {}
    /\ old = [h \in Handler |-> {}]

---------------------------------------------------------------------------
(* The store's methods, each atomic.                                       *)

Occupied == {k \in Key : secret[k] # "none"} \cup leased

StillThere == [h \in Handler |-> old[h] \cap Occupied']

Becomes(s, l) ==
    /\ secret' = s
    /\ leased' = l
    /\ old' = StillThere

Clear(K) ==
    /\ secret' = [k \in Key |-> IF k \in K THEN "none" ELSE secret[k]]
    /\ leased' = leased \ K

\* Forget and, on one key, Reject: what it held and its leases are void.
Forget(K) == Clear(K) /\ old' = StillThere

Overdue == {k \in Key : secret[k] = "overdue"}

\* What Begin, Commit and Sweep leave after expire.
Timely == [k \in Key |-> IF k \in Overdue THEN "none" ELSE secret[k]]

\* A hit or a refusal, a miss, or a retry or a changed file, which erase.
Begin(k) ==
    \/ Becomes(Timely, leased \ Overdue)
    \/ Becomes(Timely, (leased \ Overdue) \cup {k})
    \/ Becomes([Timely EXCEPT ![k] = "none"], (leased \ Overdue) \cup {k})

Commit(k) ==
    \/ /\ k \in leased \ Overdue
       /\ Becomes([Timely EXCEPT ![k] = "fresh"], (leased \ Overdue) \ {k})
    \/ Becomes(Timely, (leased \ Overdue) \ {k})
    \/ Becomes(Timely, leased \ Overdue)

\* A secret becomes overdue, or a lease runs out or loses its caller.
TimePasses ==
    /\ \E k \in Key :
          \/ secret[k] = "fresh" /\ Becomes([secret EXCEPT ![k] = "overdue"], leased)
          \/ k \in leased /\ Becomes(secret, leased \ {k})
    /\ UNCHANGED <<server, conn, resolves>>

---------------------------------------------------------------------------
(* Serve.                                                                  *)

Connect ==
    /\ listening /\ waiting < MaxWaiting
    /\ waiting' = waiting + 1
    /\ UNCHANGED <<serve, stop, listening, slots, sweeping, conn, resolves, store>>

SlotFree == slots < MaxConnections

\* Mistake: the loop waits for a slot.
NeverRefused == FALSE

\* The default branch of the select: no slot, the connection is closed.
Refused == ~SlotFree

\* A new goroutine: which of the unused ones is immaterial.
Idle == CHOOSE h \in Handler : conn[h] = Free

Accept ==
    /\ serve = "accept" /\ listening /\ waiting > 0
    /\ waiting' = waiting - 1
    /\ \/ /\ SlotFree
          /\ slots' = slots + 1
          /\ conn' = [conn EXCEPT ![Idle] = At("frame")]
       \/ Refused /\ UNCHANGED <<slots, conn>>
    /\ UNCHANGED <<serve, stop, listening, sweeping, resolves, store>>

\* AcceptUnix fails: the loop is left, which ends the sweeps.
LeaveLoop ==
    /\ serve = "accept"
    /\ ~listening \/ AcceptFails
    /\ serve' = "drain"
    /\ UNCHANGED <<stop, listening, waiting, slots, sweeping, conn, resolves, store>>

\* The function that context.AfterFunc runs in a goroutine of its own.
CloseListener ==
    /\ stop /\ listening
    /\ listening' = FALSE
    /\ waiting' = 0
    /\ UNCHANGED <<serve, stop, slots, sweeping, conn, resolves, store>>

\* Mistake: the cache is wiped before the handlers have ended.
WithoutWaiting == TRUE

\* What wg.Wait waits for.
AllEnded == ~sweeping /\ \A h \in Handler : conn[h] = Free

Drain ==
    /\ serve = "drain" /\ AllEnded
    /\ serve' = "wipe"
    /\ listening' = FALSE
    /\ waiting' = 0
    /\ UNCHANGED <<stop, slots, sweeping, conn, resolves, store>>

Wipe ==
    /\ serve = "wipe"
    /\ serve' = "over"
    /\ Forget(Key)
    /\ UNCHANGED <<stop, listening, waiting, slots, sweeping, conn, resolves>>

ServeStep == Accept \/ LeaveLoop \/ CloseListener \/ Drain \/ Wipe

\* Mistake: the sweep prunes leases only.
NothingToExpire == secret

SweptSecrets == Timely

Sweep ==
    /\ sweeping
    /\ Becomes(SweptSecrets, leased \ Overdue)
    /\ UNCHANGED <<server, conn, resolves>>

\* sweepCtx: it is cancelled with the service or when the loop is left.
SweepCancelled == stop \/ serve # "accept"

EndSweeps ==
    /\ sweeping /\ SweepCancelled
    /\ sweeping' = FALSE
    /\ UNCHANGED <<serve, stop, listening, waiting, slots, conn, resolves, store>>

---------------------------------------------------------------------------
(* handle, in the goroutine h.                                             *)

Goes(h, to) ==
    /\ conn' = [conn EXCEPT ![h] = to]
    /\ UNCHANGED <<server, resolves>>

\* begin and commit act on what the path resolves to, forget-all on all keys.
Control(h) ==
    /\ conn[h].at = "frame"
    /\ Goes(h, At("reply"))
    /\ \/ \E n \in Key : LET k == resolves[n]
                         IN k # NoKey /\ (Begin(k) \/ Commit(k))
       \/ Forget(Key)

ReadForget(h) ==
    /\ conn[h].at = "frame"
    /\ \E n \in Key :
          /\ Goes(h, [At("forget") EXCEPT !.name = n])
          /\ old' = [old EXCEPT ![h] = {n, resolves[n]} \cap Occupied]
    /\ UNCHANGED <<secret, leased>>

\* Mistake: forget acts only on what the path resolves to.
NotEvenGiven(h) == {}

Given(h) == {conn[h].name}

ForgetGiven(h) ==
    /\ conn[h].at = "forget"
    /\ Goes(h, [conn[h] EXCEPT !.at = "between"])
    /\ Forget(Given(h))

\* The path is resolved only now.
ForgetResolved(h) ==
    /\ conn[h].at = "between"
    /\ Goes(h, At("reply"))
    /\ Clear({resolves[conn[h].name]})
    /\ old' = [StillThere EXCEPT ![h] = {}]

StartAsk(h) ==
    /\ conn[h].at = "frame"
    /\ \E n \in Key :
          Goes(h, [At("ask") EXCEPT !.name = n, !.key = resolves[n]])
    /\ UNCHANGED store

\* A commit resolves the path once more.
Ask(h) ==
    /\ conn[h].at = "ask" /\ conn[h].key # NoKey
    /\ \/ Begin(conn[h].key)
       \/ resolves[conn[h].name] = conn[h].key /\ Commit(conn[h].key)
       \/ Forget({conn[h].key})
    /\ UNCHANGED <<server, conn, resolves>>

SlotReturned(n) == n - 1

Finish(h) ==
    /\ conn' = [conn EXCEPT ![h] = Free]
    /\ slots' = SlotReturned(slots)
    /\ UNCHANGED <<serve, stop, listening, waiting, sweeping, resolves, store>>

\* A bad or late frame, a refused operation, or the reply is written.
EndControl(h) == conn[h].at \in {"frame", "reply"} /\ Finish(h)

\* The request is answered, or its client has gone.
EndAsk(h) == conn[h].at = "ask" /\ Finish(h)

\* Mistake: a request does not hear that the service stops.
Deaf == FALSE

HearsStop == stop

\* The service's context ends the request.
CancelAsk(h) == conn[h].at = "ask" /\ HearsStop /\ Finish(h)

\* What a control connection does within its deadline.
Serves(h) ==
    \/ Control(h) \/ ReadForget(h) \/ ForgetGiven(h) \/ ForgetResolved(h)
    \/ StartAsk(h) \/ EndControl(h)

---------------------------------------------------------------------------
(* The world.                                                              *)

\* A link is made, changed or removed, also while a forget of it is under way.
Relink ==
    /\ \E n \in Movable, k \in {m \in Key : resolves[m] = m} \cup Movable \cup {NoKey} :
          /\ k # resolves[n]
          /\ \A m \in Key \ {n} : resolves[m] # n
          /\ resolves' = [resolves EXCEPT ![n] = k]
    /\ UNCHANGED <<server, conn, store>>

Stop ==
    /\ ~stop
    /\ stop' = TRUE
    /\ UNCHANGED <<serve, listening, waiting, slots, sweeping, conn, resolves, store>>

Next ==
    \/ ServeStep \/ Sweep \/ EndSweeps
    \/ \E h \in Handler : Serves(h) \/ Ask(h) \/ EndAsk(h) \/ CancelAsk(h)
    \/ Connect \/ TimePasses \/ Relink \/ Stop

Spec == Init /\ [][Next]_vars

\* The goroutines run, the ticker ticks and deadlines pass; an open request
\* ends for sure only when it is cancelled.
FairSpec ==
    /\ Spec
    /\ WF_vars(Accept \/ (LeaveLoop /\ ~listening) \/ Drain \/ Wipe)
    /\ WF_vars(CloseListener)
    /\ WF_vars(Sweep) /\ WF_vars(EndSweeps)
    /\ \A h \in Handler : WF_vars(Serves(h) \/ CancelAsk(h))

---------------------------------------------------------------------------
(* Properties.                                                             *)

\* The values of conn[h].at.
Places == {"free", "frame", "reply", "forget", "between", "ask"}

\* Types: where Serve and the handlers are, and what the cache holds.
TypeOK ==
    /\ serve \in {"accept", "drain", "wipe", "over"}
    /\ waiting \in 0..MaxWaiting /\ slots \in 0..MaxConnections
    /\ conn \in [Handler -> [at : Places, name : Key \cup {NoKey},
                             key : Key \cup {NoKey}]]
    /\ resolves \in [Key -> Key \cup {NoKey}]
    /\ secret \in [Key -> {"none", "fresh", "overdue"}]
    /\ leased \subseteq Key
    /\ old \in [Handler -> SUBSET Key]
    /\ {stop, listening, sweeping} \subseteq BOOLEAN

\* "Limit the server to 64 concurrent connections" (DESIGN.md) limits what is
\* handled: a slot is taken exactly as long as a handler runs.
SlotsMatch == slots = Cardinality({h \in Handler : conn[h] # Free})

\* When a forget is done, nothing that was there when it was asked for is left,
\* neither under the path given nor under what that leads to when the second
\* call looks (ipc.go:349), whatever requests did between the two calls.  If a
\* link led elsewhere when the forget was asked for, what its former target
\* holds is left: the code promises no more.
ForgottenIsGone ==
    [][\A h \in Handler : conn[h].at = "between" /\ conn'[h].at = "reply"
          => old[h] \cap {conn[h].name, resolves[conn[h].name]} \cap Occupied' = {}]_vars

\* "wipes retained secrets": once Serve has returned nothing is left, and no
\* handler is left that could store a late response.
NothingAfterWipe ==
    serve = "over" =>
        Occupied = {} /\ ~sweeping /\ \A h \in Handler : conn[h] = Free

\* Slots, handlers and cache at any time, and after Serve has returned.
ServerInv == TypeOK /\ SlotsMatch /\ NothingAfterWipe

\* "Service shutdown cancels requests, stops workers, and wipes retained
\* secrets" (DESIGN.md): a stop request leads there, requests that still wait
\* for their user included.
StopCompletes == stop ~> serve = "over"

\* The same of a shutdown because connections cannot be accepted any more.
ShutdownCompletes == serve = "drain" ~> serve = "over"

\* No credential outlives its deadline for ever, although nobody asks for its
\* key again and while the service shuts down.
OverdueIsWiped == Overdue # {} ~> Overdue = {}

\* The accept loop never waits for a handler: a connection is taken, refused
\* or reset, however many requests wait for their user.
BacklogMoves == waiting = MaxWaiting ~> waiting < MaxWaiting
===========================================================================
