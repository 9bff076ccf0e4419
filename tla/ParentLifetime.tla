--------------------------- MODULE ParentLifetime ---------------------------
(***************************************************************************)
(* How the askpass helper learns that its parent, ssh or ssh-agent, has    *)
(* ended (internal/lifecycle/linux.go and the start of App.Run): it notes  *)
(* the parent's process number and start time, opens a pidfd, and waits    *)
(* until either says that this process is gone.                            *)
(*                                                                         *)
(* A process number outlives its process: it names a zombie until that is  *)
(* reaped, then nobody, then perhaps a stranger.  A helper whose parent    *)
(* has ended belongs to a reaper, which never ends.                        *)
(***************************************************************************)
EXTENDS Naturals

VARIABLES
    holder,    \* who has the parent's number: "parent", "zombie", "nobody"
               \* or "stranger"
    watch,     \* WaitParent and what leads to it: "start", "number", "read",
               \* "loop", "poll", "returned", or "absent"
    watched,   \* whose start time was read, "ended" if it is no more
    pidfd,     \* whose pidfd was opened, or "none"
    cancelled  \* the context of the helper

lifetime == <<holder, watch, watched, pidfd, cancelled>>

LifetimeInit ==
    /\ holder = "parent"
    /\ watch = "start"
    /\ watched = "none"
    /\ pidfd = "none"
    /\ cancelled = FALSE

\* Process.Alive: the number still names the process that was read.
Alive(who) ==
    CASE who = "parent"   -> holder = "parent"
      [] who = "stranger" -> holder = "stranger"
      [] OTHER            -> who = "reaper"

\* What poll says of the pidfd: its process, also a zombie, has ended.
Readable(who) == who \in {"parent", "stranger", "ended"} /\ ~Alive(who)

---------------------------------------------------------------------------
(* The helper: os.Getppid, ReadProcess, WaitParent.                        *)

WatchGoes(to) == watch' = to /\ UNCHANGED <<holder, cancelled>>

AskNumber ==
    /\ watch = "start"
    /\ IF holder = "parent"
       THEN WatchGoes("number") /\ UNCHANGED watched
       ELSE WatchGoes("read") /\ watched' = "reaper"
    /\ UNCHANGED pidfd

\* Whoever has the number now is taken for the parent.
ReadIdentity ==
    /\ watch = "number"
    /\ \/ holder = "nobody" /\ WatchGoes("absent") /\ UNCHANGED watched
       \/ /\ holder # "nobody"
          /\ watched' = IF holder = "stranger" THEN "stranger" ELSE "parent"
          /\ WatchGoes("read")
    /\ UNCHANGED pidfd

\* The pidfd is that of whoever has the number by now; or the call fails.
OpenPidfd ==
    /\ watch = "read"
    /\ WatchGoes("loop")
    /\ pidfd' \in {"none", IF watched = "reaper" THEN "reaper"
                            ELSE CASE holder = "nobody"   -> "none"
                                   [] holder = "stranger" -> "stranger"
                                   [] OTHER               -> "parent"}
    /\ UNCHANGED watched

\* Mistake: the pidfd alone decides.
StillThereByPidfd == pidfd = "none" => Alive(watched)

StillThere == Alive(watched)

\* The condition of the loop: the context, then the process.
CheckAlive ==
    /\ watch = "loop"
    /\ WatchGoes(IF ~cancelled /\ StillThere THEN "poll" ELSE "returned")
    /\ UNCHANGED <<watched, pidfd>>

\* Mistake: without a pidfd there is nothing to wait for.
GoneOrUnknown == pidfd = "none" \/ Readable(pidfd)

Gone == Readable(pidfd)

\* A tenth of a second later, or sooner.
PollParent ==
    /\ watch = "poll"
    /\ WatchGoes(IF Gone THEN "returned" ELSE "loop")
    /\ UNCHANGED <<watched, pidfd>>

\* WaitParent has returned: the helper's context is cancelled.
CancelByParent ==
    /\ watch = "returned" /\ ~cancelled
    /\ cancelled' = TRUE
    /\ UNCHANGED <<holder, watch, watched, pidfd>>

WatchStep == OpenPidfd \/ CheckAlive \/ PollParent \/ CancelByParent

---------------------------------------------------------------------------
(* The world.                                                              *)

HolderBecomes(who) ==
    /\ holder' = who
    /\ UNCHANGED <<watch, cancelled>>

ParentEnds ==
    /\ holder = "parent"
    /\ HolderBecomes("zombie")
    /\ UNCHANGED <<watched, pidfd>>

ParentReaped ==
    /\ holder = "zombie"
    /\ HolderBecomes("nobody")
    /\ UNCHANGED <<watched, pidfd>>

NumberReused ==
    /\ holder = "nobody"
    /\ HolderBecomes("stranger")
    /\ UNCHANGED <<watched, pidfd>>

\* The next stranger under this number is another one.
StrangerEnds ==
    /\ holder = "stranger"
    /\ HolderBecomes("nobody")
    /\ watched' = IF watched = "stranger" THEN "ended" ELSE watched
    /\ pidfd' = IF pidfd = "stranger" THEN "ended" ELSE pidfd

\* SIGTERM, SIGINT or SIGHUP.
Signalled ==
    /\ ~cancelled
    /\ cancelled' = TRUE
    /\ UNCHANGED <<holder, watch, watched, pidfd>>

ProcessTable == ParentEnds \/ ParentReaped \/ NumberReused \/ StrangerEnds
===========================================================================
