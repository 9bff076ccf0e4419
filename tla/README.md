# ssh-askpass-fido: models, checks and proofs

This directory holds TLA+ models of ssh-askpass-fido, the TLC configurations
that check them on small instances, and proofs about them for every instance.
`PROJECT.json` lists the components, the runs, the lines of code behind every
definition, the hazards the properties are aimed at, and the findings.

    tlc -workers 2 -config MCPinRequest_pair.cfg MCPinRequest
    tlapm CredentialCacheProofs.tla

## The system

ssh runs the **askpass adapter** for one prompt. The adapter forwards the prompt
over a private socket to the **request service**, waits, prints the answer and
acknowledges it. The service classifies the prompt, asks its **credential
cache**, drives one **dialog worker** process per request, verifies PINs on a
**security key**, and stores what was delivered. Beside the requests it watches
security keys for touch requests and shows **touch popups**.

| Component | Code | State it keeps | Operations | Talks to |
| --- | --- | --- | --- | --- |
| Credential cache | `internal/cache` | entries with generations, leases, seen records, a counter | Begin, Current, Reject, Commit, Forget, Sweep, under one mutex | called by handlers, IPC operations, the sweep ticker |
| Request handler | `internal/service/service.go` | locals of `Handle`, the hardware lock | one goroutine per request | cache, worker, backend, preferences, adapter |
| Worker channel | `internal/service/worker.go` | channel of one action, `cancelled` | StartWorker, Show, Action, Close, reader goroutine | handler and dialog |
| GTK dialog | `internal/gtkui` | the view on the screen, sensitivity, refresh timer | render, controls, dismiss, timer | socket to the service |
| Adapter | `internal/app` | its connection | Run | service, stdout, parent |
| Security key backend | `internal/fido`, `internal/device` | none | Discover, Verify | USB devices |
| IPC server | `internal/cacheipc` | connection slots | Listen, Serve, handle, sweep ticker | handlers, cache |
| Device preferences | `internal/preferences` | one JSON file | Preferred, Save | handler |
| Touch popups | `internal/service/touch.go` | desired states, running popups | SetTouch, Run, runPopup | monitor, dialogs |
| Touch monitor | `internal/touch/linux.go` | open devices, trackers | scan, poll | kernel, popups |
| Tracker, descriptor parser | `internal/touch/report.go` | pending channels with deadlines | Report, Expire; Descriptor | monitor |
| Parent lifetime | `internal/lifecycle` | none | ReadProcess, WaitParent, BootTime | adapter, server |
| Prompt classification, configuration, tracing, commands | `internal/askpass`, `config`, `trace`, `cmd` | none | pure or start-up only | all |

What makes it correct, and what is hard about it:

* **Cache.** An answer is stored minutes after the lease for it was issued.
  Everything that can happen to the key meanwhile (another answer, a forget, a
  rejection, an expiry, a changed file, a sweep) must make the lease worthless;
  a caller must not be handed the same wrong candidate twice; the maps must stay
  within their limits although `Commit` adds to one of them unchecked.
* **Handler.** What ssh gets in verified mode must have been accepted by the
  device the user chose; a refused cached PIN must not be tried again; nothing is
  stored before ssh has it; the hardware lock must come back on each of some
  twenty returns, and a helper that disappears must end the request wherever it
  waits.
* **Dialog.** Frames carry no mark of the view they answer. A frame sent for one
  view and read by another is interpreted by the other's rules.
* **Adapter and notices.** ssh shows a notice by starting a helper and ends it by
  ending the helper. A helper that ends early is taken for the end of the
  operation; one that does not notice its parent's death stays on the screen.
  The parent is known by a process number, and numbers are reused.
* **IPC server.** Slots are taken and returned by goroutines; a forget is two
  cache calls with a resolution of the path between them; at shutdown the cache
  may be wiped only when nobody is left who could fill it again.
* **Device preferences.** The only file the service writes: a crash or power loss
  between any two steps of its replacement must not harm it.
* **Touch popups.** Episodes, dismissals and process ends arrive over different
  channels, and the mailbox between the monitor and `Run` holds one token.
* **Touch monitor.** Interfaces come, go and are replaced under the same name
  between any two steps of a scan or a round, and what was told to the popups
  must be taken back on every way on which a reader is lost.

## Modules

| Module | Models | Remarks |
| --- | --- | --- |
| `CacheStore` | `store.go`, `identity.go` | operators on a store value, no variables |
| `CredentialCache` | the store under any interleaving of calls | extends `CacheStore` |
| `CredentialLease` | what the cache promises | abstract: no generations, limits or sweeps |
| `DialogWorker` | one dialog: process, socket, reader, channel | operators on a worker value |
| `PinRequest` | `Handle` for input requests, with everything it touches | extends `CacheStore` and `DialogWorker` |
| `ParentLifetime` | `lifecycle/linux.go`: a parent known by its number | variables and actions for `NoticeRequest` |
| `NoticeRequest` | notices and confirmations from the helper (`app.go`) to the dialog | extends `ParentLifetime` and `DialogWorker` |
| `RequestServer` | `Serve` and `handle` of `ipc.go`, on top of the cache | the cache is reduced to what `CredentialLease` says of it |
| `DevicePreferences` | `preferences/store.go` with crashes and power losses | |
| `DurableMap` | what the preferences promise | abstract: no file, no steps |
| `TouchPopups` | `SetTouch`, `Run`, `runPopup` with their dialogs | |
| `TouchReminder` | what the popups promise | abstract: no mailbox, no processes |
| `TouchTracker` | the tracker of `report.go` | operators on a tracker value |
| `HidDescriptor` | the descriptor parser of `report.go`, and the same by position | operators, no variables |
| `TouchMonitor` | `Monitor.Run` of `linux.go` | extends the two before |
| `MC...` | instances for TLC | sets of model values only |
| `...Proofs` | lemmas and theorems, one module per component | see Proofs |

`CacheStore` is used twice: `CredentialCache` calls it in every order there is,
`PinRequest` in the orders in which the handler does. `DialogWorker` is used twice,
too: by input requests and by notices. `RequestServer` uses neither; it allows
every cache call at any time, and what it adds is who is still there to call.

Operators marked *Mistake* are wrong variants, used nowhere. Each is a plausible
bug (a dropped guard, a missing reset); put in the place of the operator after
it, it breaks the property `PROJECT.json` names under `mutants`, which shows that
the property depends on that part of the code.

### CredentialCache

The methods of `Store` hold one mutex from beginning to end, so one call is one
step. `store` is the `Store`: `seq`, and the maps as functions with `Absent` for a
missing key. `Begin`, `Current`, `Commit` and `Sweep` first call `expire`, so their
actions start from a member of `Expire(store, now)`, a set because Go walks the
map of entries in any order and the new generations are numbered accordingly.
The clock is read twice in one call by the code and once in the model.
`alive` are the callers whose process exists: `SweepCall` asks for every seen
record and then for every lease, and callers may exit between two questions.
`reply` holds what the last call gave its caller, so that `CredentialLease` can
speak of it. `asked` and `again` are history.

A secret that `Commit` refuses for its length or format is `NoSecret`. The
reasons "file-changed" and "retry" are worded misses and not distinguished.
Identities reach the calls as any pair of key and stamp: a client resolves the
file just before its call and the file may have changed any number of times.

### DialogWorker and PinRequest

A worker value has the views written to the process but not rendered, the view
on the screen, the frames the process has written but the reader has not read,
and `actions`: the channel of one plus the action in the hand of the blocked
reader. `cancelled` is set by the reader, as in the code. A view is reduced to
what its controls can send.

The state of a handler is one record: `pc` names the place in `Handle`, the rest
are its local variables. An action reaches to the next access to something
shared. Steps that follow each other without such an access are one action, and
so are an enumeration of the bus or a rejection and the write to the dialog that
follows, since no other step depends on which of the two came first.

| `pc` | in `service.go` | actions |
| --- | --- | --- |
| start, lock | 66-172 | `Accept`, `AcquireHardware` |
| discover, wait, choose, selected | 173-247 | `SelectDevice`, `CancelSelection`, `Choose`, `RefuseAnonymous` |
| begin | 249-267 | `AskCache` |
| top, input | 268-297 | `Prompt`, `Submit`, `ChangeDevice`, `CancelInput` |
| check, again | 298-304 | `Recheck`, `AskAgain` |
| enumerate, verify, verified, confirm | 305-371 | `FindDevice`, `AskDevice`, `JudgeVerdict`, `CancelledLate`, `Recheck` |
| failed, error | 322-329, 372-381 | `ReportFailure`, `LeaveError` |
| final, send, sent | 383-405 | `Conclude`, `SendAnswer`, `AckTimeout` |
| commit, prefs | 406-436 | `Acknowledged`, `CommitAnswer`, `SavePreference` |
| end, over | deferred calls | `Abandon`, `LoseDialog`, `Return` |

The device decides in one instant (`AskDevice`): it may refuse, be blocked or be
unavailable at any time, and accepts any nonempty PIN, since another program may
have changed it. A connection that was unplugged does not come back: a device
that is plugged in again is another member of `Bus`. The stamp of an identity is
a version of the key file and the connection.

Left out: trace frames, retry counts, messages, the check of `XDG_RUNTIME_DIR`,
malformed prompts and frames, responses the dialog would not send (it validates
with the same function as the handler), write deadlines of a dialog that hangs
without dying, and cancellation by the shutdown of the service. The close view
is merged with the kill that follows it.

Left out, too, is the other writer of the store: begin and commit of protocol
version 1 (ipc.go:316-338), which store a secret without a dialog, an
acknowledgement, "Remember" or a device. The design keeps that protocol for old
clients; no program of the repository uses these two operations. They are in
`CredentialCache`, where anybody calls anything, and in `RequestServer`
(`Control`), but no events of `PinRequest`. What it says of the store
(`ServiceInv`, `CachedWasDelivered`, `NothingUsefulDiscarded`, and that a PIN the
cache supplies is one a request stored) holds for a service that handles askpass
requests and forgets; with such a client, a secret may be cached that was never
delivered to ssh and belongs to no device.

### NoticeRequest and ParentLifetime

`helper` is `App.Run`: it looks up its parent, dials, reads frames and prints.
`inbox` and `link` are its connection, `handler` the goroutine of `Handle`, and
`worker` a `DialogWorker`. `HangUp` is the `AfterFunc` that closes the
connection, `NoticeHangup` the reader of the handler that finds it closed.
A request is a notice, a touch notice, a confirmation or malformed, and names
this user's runtime directory or another.

`holder` says who has the parent's process number: the parent, its zombie,
nobody, or a stranger. `AskNumber`, `ReadIdentity`, `OpenPidfd`, `CheckAlive`
and `PollParent` are separate steps, so that the number may be reused between
any two of them. Each later stranger is another process (`StrangerEnds`).

A service that is killed closes its connections; a dialog that finds its own
closed ends, which the model does in the same step (`ServiceDies`). Nothing of a
request survives a restart of the service, so there is no restart here.

### RequestServer

`serve` is where `Serve` is: the accept loop, then its deferred calls (`drain`
is `wg.Wait`, `wipe` is `Forget("")`). `slots` is the length of `sem`. `conn` has
one record per goroutine: where it is in `handle`, the path it was given and
what that resolved to. Of the cache a key has a secret that is fresh or overdue
or none, and may have a lease that is still valid. A request for a response makes
any of the handler's cache calls on its key in any order, and ends when its client
goes or the service stops. A forget has three steps: the frame is read, the given
path is erased, the resolved one is erased. `Relink` turns a path into a link, or
removes it, between them. `old` is history: which of the path given and its
target when the forget was read have held something ever since. `ForgottenIsGone`
promises what the code does: nothing of that is left under the path or under what
it leads to at the second call. If a link is changed or removed before that call,
its former target is never erased, see findings.

### DevicePreferences

`Save` runs under a mutex; its system calls are separate steps (`CreateTemp`,
`Write`, `Sync`, `Rename`, or `Fail` after any of them) because the process may be
killed and the power lost between them. `file` is what programs read, `left` what
a power loss may make of it: a rename may or may not have reached the disk, and
data that was not synced may be torn. `Crash` keeps `file`, `PowerLoss` picks from
`left`. A file that `New` does not accept is `Foreign`: nothing is said about its
content except that it is kept.

### TouchPopups

`task` is the sequence of goroutines of `runPopup` ever started, each with its
dialog process; `popup` is the map of `Run`. `Round` is the part of `Run` from the
snapshot on: cancel what is outdated, collect what is done, start what is wanted
as far as there is room. The snapshot and the round are separate steps, so that
`SetTouch` comes between them. A dialog is started, told its view, mapped, may be
hidden by the user, and may crash at any point.

`Start` and `Show` set `failed` also when their context was cancelled, as the code
does (touch.go:92, 99): a popup that is cancelled while it starts makes
`Available` say no until the next one is mapped. Nothing is claimed about it.

### TouchMonitor, TouchTracker and HidDescriptor

`pc` is where `Run` is; `todo` holds the paths that the scan or the round still has
to look at. Each interface in a scan and each read in a round is one step, and
the world changes between them: `Plug`, `Unplug`, `ChangeAccess` (the node's
ctime changes), and a device that begins or stops to wait. A reader whose node
is no longer its own is "touched" (the identity check of the next scan fails) or
"gone" (it hangs up). `Poll` may fail, which withdraws coverage and handles no
hangup. Ages are the time since a channel's latest keepalive.

What a path is (`node`) decides its report descriptor (`Contents`), and the parser
decides whether it is read. The parser is a fold over items; `ByPosition` says
the same without a parser, from the items that are in effect at a position.

A descriptor in which an input report belongs to a FIDO application and to
another one is of a kind of its own, "shared". The parser finds no report in it
that is a key's alone (report.go:128) and reports no error, so the scan passes it
by like a keyboard (linux.go:176). `CoveredMeansWatched` names this exception
(`PassedSilently`): everything else that has not changed since the latest scan is
watched when coverage is claimed. See findings.

Reports are read in step with the device's state, with one exception: an answer
may still be in the node's queue when its device begins a new wait on the same
channel (`late`, for the paths in `Delayed`). It is read before the first
keepalive of the new wait, and ends the reported episode until that one is read;
`NotClosedEarly` leaves such channels out. Keepalives that are in the queue when a
wait ends count as part of it: a wait stops in the model when its last keepalive
has been read or dropped.

## Properties and runs

Invariants that belong together are one property with named parts: `StoreInv`
(`TypeOK`, `WithinLimits`, `LeasesTracked`, `NumbersUsedOnce`,
`GenerationsMeanWhatTheySay`), `ServiceInv` (`TypeOK`, `CachedPinBoundToDevice`,
`PreferenceEarned`), `NoticeInv` (`TypeOK`, `NoticeStatus`), `PopupsInv`
(`TypeOK`, `OneWorkerPerDevice`, `WorkersBounded`, `NoneLeftBehind`), `MonitorInv`
(`TypeOK`, `SinkAgrees`, `SinkWithinLimit`, `ShutdownClears`), `ServerInv` (`TypeOK`,
`SlotsMatch`, `NothingAfterWipe`), `PreferencesInv` (`TypeOK`, `MemoryIsFile`).

| Run | Bounds | Shows |
| --- | --- | --- |
| `cache` | 2 callers, 1 agent key, 1 file key, 2 stamps, TTL 1, leases 2, room for 2 entries, seen records and leases, clock to 2, 5 draws of the counter | `StoreInv`, `NoSecondCandidate`, `OnlyCommitChanges`, and that the cache implements `CredentialLease`, also where limits refuse calls |
| `pin_pair` | 2 verified requests of one caller on one agent key, of which only the first may use a control, once, 2 devices of which 1 is plugged in first, 1 forget, the clock stands still | `ServiceInv`, `OnlyVerifiedPinReturned`, `HardwareSerialized`, `RejectedNeverRetried`, `CachedWasDelivered`, `NothingUsefulDiscarded` |
| `pin_choose` | 1 request on a key file that changes at most once, 3 devices of which 1 is anonymous, 2 uses of a control, cancel, empty responses | `CachedWasDelivered` for a file, and `OneUnlessDisturbed`, `SelectedAsConfirmed`, `CancelHeard` |
| `pin_live` | 2 verified requests that queue, one of them with dialogs that crash or do not start and with the refresh timer, no cache, clock to 1 | `HangupEndsRequest`, `DialogLossEndsRequest` |
| `notice` | 1 request of any kind; every order of the ends of parent, helper, service and dialog; numbers reused without limit | `NoticeInv`, `NoticeLasts`, `YesMeansAllow`, `NeverEarly`, `ParentDeathEnds`, `HelperEndEndsDialog` |
| `server` | 2 keys of which 1 may become a link, 2 slots, 1 waiting connection, any number of connections in turn | `ServerInv`, `ForgottenIsGone`, `StopCompletes`, `OverdueIsWiped`, `BacklogMoves` |
| `preferences` | 3 SSH keys, 2 devices, room for 2 preferences, at most 3 contents that a power loss may leave | `PreferencesInv`, and that the file implements `DurableMap` |
| `touch_popups` | 2 devices, room for 1 popup, 3 episodes, failing dialogs | `PopupsInv`, `OneWorkerPerEpisode`, `EpisodeEndCloses`, `PendingGetsPopup`, and that the popups implement `TouchReminder` |
| `touch_monitor` | 2 paths, one of them with any kind of interface and 2 channels, the other with answers that may be late, room for 1 reader and 1 channel, a stale age of 1, a scan every tick, 1 report per burst, failing polls; some two thousand descriptors | `MonitorInv`, `CoveredMeansWatched`, `DescriptorsUnderstood`, `NotClosedEarly`, `SilentIsForgotten`, `WaitingIsReported` |
| `pin_stale_refresh`, `pin_refused`, `accept_failure` | see findings; `pin_refused` has 3 requests, of which one types, and 1 device | violations |

Why the bounds are enough:

* *cache*: five draws of the counter are enough for a lease, its commit, a second
  lease, an erase and another commit, the longest chain in which one call makes
  another's lease stale. The limits are reached by two callers. Callers and
  stamps are interchangeable and declared symmetric.
* *pin*: with two requests, one types and stores a PIN and the other is handed it;
  the one forget falls between any two steps. Two that are handed the same PIN
  need a third that stored it; `pin_refused` has three. All properties of
  `pin_pair` and `pin_choose` are also proved for any number of requests,
  devices, forgets and presses, so what the runs leave out (two that both type;
  two passphrase requests on one file, which do not queue for the hardware;
  expiry together with a forget, which only `cache` has) is covered by the proofs.
  `pin_live` has no cache: its calls are single steps that wait for nobody, and
  what could hold up a request is in the run, the hardware lock, the dialog, the
  device and the helper.
* *server*: one connection more than slots reaches the refusal; two keys are the
  path given and the one it resolves to.
* *preferences*: three keys and room for two reach the limit, with a replaced
  and with a refused entry.
* *touch_popups*: with room for one popup and two devices, an episode waits for a
  place that is taken by a popup that is still being closed; three episodes are
  the one that is shown, its successor on the same device, and the other device's.
* *touch_monitor*: room for one reader with two paths, and for one channel with
  two, reaches both limits. With room for one channel two are never tracked at
  once: that the answer of one does not end the episode of another is checked for
  a channel that is turned away, and proved for any number of channels
  (`NoEpisodeEndsEarly`); the two liveness properties are not checked with two
  tracked channels. Late answers come from the path with one channel. The descriptors are all those that differ in one item
  (missing, replaced, inserted) from two real ones: one where applications of a
  key and of a keyboard follow each other, and one with two report ids, a pushed
  global and nested collections.

Deadlock is checked in every run. Where the program stops, `Finished` or `Rest`
says so; both need everything to be over. Elsewhere the world goes on (the cache
is swept, interfaces are plugged, process numbers reused), and that nothing gets
stuck is said by the liveness properties.

### Fairness

Safety properties are checked and proved without it. The liveness properties
assume that goroutines and processes with something to do are scheduled:

* `PinRequest`, `NoticeRequest`: the handler, the reader of its dialog, the
  goroutine that notices the hangup, the helper and its two goroutines. Each wait
  of the handler is a select with its context or a call with a deadline. The one
  that closes the connection and the one that watches the parent have fairness
  of their own, because the runtime schedules them apart from `App.Run`. Nothing
  is assumed of users, devices, dialogs, ssh, files or clocks.
* `RequestServer`: the accept loop, the function that closes the listener, the
  sweep ticker, and the goroutines of connections, which have a deadline. An open
  request ends for sure only when it is cancelled; accept need not fail.
* `TouchPopups`: `Run` and each goroutine. A select between a cancelled context
  and a process that talks takes the context at last, because a popup talks once.
* `TouchMonitor`: `Run`, and time, because the scan timer and poll's timeout pass.
  Strong fairness of `AsksForTouch` says that a device that waits repeats its
  keepalive, and that some of its repetitions fall into the times at which the
  monitor reads: it does so several times a second, and a keepalive that was sent
  earlier stays in the queue of the node.

### Findings

* `pin_stale_refresh`: the wait view refreshes on a timer and on its button. If
  both frames are under way when the device is found, the second one is read by
  the input view and ends the request with status 1, as if cancelled.
* `pin_refused`: when a device's verdict is there, the handler first asks whether
  its dialog was cancelled (service.go:340) and whether its helper is still there
  (service.go:344), and returns if not; the refused candidate is rejected only
  at service.go:360. A helper that ends, or a user who cancels, while the key
  refuses a cached PIN leaves it cached, and the next request presents it to
  the key again without asking. USAGE.md:29 says "Required verification invalidates
  explicitly rejected PINs", DESIGN.md:243 has the candidate removed, and the lock's
  comment (service.go:32) that concurrent requests do not try the same rejected
  PIN repeatedly.
  `refused` is the history of what devices have refused, `rejected` that of what
  handlers have learnt of it: `RefusedNeverRetried` speaks of the first and is
  violated, `RejectedNeverRetried` of the second and is proved.
* `accept_failure`: if accept fails although nobody asked to stop (no descriptor
  left), `Serve` leaves its loop, which ends the sweeps, and waits for requests
  that nobody cancels. The secrets are neither expired nor wiped meanwhile.

Two more are stated exactly by the properties and recorded by no run of their
own:

* A forget erases the path given and then what it resolves to (ipc.go:348-351). If
  `a` links to `b` when the forget of `a` is asked for, and the link is changed or
  removed between the two calls, `b`'s secret stays, and the client is told
  "forgotten". In the model it takes `ReadForget`, `ForgetGiven`, `Relink`,
  `ForgetResolved`.
* A key whose input report is shared with another application is not watched
  and not counted (linux.go:176), so that `Covered` may be true beside a second key,
  and OpenSSH's popup is suppressed for a key that has none of its own. The
  comment at linux.go:171 says "Unknown layouts must not count as complete coverage
  when deciding whether OpenSSH's own popup can be suppressed", which the code
  does for descriptors with errors only. In the model it takes one path that is
  "shared" and one that is "fido". report_test.go:42 has the parser skip such a
  report.

The leftover frame of the first finding has two more consequences, which no run
records. The handler enumerates again behind a chooser that is already on the
screen, and the chosen index is applied to the new list. And together with the
frame of the busy view it fills the channel and the reader's hand, so that a cancel
during the verification of a cached PIN is not read. All three need a surplus
refresh. Where the timer has sent nothing (`Unrefreshed`), every frame is read by the
view it was sent for: `SelectedAsConfirmed`, `CancelHeard` and `OneUnlessDisturbed`
say so of such requests, `pin_choose` checks them and the proofs cover every
number of views, devices and presses.

A dialog that dies in an error view, or cannot be started for one, also ends its
request with status 1 (`service.go:328` ignores the error), where the design asks for
2. `PresentError` and `LeaveError` say so, no run records it; it is why
`OneUnlessDisturbed` leaves out the requests whose dialogs may crash.

`ParentDeathEnds` speaks of a parent that was read as such. If the parent ends
before `os.Getppid`, the helper watches its reaper and does not end by itself; if
it ends before its start time is read, a stranger with its number may be watched.
ssh ends such a helper with a signal, if it lives to do so.

## Proofs

tlapm proves the theorems for every value of the constants, from the assumptions
named in the modules they speak of: sets are finite, markers (`NoSecret`, `Absent`,
`NoKey`, `Missing`, ...) are not values of the sets they mark, limits are natural
numbers, and positive where the code's are. Two assumptions say more:
`LeaseAssumption` (`CredentialCache`) that leases live for some time (ten minutes,
store.go:15), and `KindsAssumption` (`PinRequest`) that only PIN prompts have keys of
the PIN kind, which is how the service makes them. That of `TouchMonitor` only
fixes names: an interface in which the parser finds a key's report is called
"fido" or "locked", and no descriptor is excluded. TLC evaluates all of them.

| Theorem | Module | Says |
| --- | --- | --- |
| `StoreInvariant`, `TypeCorrect`, `LimitsHold`, `LeasesStayTracked`, `GenerationsAreSound` | `CredentialCacheProofs` | `StoreInv` and its parts |
| `OneCandidatePerCaller` | `CredentialCacheProofs` | `NoSecondCandidate` |
| `CredentialsNeverMutate` | `CredentialCacheProofs` | `OnlyCommitChanges` |
| `CacheImplementsLease` | `CredentialCacheProofs` | `ImplementsLease`, the refinement of `CredentialLease` |
| `HardwareStaysSerialized`, `OneRequestAtTheDevices` | `PinRequestProofs` | `HardwareSerialized`, and mutual exclusion |
| `OnlyVerifiedPinsReturned` | `PinRequestProofs` | `OnlyVerifiedPinReturned` |
| `RejectedPinsNeverRetried` | `PinRequestProofs` | `RejectedNeverRetried` |
| `OnlyDeliveredIsCached` | `PinRequestProofs` | `CachedWasDelivered` |
| `ServiceRemembersRightly` | `PinRequestProofs` | `ServiceInv` |
| `NoHitIsDiscarded` | `PinRequestProofs` | `NothingUsefulDiscarded` |
| `OneMeansCancelUndisturbed`, `ConfirmedDeviceIsSelected`, `CancelIsHeard` | `PinRequestProofs` | `OneUnlessDisturbed`, `SelectedAsConfirmed`, `CancelHeard` |
| `NoticesEndSilently`, `NoticesLast`, `YesWasAllowed`, `ParentsAreOutlived` | `NoticeRequestProofs` | `NoticeInv`, `NoticeLasts`, `YesMeansAllow`, `NeverEarly` |
| `ServerInvariant`, `ForgetsAreComplete` | `RequestServerProofs` | `ServerInv`, `ForgottenIsGone` |
| `PreferencesInvariant` | `DevicePreferencesProofs` | `PreferencesInv` |
| `FileIsDurableMap` | `DevicePreferencesProofs` | `ImplementsMap`, the refinement of `DurableMap` |
| `PopupsStayBounded`, `EpisodesPopUpOnce` | `TouchPopupsProofs` | `PopupsInv`, `OneWorkerPerEpisode` |
| `PopupsTakeReminderSteps` | `TouchPopupsProofs` | the safety part (`Steps`) of the refinement of `TouchReminder` |
| `MonitorInvariant`, `CoveredIsWatched`, `NoEpisodeEndsEarly` | `TouchMonitorProofs` | `MonitorInv`, `CoveredMeansWatched`, `NotClosedEarly` |

Each follows the same argument: an inductive invariant holds initially, every
action keeps it, and it implies the property. What makes each inductive:

* **Cache.** `CacheStoreProofs` proves for each operation that it keeps `StoreOK`.
  `WithinLimits` alone is not inductive: that `Commit` stays within the limit of
  seen records needs `LeasesTracked` (the lease's record is there already, so
  nothing is added), and that needs every operation that drops an entry to drop
  its leases. `GenerationsMeanWhatTheySay` needs `NumbersUsedOnce`: a fresh number
  matches no lease and no record. The four are inductive together.
  `OneCandidatePerCaller` uses `RetryInv`, which adds that every living caller
  that was answered for a file key is in `seen`.
* **Refinement of `CredentialLease`.** The view keeps of the store what is cached
  and not overdue and which leases would still be honoured. Each call is an
  expiry followed by the call proper; a lemma for each of the two says what becomes
  of the view, and the steps of the abstract specification take them together.
  `LeaseInv` adds that with TTL 0 there are no leases. The proof attempt found an
  error of `CredentialLease`: a `Begin` that is answered from the cache may first
  erase another, overdue, secret and draw a number for it, so that the count of
  numbers grows in that step, too, which `Supply` forbade. It takes two keys and a
  deadline between two calls, more than the run's bounds; `Supply` now allows it.
* **Requests.** `HardwareSerialized` is not inductive: a request might be given
  the lock while one that has it is past its return. `HardwareInv` adds that
  whoever holds the lock is at a place from which `Return` is still to come.
  `RequestsInv` adds, for each place of `Handle`, what its local variables say of the
  rest: which candidate it was handed and that an unchanged generation means an
  unchanged entry (`StoreOK` of `CacheStoreProofs` serves here, too); which value
  and device the proof in its hands speaks of, and that it stays good up to the
  answer; that a dialog's frames are those its views send; that what is in
  `rejected` is in the store no longer. `OnlyDeliveredIsCached` and
  `ServiceRemembersRightly` are proved on top of it: of the events of the module
  only `CommitAnswer` fills the store, and it runs after the acknowledgement only.
  They say nothing of what clients of protocol version 1 store.
* **Discarded lookups.** `NothingUsefulDiscarded` speaks of a verified request that
  asks the cache again and throws away what it may find, while its helper waits
  and unless a limit turned it away before. `LookupsInv` says what an earlier
  lookup still means: after a miss nothing is cached for an SSH key, and for a file
  the caller's seen record is there, since a waiting helper keeps its caller out of
  the sweep; after a hit the entry is the one that was handed out, or gone, and
  gone for sure before the cache is asked again. It rests on `HardwareInv`: only a
  holder of the lock stores a PIN, and only PIN prompts have such keys
  (`KindsAssumption`).
* **Frames.** No frame says which view it answers, so the proof has to say whose
  frame it is. `DialogsInv` says that in a dialog without timer refreshes it is
  somebody's turn (`Turn`): the view that asks is on its way to the screen, or on it
  with its controls sensitive, or its one answer is on its way back with at most a
  cancel behind it; or nothing that answers is under way, which is so at every
  place of the handler that does not wait. With it goes a bound on what is under
  way (`LoadOK`): nothing but a cancel where devices are enumerated, and the report
  of the busy view besides while a device verifies, which is what keeps the
  reader from blocking. The lemmas `TurnRead` to `TurnClosed` say what each operation
  of `DialogWorker` does to the turn, and `DialogHeeds`, `DialogShows`, `DialogStays`
  what a step of the handler does, so that each action is an instance of one of them.
* **Notices.** `NoticeIndInv` relates the three processes: what the helper may read
  is what the handler wrote (`InboxOK`), the handler writes consent only for a
  dialog whose first choice was allow (`DialogOK`), the helper's exit has one of the
  causes there are (`HelperOK`). `LifetimeOK` adds to `NeverEarly` whose identity
  and whose pidfd the helper holds at each step of `WaitParent`, and that it holds
  a stranger's or an ended process's only if the parent's number is free or reused.
* **Server.** That nothing is cached after the wipe needs to know, one step
  earlier, that nobody is left: `ShutdownInv` adds that from `wipe` on there is
  no goroutine, no sweep and no listener that could bring a new one. That slots
  are counted right rests on two lemmas about the cardinality of a set to which
  one element is added, or from which it is taken. `ForgetsOK` adds for a forget
  between its two calls that nothing of what the given path held is left, and
  nothing of it comes back whatever is cached anew. Of a former target of the path
  the theorem says nothing.
* **Preferences.** `SaveInv` adds that a `Save` under way is one entry away from
  memory, that its temporary file holds its document once it is written, that it
  runs only where the file was understood, and that the file is among what a power
  loss may leave. From it each step maps to a step of `DurableMap` or a stutter:
  `Rename` to `Put`, everything before it to nothing. That only a synced document
  is renamed is what makes `PowerLoss` a step of the map.
* **Popups.** `PopupsIndInv` adds that the map of `Run` names exactly the
  goroutines that are not collected, each with the episode it was started for,
  that a device's episodes are numbered upwards, and that an episode which is no
  longer to be shown has a cancelled goroutine or none. That the room is kept is a
  cardinality argument over the map. Every step then maps to one of `TouchReminder`
  or a stutter.
* **Monitor.** `WatchInv` adds, per path, that a reader's flag says what its
  tracker says and that a path without a reader has the blank one, and, for the
  places of `Run`, that a round looks only at open readers and that hangups are
  known only during a round. `SinkWithinLimit` follows because the reported paths
  are a subset of the open readers, and every step that opens one has seen room;
  the replacement of a reader under the same name closes before it opens. The
  lemmas `Removed`, `Tracked` and `Leaves` are stated once for the three things
  that steps do to readers. `CoverInv` adds for `CoveredMeansWatched` what a scan
  knows of the paths it has looked at (`LookedAt`): each is among the keys found,
  is passed silently, or has made the scan withdraw the claim.

Only model-checked:

* Liveness: temporal reasoning under fairness, and with it ENABLED, is out of the
  prover's reach. This includes the fairness part of `ImplementsReminder`.
* `DescriptorsUnderstood`: what a fold over a sequence computes needs induction over
  data, which the installed provers cannot do.

## Not modelled, and why

* **Prompt classification** (`askpass`): regular expressions over prompts, without
  state; the model starts from the kind of the request.
* **Configuration, commands**: read once at start; a value is a constant here.
* **Tracing**: no other part reads what it writes.
* **GTK widgets**: focus, layout and wording. What the dialog sends, and when, is
  in `DialogWorker` and `TouchPopups`.
* **Framing, peer credentials, `caller()`**: bytes of a frame are a record; a request
  has its caller given. `caller` may attribute a request to a reaper or a stranger
  if the parent ends during identification; the retry protection is then kept
  under another caller.
* **Packaging, vendored and generated code.**

Known simplifications: a read failure of `/proc` counts as the end of the parent in
the code and does not occur in the model; `devices.json` edited by hand while the
service runs is overwritten by the next `Save` and is not an event of the model; a
preference with an empty device identifier is not written and not modelled;
identifiers have a bounded length, so that a document never exceeds the size `New`
reads.

Left for later: the step refinement that joins `RequestServer`'s reduced cache with
`CredentialLease`; lemmas about single steps of the descriptor parser.
