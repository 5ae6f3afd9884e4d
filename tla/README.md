# Daemons of Chrome OS in TLA+

The repository holds the userspace of Chrome OS: some hundred daemons, libraries
and tools, each a program of its own that talks to the others over D-Bus or
Mojo. This project takes the ones whose control is hardest to test, one at a
time. Four are covered so far:

* **power_manager/powerd**, the path from a suspend request to the moment
  everybody is told that it is over;
* **mojo_service_manager**, which brings together processes that request Mojo
  services with those that provide them;
* **missive**, the storage queue that keeps reporting records on disk until a
  server has confirmed them;
* **trunks**, the resource manager that shares the few objects and sessions a TPM
  can hold among its clients.

They do not call one another on the paths modelled here, so each has its own
specification; what composes components is said below.

## Inventory

### powerd: the suspend path

| part | state | operations | interacts with |
|---|---|---|---|
| `SuspendDelayController` (two instances: normal, dark) | registered delays, delays waited for, internal delays, current id, three one-shot timers, "already notified" | register, unregister, readiness, client gone, add/remove internal delay, prepare, finish, the timers' callbacks | D-Bus clients call it; Suspender prepares and finishes it and is told when all are ready |
| `Suspender` | one of five states, queued events, request and dark ids, fields of the last request, wakeup count, number of attempts, retry timer | `HandleEvent()` with its eight events, readiness callbacks, D-Bus methods | everything below |
| `DarkResume` | whether the last wake was dark | successful resume, exit | read and written by Suspender |
| `ShutdownFromSuspend` | in dark resume, alarm running, alarm fired | prepare for an attempt, dark resume, full resume, alarm | decides before an attempt whether to shut down instead |
| Charge Limit (in `AdaptiveChargingController`) | enabled, sustainer on, discharge timer | start, complete, stop, policy update, resume, prepare for an attempt, shutdown | the one user of internal delays; called from inside Suspender's handlers |
| `Daemon` | shutting down, retry timer for lockfiles, files in `/run` | suspend, shut down, undo the preparation | Suspender's delegate; may raise events while Suspender handles one |
| `AudioClient`, `powerd_suspend`, the kernel's `wakeup_count` | audio suspended and its file; the count | suspend and resume audio; write count and state | called for every attempt |

powerd is single-threaded, so the concurrency is that of its message loop. What
makes it hard: notifications that are posted and outlive the request they were
for; timers that are not stopped on every path; handlers that start another
request or a shutdown from within; clients that answer late, twice or die;
attempts that fail or wake into dark resume again and again; crashes between a
file, a signal and a call; a shutdown that a lockfile postpones.

### mojo_service_manager

| part | state | operations | interacts with |
|---|---|---|---|
| `ServiceManager` | per service: policy, owner, provider pipe, request queue; observers by uid and, for the legacy SELinux policy, by security context | `Register`, `Request`, `Query`, `AddServiceObserver`, disconnect handlers of providers and observers | client processes over Mojo |
| `ServiceRequestQueue` | waiting requests, delayed timeout tasks that hold list iterators | push, take all, reject one on timeout | owned by ServiceManager |

Hard: a pipe is dead long before its handler runs, so providers restart, requests
arrive and timeouts expire in between; two observer maps must agree; a timeout
task must never outlive what its iterator refers to. Correct means that no
request is lost inside the daemon or answered twice, that what `Query()` says and
what `Request()` does agree, and that observers know what is registered.

### missive: StorageQueue

| part | state | operations | interacts with |
|---|---|---|---|
| files | DATA files of records in sequence, one META file per id with the digest of the last record | append, scan, delete | disk |
| queue | next, first and first unconfirmed id, last digest, active reads | write, restart (`DoInit`), upload (`ReadContext`), confirm, shed | uploader, server |
| `WriteContext`s | list of writes in the order of their calls, each being processed, ready or waiting for space | start, processed, failed, resume, degrade, destruct | compression, encryption, other queues that shed files |

Hard: a crash or a failed append leaves half a record; deletion runs on another
sequence; uploads read while confirmations and shedding delete; encryption
finishes in any order; the head of the list may wait for space that other queues
have to give up. Correct means that an id names one record for ever, that nothing
readable is lost unless confirmed or shed, that uploads start early enough and tell
gaps only where something is missing,
that records are stored in order with an unbroken chain of digests, and that
every write is answered.

### trunks: ResourceManager

| part | state | operations | interacts with |
|---|---|---|---|
| objects | virtual handles; loaded ones in LRU order, unloaded ones with a saved context, a reverse map, a cache of public areas | create, use, read public, flush, evict, reload | TPM |
| sessions | per handle and sender: loaded or saved, context, times | start, use (and end), flush, evict, reload, fix the context gap | TPM |
| warnings | the warnings already being fixed | `FixWarnings()`, re-entered from its own fixes | TPM |
| suspend | suspended, since when | suspend, resume, automatic resume | power events |

Hard: every resource is at its limit all the time; the fix of one warning may meet
another; handles wrap around and are reused by the TPM; two containers, a map and
a cache describe one object. Correct means that a live handle works and leads to
the client's own object or session and that nothing is left in the TPM that the
manager does not know of.

### Not modelled

* powerd: `SuspendFreezer`, `StateController`, `InputEventHandler`,
  `ArcTimerManager` and the rest of `AdaptiveChargingController`. Where they matter
  to the suspend path they are choices of the environment. The backlight
  controllers, `PowerSupply` and `MetricsCollector` are numeric or report only.
* mojo_service_manager: policy files and configuration (parsing).
* mojo_service_manager also skips queued receivers that are no longer valid when a
  provider registers; nothing invalidates one while it waits.
* missive: self-destruction of inactive queues, retried initialisation, generation
  ids, the set of cached events, loss of data by a power failure (no `fsync` is made
  and none is promised), compression, encryption, upload and health modules. Deletions
  succeed. At a restart every data file is enumerated: one for which `SingleFile::Create()`
  cannot reserve disk space any more would be left out and deleted by
  `DeleteUnusedFiles()`. An append that fails in its padding only leaves a record that
  can be read once another follows it; in the model it stays torn.
* trunks: parsers, generated code, objects that the TPM flushes by itself
  (`SequenceComplete`, `Clear`), cached public areas of persistent handles. A command
  carries one session at the most, where the code goes through up to three. A save or a
  flush of an object fails only if the TPM does not know the handle, so that the paths of
  `EvictOneObject()` and `EvictObjects()` that skip an object are not taken. The system may
  sleep at any time; after a sleep that finds a session loaded, or an object because the
  manager was not suspended, nothing is said: the manager does not notice, its maps are
  outdated (the next object in the slot may be given the handle of the one that was lost),
  and the model stops (`lost`).
* In the repository: every other daemon, driver, library and tool. The repository
  has about 1.5 million lines of implementation, most of them drivers, generated
  tables, protocol headers, camera and network code; a model of a few thousand lines
  can be faithful to the control of a few daemons and not to all. `dlcservice` and
  `login_manager` are the next candidates. `components` in `PROJECT.json` lists them.

## Modules

| module | what it is |
|---|---|
| `SuspendDelayController` | the class as a record with one operator per method, so that owners compose calls as the code does |
| `SuspendDelays` | one controller with all of its callers and the message loop: a specification of its own |
| `ShutdownFromSuspend`, `ChargeLimit` | the classes of the same name, as records and operators; `ChargeLimit` maps both delay controllers along with its own state, because its calls reach them |
| `Suspender` | the composition: Suspender's state machine, two controllers, Charge Limit, ShutdownFromSuspend, DarkResume, Daemon's part, the world outside, crashes |
| `SuspendBarrier` | what clients are promised, in three variables; `Suspender` implements it |
| `ServiceManager` | the daemon: one action per Mojo call, disconnect handler and delayed task |
| `StorageQueue` | the files and ids of one queue: write, crash and recovery, upload, confirm, shed |
| `WriteContexts` | the writes of one queue between their call and their answer |
| `TpmResourceManager` | the manager and the TPM it talks to; one action per client command |
| `SuspendDelayControllerProofs`, `SuspendDelaysProofs` | lemmas about the controller's operators; the safety of one controller |
| `SuspenderProofs`, `SuspendBarrierProofs` | what Charge Limit may do to the controllers and the safety of the composition; the refinement |
| `ServiceManagerProofs`, `StorageQueueProofs`, `WriteContextsProofs`, `TpmResourceManagerProofs` | the safety of each |
| `MCSuspendDelays`, `MCSuspender`, `MCServiceManager`, `MCTpmResourceManager` | constants for TLC |

How the code maps to them, **powerd**:

* **One task of the message loop is one action.** `HandleEvent()` is split from
  the task that raises the event: whoever raises one appends it to `queue`, and
  no other task runs until `queue` is empty, which is what the nested call and
  `queued_events_` amount to. The gain is that a crash may fall between.
* **Time** is counted in ticks; a timer holds the ticks left or `Off`. `Tick` is
  enabled when nothing is due. A suspend attempt blocks the loop for a number of
  ticks chosen from `AttemptTicks`, which may make timers overdue.
* **Posted notifications** are the field `notify`: starting the one-shot timer
  again replaces the task, finishing a request does not withdraw it.
* **The wakeup count** is kept as its relation to the kernel's: fresh, stale,
  invalid. `SuspendResults` and `CountAfterAttempt` are what `DoSuspend()` and the
  script make of it.
* **Ids** of the two kinds are counted separately from small numbers. Only
  equality matters, each controller sees one kind, and as in the code neither is
  the 0 with which a controller starts. A restarted powerd goes on with fresh
  ids, as `GetInitialSuspendId()` arranges by process id. Dark ids wrap around after
  `DarkIds` of them, much earlier than the `int` of the code, so that a finite model has
  dark resumes without end.
* **Outside** (`outside`) are the things that survive powerd: whether clients last
  got SuspendImminent or SuspendDone, the `suspend_announced` file, what CRAS was
  told and the `audio_suspended` file. The `...Stages` operators list what a handler
  does to them in order; a crash inside the handler leaves one of the stages.

**mojo_service_manager**: pipes are model values passed once; `closed` holds those
whose far end is gone, and a disconnect handler is enabled from then on. A request
queue is a set, since requests leave all at once or one at a time by their own
tasks; `timeouts` holds the tasks that will still run, which `TakeAllRequests()`
cancels by invalidating weak pointers. `view` is what an observer concludes from
a `Query()` when it is added and from the events after that.

**missive**: a data file is the sequence of what was appended to it, whole records
and torn ones, so that recovery and reading work on what is really there. Writing
is two actions, metadata and data, between which a crash or the low-priority
runner may come. In `WriteContexts` the files are left out and a write succeeds or
fails; a failed CHECK, or a call of a deleted context, is recorded in `fault` and
ends the behaviour.

**trunks**: a command is one action, because the code is synchronous; the methods
are operators on one record `m` that yield a new one and a return code, composed as in
the code. `FixWarnings()` is re-entered by the commands that its own fixes send. No
warning is fixed twice, and the only commands with further warnings inside a fix, saving
and loading a session, meet the context gap and one kind of shortage; so three
levels are all there are (`OutsideFixes`, `InsideFix`, `InsideTwoFixes`), each a
function handed to the methods that send. Loops of the code are runs of `Loop`. The TPM answers with a warning when and only when
it is short of slots, handles or room, or at the context gap; whether it reports
a shortage as the specific warning or as `TPM_RC_MEMORY` is the parameter
`general`. An object carries a version so that an outdated context can be told from
a current one.

**External** are timers and time (libchrome), the kernel's wakeup count, Mojo pipes
and the TPM.

## Runs

| run | instance | distinct states | what it shows |
|---|---|---|---|
| `delays` | both controllers, 2 delays, 2 clients, timeouts negative, 0, short and too long, 1 internal delay, 2 requests | 16 thousand | `WaitedAreRegistered`, `NeverStuck`, `ReadyIsReady`, `BoundedWait`, `EveryRequestIsReported` |
| `suspender_clients` | 1 client delay per controller, Charge Limit with every EC outcome, which may be switched off, 2 requests, 1 retry, 2 dark ids | 966 thousand | `SuspendsOnlyWhenReady`, `NoLostWakeup`, and the refinement `KeepsBarrier` |
| `suspender_shutdown` | all flavours and wakeup counts, attempts of 0 and 2 ticks, 3 dark ids, the shutdown alarm, 2 crashes | 134 thousand | `RetriesAreBounded`, `ShutdownReachesSuspender`, `IdleIsClean`, `ToldIsAnnounced`, and under fairness `EveryAnnouncementEnds`, `GivingUpShutsDown` |
| `service_manager` | 2 services, 3 processes (two share a uid, all differ in context), 2 requests, 2 providers, 1 observer, both modes | 162 thousand | `RequestsAreAccounted`, `NoDanglingReferences`, `OwnerMatchesProvider`, `ViewsAreCurrent`, `EventsGoToRequesters`, and under fairness `TimedRequestsEnd` |
| `storage_queue` | 3 writes, files of 2 records, 2 faults (failed append or crash), 1 reader | 744 thousand | `UploadsAgree`, `ReadersKeepTheirFiles`, `NothingElseIsLost`, `UploadsMissNothing` |
| `write_contexts` | 5 writes, space made and taken any number of times | 34 thousand | `StoredInOrder`, `ChainBreaksOnlyAfterFailure`, `QueueHoldsLiveContexts`, `ReadyHeadIsResumed`, and under fairness `EveryWriteIsAnswered` |
| `tpm_objects` | 3 objects, 2 slots, 4 virtual handles, 1 sender | 25 thousand | `RightObjects`, `LiveObjectsWork`, `MapsAgree` |
| `tpm_sessions` | 5 sessions started, 3 tracked, 1 or 2 loaded, gap of 5 saves, 2 senders | 84 thousand | `TypeOK`, `LiveSessionsWork`, `SessionsAgree` |

Bounds.

* powerd: two requests are needed for what one leaves to the next; dark resumes are
  not bounded, and two dark ids tell a current notification from a stale one; one
  retry, because the code only compares with `max_retries_`; a timer of 2 against one of 1 gives
  every order of expiry, with 0 for "at once". Two delays give "the last one" and
  "not the last one". Crashes and client delays are in separate runs because a
  crash forgets all delays. Charge Limit starts by its pref and after resumes; that a
  policy starts it again is left to `delays`, where internal delays come at any time,
  and to the proofs, which are about every policy update.
* mojo: two requests in one queue, one with and one without a timeout; two providers
  for a restart that races with the old pipe's handler; two processes that share a
  uid but not a context for the two kinds of requesters.
* missive: two records per file and three writes give a full file, a file that is
  not full and the file after a torn one; two faults give a fault while recovering
  from another. One reader is enough, since readers share nothing but the count
  of active reads. Five writes cover a head, a middle and a tail with one waiting and
  one to come.
* trunks: two slots and commands with two handles make every command meet its own
  objects when it looks for room; three objects make one of them always unloaded.
  Four virtual handles for three objects make them wrap around. Objects and sessions
  are in two runs: no code path touches both, except that a general shortage evicts
  objects first. One sender is enough for objects, whose sender only breaks ties in
  the order of eviction; sessions are isolated by sender and have two. A gap of five
  saves gives states within three saves of it and states that are not, and three
  session handles, more than can be loaded, as many sessions as `LiveSessionsWork` speaks
  of near the gap.

Symmetry: in the two trunks runs over objects and over senders, which no definition
tells apart; they check no liveness.

Deadlock is checked in the powerd runs, where the environment never stops. It is not
in the others: pipes, writes, objects and sessions are used once and are finitely
many, so that a behaviour ends when all are used up; in `WriteContexts` also when
the process has died, and in `TpmResourceManager` when a sleep has cost something.

Fairness. powerd: the message loop runs what is due and time passes; it is strong
fairness in `Suspender` because handling an event, a step of its own in the model,
disables the other tasks for a moment. upstart restarts powerd. A lockfile is not
held for ever, so a shutdown retried every five seconds gets through. Mojo service
manager: the thread runs delayed tasks and disconnect handlers. missive: posted
tasks run, and every call to another sequence is answered. Nothing is assumed of
clients, users, servers or hardware, except that a suspend attempt returns. Two loops of
the code have no limit and no fairness ends them, so the properties name them: a machine
that sleeps and wakes up into dark resume for ever keeps its clients waiting for
SuspendDone, as attempts are counted from 0 after each such wake (`EveryAnnouncementEnds`,
`DarkWake`); and a write waits for ever if the space that is made for it, or for one before
it, is taken by another queue each time (`EveryWriteIsAnswered`, `SpaceIsTaken`).
Without these exceptions TLC finds both loops.

### Where comments and code disagree

Four runs are expected to violate a sentence of a document or comment, which the
property quotes; `findings` in `PROJECT.json` explains each.

* `doc_dark_resume_waits`: a dark resume may be reported ready twice; the second
  report makes Suspender retry before the retry delay is over, and the retry timer
  that is left over cuts the next dark resume short.
* `doc_written_readable`: after a failed append the next records of the same file are
  answered OK but cannot be read back, and are uploaded as a gap.
* `doc_failed_writes_removed`: a write that fails while an earlier one is still being
  processed ends the daemon in a CHECK.
* `doc_reloaded_latest`: a TPM sequence object that was evicted, reloaded, updated and
  evicted again comes back without the update.

Others of the kind were met while modelling and have no run of their own. In powerd:
the wakeup count that is read again by a stale dark notification, a second
`RequestSuspend()` that overwrites the fields of the request in progress, internal
delays that an idle Suspender refuses after one was removed, a client timeout
shorter than the dark minimum that undercuts it. In missive: META files deleted
before the data is written, a META file that starts with the digest of a failed
write, degradation callbacks that may outlive their context. An upload may also skip a
whole file that can be read: when the last append to a file failed and the next record
opened a new one, the reader comes to the new file with the id that is missing, finds
another at its start, takes the file for corrupt and tells a gap up to the file after
it (`CallRecordOrGap()`). Once the server has confirmed the gap the file is deleted. So
"we do not miss an event that hasn't been uploaded" (`CollectFilesForUpload()`) is true of
the files that are set aside, which is what `UploadsMissNothing` says, and of records as
long as appends succeed; `NothingElseIsLost` counts the ids of a confirmed gap as confirmed.
In trunks: sessions that `Suspend()` does not save, objects that are loaded again when the
manager resumes by itself ten seconds after `Suspend()`, while powerd may still be waiting
(up to twenty seconds, and ten more for each retry) before it sleeps, session shortages that cannot be fixed when all
sessions are saved, and `SendCommandWithSender()`, which drops the sender. Also in trunks:
"the resource manager will perform the necessary evictions and run the command again"
(`resource_manager.h`) has a limit near the context gap. Making room for a session
saves another, which may be refused for the gap; the fix of that reloads and saves
each saved session again, and each save moves the others on. With more than three
sessions the three attempts may all be refused, and the command fails.
`LiveSessionsWork` leaves that case out (`Crowded`).

## Proofs

The specifications that the passing runs check are also proved safe: every invariant
and every action property of the runs, with one exception, and the refinement of
`SuspendBarrier`, hold for every value of the constants. The exception is
`LiveSessionsWork` of `tpm_sessions`, which is proved away from the context gap only. Each proof
goes the same way: an invariant `IInv` that is inductive, one lemma per action that
says it is kept, and theorems that read the property off `IInv` or off one step from
a state of `IInv`. Each `IInv` was model-checked on the run's instance before it was
proved. The bounds of the instances (numbers of writes, requests, crashes) are
constants without an upper limit there.

Assumptions are types of constants, and otherwise: the dark minimum is below the
limit (`DelayAssumption`; the constructor checks it), Charge Limit's delay is one of
the internal delays (`ChargeLimitAssumption`), requests, providers and observers are
different pipes (`ServiceManagerAssumption`), a data file has room for a record
(`StorageQueueAssumption`), the TPM has two object slots, a session slot and as many
saves before the gap as sessions, and there are more virtual handles than objects
(`TpmAssumption`). TLC evaluates each in the runs of its module. One theorem,
`SessionsWorkAwayFromGap`, has a hypothesis of its own, a gap of more than three saves;
the TPMs in use allow 255 or more.

### The delay controller

`SuspendDelaysProofs`: `TypeCorrect`, `WaitedAreAlwaysRegistered`, `NeverStuckHolds`,
`ReadyIsReadyHolds`, `BoundedWaitHolds`.

None of the last three is inductive. `IInv` (in `SuspendDelays`) adds what they
rest on. `ReadyIsReady` needs that a notification is never ahead of the current
id, so that the next request's id is new, and that one for the current id has
set `suspend_readiness_notified_`, so that internal delays are refused
(`ReadinessInv`). `NeverStuck` needs that while something is waited for it is the
*longer* timer that runs, because the shorter one may fire without reporting
(`PendingInv`); that an internal delay is accepted only while it runs follows from
`ReadinessInv` and from the fact that the normal controller has no minimum timer
(`TimersInv`). `BoundedWait` needs that elapsed and remaining time together stay
within the limit (`DeadlineInv`). Most methods either report readiness or leave
less to wait for; one lemma (`ReducingStep`) deals with all of them.

`SuspendDelayControllerProofs` holds the lemmas about the operators, which the proofs
about Suspender use as well: each method maps controllers to controllers, reports
or leaves less to wait for (`Reported`, `Reduced`), and the maximum in
`PrepareForSuspend()` exists (by well-foundedness of the natural numbers).

### Suspender

`SuspenderProofs`: `TypeCorrect`, `SuspendsAreReady`, `WakeupsAreKept`,
`RetriesStayBounded`, `IdleStaysClean`, `AnnouncementsAreKept`, `ShutdownIsSeen`.

* *What may be queued.* A handler that undoes the preparation may raise another
  event. `QueueInv` says which can wait behind the one that is handled: a new request
  and a shutdown, never a readiness or a retry. Without it a stale readiness could be
  taken for that of the next request.
* *Ids.* `IdsInv` says that the controllers know the ids that Suspender will finish them
  with, or wait for nothing, and that no notification is ahead. From that
  `FinishRequest()` leaves nothing behind (`IdleIsClean`), and readiness for the current
  id means readiness (`ReadyInv`).
* *Wakeups.* `WakeupInv` is `NoLostWakeup` also in the middle of a handler, and for the
  dark controller with the longer timer, as above.
* *Shutdown.* `ShutdownInv`: a shutdown that has begun is known or its event is queued.
* *Crashes.* `DownInv`; `ToldIsAnnounced` is inductive because it holds at each of the
  stages that a handler goes through outside of powerd.

Charge Limit runs inside Suspender's handlers and moves both controllers.
The first section of `SuspenderProofs` says how (`BothMoved`): each controller reports, waits for less,
or gets internal delays it may still get. All its methods are dealt with by that
one relation.

`SuspendBarrierProofs` proves `SuspenderKeepsBarrier`, `Spec => KeepsBarrier`: the
initial states map to initial states, and each step between states of `IInv` is one of
the abstract steps or leaves the mapped variables alone. Attempts are the
interesting case: that nobody owes an answer at the first one is `ReadyInv`.

### mojo_service_manager

`ServiceManagerProofs`: `TypeCorrect`, `ReferencesAreValid`, `OwnersAreProviders`,
`ViewsStayCurrent`, `RequestsStayAccounted`, and the action property
`EventsReachRequesters`.

`RequestsInv` adds that every request is in exactly one place (`PlacedOnce`: in one
queue, with one provider, rejected once, or not made yet), that nobody waits for a
service that is bound, and that a new pipe has got nothing. A timeout task finds its
request because of the second. `ObserversInv` says that each entry of the map by uid
has its pair in the map by context and that both are there for the sake of one
process; an event by way of either map then goes to one that may request the service.

### missive

`WriteContextsProofs`: `TypeCorrect`, `StoringKeepsOrder`, `ChainIsKept`,
`QueueStaysLive`, `NoLostResume`. The order of what is stored follows from the order
of the queue and from what is stored being before all of it (`CallOrder`). The chain
of digests needs a chain through the queue as well: every write carries the digest of
the one before it in the queue, and the first, like a write that finds the queue
empty, that of the last one stored or of one that has failed (`Chain`). That the tasks
under way for one context are no more than the writes, however often space is made and
taken, needs their sum, with the writes still to come (`Counted`).

`StorageQueueProofs`: `TypeCorrect`, `IdsNameOneRecord`, `ReadersAreSafe`, and the
action properties `RecordsAreKept` and `UploadsAreComplete`.

* `Layout`: the ids that can be read from a file end before the next file starts, and
  those of the last before the next id to be given out. A torn record ends what can be
  read of a file, so this holds of the readable part only, which is what recovery
  looks at.
* `Uploaded`: what was uploaded came from before the start of some file that is still
  there, and whatever is readable under its id is the same record. So an id that
  was uploaded is not given out again, even by a recovery that finds records
  missing at the end: the file after it bounds the next id from below.
* `ReadersInv`: readers hold closed files only, and position and sequence number of a
  reader agree; so what it hands over has the id that is uploaded with it. Before
  that it stands in the first of its files, and no other one starts at or before the id
  that is due. So `EnsureBlob()` finds the record that is due, if it can be read, in
  this file or at the start of the next (`DueIsRead`, `ReadIsHanded`), and a gap starts
  only where there is none.
* `Passed`: the ids below `first_sequencing_id_` are confirmed or gone. It makes an upload
  that starts there start early enough.
* `StartInv`, `CountsInv`: without files there is nothing, and ids are bounded by the
  writes that were made.

Least and greatest elements of sets of ids come from the well-foundedness of the
natural numbers.

### trunks

`TpmResourceManagerProofs`: `TypeCorrect`, `MapsAlwaysAgree`, `SessionsAlwaysAgree`,
`AlwaysRightObjects`, `LiveObjectsAlwaysWork`, and the action property
`SessionsWorkAwayFromGap`.

*The invariant.* `IInv` is `Settled`, said of the manager, of what clients hold and of the
number of sessions started, with the outcome of the last command; after a sleep that cost
something, where the model stops, only `TypeOK` and `MapsAgree` are left of it (`Damaged`).

* `Slotted`: each loaded object has one entry in the list, and the slot of that entry
  holds a copy of what the client of the handle was given, or an older version of it.
  `MapsAgree` does not say what is in the slots and does not survive an eviction without it.
* `Handed`: each unloaded object has a context that is such a copy; handles that clients
  hold and handles that the manager knows are the same; no two stand for one object.
  `RightObjects` is read off these two. "Older" cannot be left out: the code keeps
  the first context of an object, which `doc_reloaded_latest` is about.
* `Ordered`, `Followed`: the sessions tracked are those of the TPM, in one order of last use,
  no two under one number, and no more are loaded than there is room for. The last
  makes one eviction enough when the TPM says that there is no room.
* A suspended manager has no object loaded, so that a sleep costs it none and leaves
  `Slotted` true; new session numbers are new because all in use are below `started`.

*Fixes.* In the middle of a command the manager is `Good`, that is `Settled` without the
statements about what lies between commands. `Kept(k, j, cmd)` says what fixing a warning may
turn `k` into: a good manager in which nothing is loaded that was not and what `cmd` names is
still where it was. Each fix does no more than that provided the commands it sends are
answered properly (`Answers`): a refusal leaves a kept manager, a success is the TPM's
execution of the request on one. `SendFixingAnswers` shows that the loop of three attempts
answers properly if the commands sent inside its fixes are answered properly; applied to the TPM
itself and then twice to its own result it covers all depths (`ContextsAnswer`).

*Loops.* `LoopKeeps` is the induction: given a set of managers for each turn, such that every
turn leads from its set to the next, the loop ends in the last. It takes these sets as a
function, and goes by the least turn that would leave them.

*Room for objects.* When the slots are full, one holds an object that the command does not
name (`SomeEvictable`): a command names two at most, and the one being loaded has no slot;
with two slots that leaves one. Then the first fix frees a slot and the second attempt succeeds
(`LoadObjectNeedsSlot`, `ProcessInputHandleIs`). A free virtual handle exists by counting:
handles in use stand for different objects, of which there are fewer (`HandleIsFree`).

*Room for sessions.* `Far(k, n)`: the gap is more than `n` saves away. Then a save is
not refused, the session that is evicted is really saved, and the gap is one save closer
(`SavesAtOnce`, `SavedFar`). A command saves three sessions at the most: one for each of two
objects to be reloaded, when the TPM reports their shortage as `TPM_RC_MEMORY`, and one for
the session itself. So from a state that is not `NearGap` the first fix makes room (`RoomIsMade`) and the second attempt succeeds
(`SecondAttempt`, `SessionGetsLoaded`, `StartSucceeds`).

### Model-checked only

* All liveness (`EveryRequestIsReported`, `EveryAnnouncementEnds`, `GivingUpShutsDown`,
  `TimedRequestsEnd`, `EveryWriteIsAnswered`), which is beyond the prover.
* `LiveSessionsWork` within three saves of the context gap. It depends on what the three
  loops of `FixContextGap()` achieve, with the age of every session after every one of
  their saves, and holds for few sessions only; the run covers those.
* The four sentences that the code does not keep.

## Plan

1. *Done*: powerd's suspend path with its abstract barrier, mojo_service_manager,
   missive's storage queue, trunks' resource manager; every safety property of them proved,
   but for sessions near the context gap.
2. Prove `LiveSessionsWork` near the gap, for three sessions: what `FixContextGap()` does to
   the ages of saved sessions, loop by loop.
3. Model more, when there is room for further runs: `SuspendFreezer` and `DoSuspend()`
   in its steps with crashes; the rest of Adaptive Charging; `StateController`;
   self-destruction of missive's queues; `dlcservice`; `login_manager`.
