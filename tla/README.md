# A verification of phosphor-data-sync

phosphor-data-sync runs on both BMCs of a redundant pair and copies configured
files and directories to the sibling with rsync. This directory holds TLA+
modules that model it, the TLC configurations that check them on small
instances, and theorems about them that TLAPS has checked. Line numbers refer
to `src/src/` unless they say otherwise.

## 1. Inventory

The service is one process with one thread. Its coroutines run on the FIFO run
loop of sdbusplus; `_ctx.spawn` only queues a coroutine. What runs between two
`co_await`s is atomic, everything else interleaves. An exception that leaves a
spawned coroutine ends the process and systemd starts it again. The other
processes it meets are the rsync children, the programs that write the synced
files, D-Bus callers, systemd and the service of the sibling.

| component | state | operations | talks to |
|---|---|---|---|
| sync of one path, `Manager::syncData` (manager.cpp 232-764) | `_syncInProgressPaths`, the retry frames of each call | sync, retry, notify the sibling, report a failure | full syncs, events, rsync children, health |
| full sync, `Manager::init`, `startFullSync` (49-87, 975-1089) | FullSyncStatus, SyncEventsHealth, locals of each coroutine | start, poll, publish | spawns `syncData`; called by init and D-Bus |
| background sync events (258-320, 766-973) | `_activeWatchers`, `_deferredSyncScheduled`, `_lastDeferredSyncEventTime`, timers | start, stop, read an event, defer, fire | DataWatcher, `syncData`, DisableSync |
| D-Bus interface (sync_bmc_data_ifaces.cpp) | the three properties | StartFullSync, set DisableSync, restore | Manager, persistence |
| persistence (persistent.cpp) | dbus_props.json | read, read-modify-write | D-Bus interface |
| external data (external_data_ifaces*.cpp) | role, redundancy, position | fetch, follow changes, error log, systemd call | everything that asks for the role |
| DataWatcher (data_watcher.cpp) | watch descriptors, one inotify descriptor | create, read, stop; follows a changing tree | events, notification |
| notification, sending side (notify_sibling.cpp) | a request file | write it | `syncData` sends it by rsync |
| notification, receiving side (notify_service.cpp, manager.cpp 152-230) | request files, one NotifyService each | scan, watch, notify with retries, remove | systemd |
| AsyncCommandExecutor (async_command_exec.cpp) | the child and its pipe | spawn, collect, wait | `syncData` |
| configuration, utility, error log, datasynctool, entry point | parsed once, or none | parse, format, display | |

Hard behaviours: four kinds of callers contend for one path; a call works
through nested retry frames; DisableSync, the role and the configuration's
files change while coroutines sleep; properties have several writers; the
process may die between two writes of its state. `PROJECT.json` lists each of
them under `hazards`, with its line.

What makes each component correct:

- sync of one path: the in-progress mark is held by exactly one call and always
  released; no older copy overwrites a newer one; a change is not silently left
  undelivered; a permanent failure is reported once.
- full sync: the status is InProgress only while one runs; each ends; they
  exclude each other; health shows failures until a full sync without failures.
- events: an eligible path has exactly one coroutine that serves it, as long as
  none of an earlier start is left; none survives disabling, no deferred event is
  dropped.
- persistence: what was published before a crash is restored after it.
- external data: the cached role catches up with the redundancy manager's.
- notification: every request that arrives is acted on at least once, and a
  request that is acted on is removed.
- DataWatcher: the map agrees with the kernel's watches, what is to be watched
  is watched as the tree changes, every change is in an operation, and no event
  ends the monitor.
- command execution: a call waits for its own child and returns its code; the
  thread comes back to everything else.
- dump: a tool never takes an old dump for the answer to its signal, if the old
  one could be removed.

## 2. Modules

| module | models | composed with |
|---|---|---|
| `SyncData` | `syncData`, `retrySync`, `triggerSiblingNotification`, `syncNotifyRequest`, `getTransferredDataBytes`, the rsync children, writers of the files | implements `SyncContract` |
| `SyncContract` | what a caller of `syncData` may rely on | extended by `FullSync` |
| `FullSync` | `init`, `startFullSync`, StartFullSync, both published properties, role changes | calls behave as `SyncContract` |
| `Manager` | `startSyncEvents`, `stopSyncEvents`, the three kinds of event coroutines, deferred syncs, watchers | extends `FullSync` and implements it |
| `Persistence` | the property file, the writes each handler makes, the end and restart of the process | extends `FullSync` |
| `Notify` | the watch on the directory of requests, `NotifyService`, the sibling and its rsync, restarts | on its own: the files are all it shares with the rest |
| `Watcher` | `DataWatcher` with its handlers, the kernel's inotify, the tree and the programs that change it | on its own: its operations are the events of `Manager` |
| `Command` | `execCmd`, its pipe, its child, `waitpid` | extended by `Loop` |
| `Loop` | what shares the thread with `Command`: the role and its match, the dump and the tools that ask for it | implements `Command` |
| `SyncDataProofs`, `SyncContractProofs`, `FullSyncProofs`, `ManagerProofs`, `PersistenceProofs`, `NotifyProofs`, `WatcherProofs`, `LoopProofs` | the theorems | |
| `MCSyncData`, `MCManager`, `MCPersistence`, `MCNotify`, `MCWatcher`, `MCLoop` | instances for TLC | |

A name such as `MayRun_MarkIgnored` is a faulty variant of `MayRun`, kept beside
it: with it in place of the original, the property it is meant for fails.

### SyncData

A call is a slot in `Calls`; `pc` says at which `co_await` it is suspended and
`frame` is the `retryCount` of its innermost frame (an outer frame only passes
the result on, so one number stands for the stack). `inProgress` is the union
of the `_syncInProgressPaths` sets; a *key* is a configuration with a path. A
key `Covers` files. An rsync child reads and sends each file in two steps, so a
`Write` may come between them: `stage` remembers whether the copy it holds is
still current, `dstFresh` whether the sibling's is. `event` holds keys with an
inotify event no monitor has read. Histories: `missed` (a change nobody will
pick up, because of a refusal, a permanent failure, a disabled service) and
`unannounced` (data sent and no notification sent).

`bytes` is the literal data of the running rsync, a sum of `Sizes`.
`getTransferredDataBytes` is what the regular expression makes of the number as
rsync prints it, with a comma after every third digit: the digits before the
first comma, or 0 when there is only one.

`attempts` is the `uint8_t` of `syncNotifyRequest`, modulo `CounterMod`; the
instances use 4 instead of 256, with limits below the maximum.

### SyncContract

A call is idle, queued, working on its key, or reporting a failure. It turns
back if sync is disabled or the key is taken, sets health to Critical before it
reports a failure, and ends. `SyncData!KeepsContract` maps `pc` to these phases
and the last return value to an outcome. A call that is skipped and one that
finds nothing to send both succeed: that is what the code returns.

### FullSync

A full sync is `"init"` or a slot in `Requests`; `spawned` are the
configurations it started a call for, `<<fs, cfg>>` the slot of that call.
`EndFullSync` is the 50 ms poll that finds every call back. `FetchDone` is the
moment `init` continues after its two fetches. D-Bus messages are read between
two turns of the run loop, so a spawned `startFullSync` has taken its first step
before the next message is handled: `StartFullSync` is one action.
`isSiblingBmcNotAvailable` always returns false in the source and has no guard.

### Manager

A slot `<<g, s>>` is an event coroutine of configuration `g`. `watcher[g]` is
the entry of `_activeWatchers`: absent, live, or stopped with its coroutine not
yet resumed. `stop()` removes the inotify watches, which queues IN_IGNORED; the
coroutine wakes, tests DisableSync and ends. What is subtle in the code and kept
here: `emplace` keeps an existing entry; the `scope_exit` of a coroutine erases
by path, hence also an entry that another coroutine awaits; a second await on
one descriptor throws (external: sdbusplus `fdio`) and the first waiter is never
resumed; timers look at DisableSync only when they wake. Histories: `wanted`, the
paths the last start was to serve, and `lost`, those of them whose start found a
coroutine of an earlier one (which a quick disable and enable leaves behind), or
got no watcher. `ManagerCallStep` and
the other wrappers add to the steps of `FullSync` what happens to the events.
Time is abstracted: a sleep ends at any later step. Hidden files, masks and
include and exclude lists are decided before an event is one here.

### Persistence

A handler of `FullSync` changes properties; `todo` is the set of keys its
setters have still to write, in the fixed order of the code, and no other
handler runs before it is empty. Every write empties the file (`Truncate`:
`file` becomes what an unparsable file means, the defaults) and then fills it
(`WriteFile`), or fails (`WriteFails`). `Restart` may come between any two
steps: it keeps the file and loses everything else. `lost` is a history of the
keys whose write has failed, which the code only logs.

### Notify

`entry[r]` is what rsync has made of request `r` in NOTIFY_SERVICES_DIR: a
hidden temporary file, half or fully written, or the file it is renamed to.
`sender` and `sends` are the sibling's `syncNotifyRequest`. The look into the
directory (`CheckDirectory`) and the watch (`Watch`) are two actions, because
rsync may rename a file in between; the scan is queued by the first and runs
after the second, before any event is read (the run loop is FIFO). A handler is
named `<<request, path, run>>`, so that one made by the scan and one made by an
event for the same file are two, as in the code, and a temporary file of a later
rsync run is not taken for the earlier one. An exception that leaves a handler
ends the process: `Start` is then `Restarted`. A request of a Mode other than
Systemd names no service here; its handler never suspends. `served` and
`slipped` are histories.

### Watcher

A path is the sequence of its names. The kernel's side is `mark`, which follows
an object when it is renamed and goes when it is deleted; the program's side is
`watches`, the keys of `_watchDescriptors`. A descriptor is the path it was
added under and a number, so that the path the map holds for it needs no second
variable.

The constructor and the handlers make many system calls, and other programs run
between them. `ReadEvent` takes one event and computes its `job`: the parents that
were found to exist, what is listed and not visited, which watch is removed at the
end, which operation is returned. Each step of the job (`WatchParent`,
`ListDirectory`, `Visit`, `LookAtInclude`, `Return`) is one look at the tree or one
watch added, and any operation of another program may come between two of them.
When what is to be watched is gone, or there is no room for a watch,
`inotify_add_watch` fails and the exception ends the monitor (`StepFails`, `Fail`).
`MaskFor` is the watch that is due for a path a walk has listed, and `PassedBy` the
one on its parent that the walk of `processCreate` removes with it. `stop()` comes
only between handlers: there is one thread.

The code compares many paths as strings. `NamePrefixes` are the pairs of names of
which the first starts the second; `NameStarts` and `Starts` are `starts_with`
without and with the slash at the end of a directory, so that a neighbour with such
a name is taken for a path on the way, as in the code.

Renames are pairs in `cfg.renames`, and stand for their cookies; a rename from a
hidden name is rsync's. Directories are not renamed. `WatcherAssumption` names
what a configuration is: one list at most, of paths inside the configured one,
and whatever is on the way to a path is a directory. Histories: `dirty`, data
changed and in no operation since; `raced`, a program changed what the handler at
work had looked at (`Overtakes`). Hidden files count as data nowhere, as in the
code.

### Command and Loop

A call of `execCmd` reads one buffer at a time and suspends in between; then
it enters `waitpid`, and the thread is not `Free` for anything else. `result`
holds whose exit code was returned, not the code itself. `left` and `pipe` count
buffers, so a pipe can be full. `pipe()` is called without O_CLOEXEC and a child
closes only the read end of its own pipe: it has those that were open when it was
spawned (`inherit`) until it exits. A child ends early (SIGPIPE) only when neither
the thread nor another child has its pipe open. A call whose spawn failed has no
child: its pid is -1 and `waitpid` takes any child. `Jammed` is the hang these two
can lead to: the thread waits for a child that cannot end before the thread reads.

`Loop` adds two other users of the thread. The role: `Answer`, `Fetched`,
`Subscribe` and the signals of the match; the n-th role is the number n, which
tells a stale one from a current one. The dump: the old file is removed, the new
one opened and written while the thread is busy, and tools send signals, wait,
and read at any point in between. Removing may throw: the signal is consumed, the
old file stays, and `kept` says so until the next signal. `cast` picks who takes
part in a behaviour, so that one run covers the combinations without their
product.

## 3. Runs

Passing:

| run | instance | shows |
|---|---|---|
| `sync_main` | 2 calls, one path with a notification and an include list, one retry; 85 000 states | marks are exact and given back, nothing is overwritten by an older copy or silently stale, changes settle, each failure is reported once, the contract is kept, also under fairness |
| `events_deferred` | one deferred path, 2 coroutines, init and a requested full sync, DisableSync at any time, failing watchers; 423 000 states | types; a deferred event is covered or was skipped; a path that was started with no coroutine left over has one that serves it |
| `events_main` | a periodic path synced both ways and an immediate path of the active BMC, 2 coroutines each, init's full sync, `Patient` | every path has one coroutine that serves it and no second, everything stops when disabled, full syncs end with their calls, health is right, the events only do what `FullSync` allows |
| `persistence_main` | 1 configuration, init, one requested full sync, one other caller, restarts and failing writes anywhere; 1 060 000 states | full syncs exclude each other, the file follows the properties, restarts restore them and never lock full syncs out |
| `notify_main` | a request with a service, sent up to twice, and one without; one kill or loss of power; 257 000 states | requests are served before they are gone, none is forgotten, all are served |
| `watch_main` | seven configurations over a tree of two directories and four files, other programs between any two steps of a handler, `Patient`; 434 000 states | map and kernel agree, no entry outlives its watch; while no handler is overtaken, every change is reported, what is to be watched is watched, no event ends the monitor |
| `loop_main` | three calls; two and the role; one and a tool; two tools; everything may fail | codes are returned once and to whom they belong, the role is followed, dumps are fresh if the old one could be removed, calls end and the thread comes back but for a jam |

Two or three actors per path are what every hazard in the list needs: the owner
of a mark, one that finds it, and one that comes between. Two slots per
configuration let an old and a new coroutine meet. One retry reaches every
branch of the retry code: first frame, inner frame, limit. Three calls of a
command are one that failed to spawn, the one whose child it takes, and a third
that is waited for meanwhile, or two that have the read end of the third; a pipe of
one buffer and a child that writes two make a full pipe. `MaxQueue` is 1, so at
least two operations of other programs are unread at a time, each with up to three
events; the tree has a parent, a configured directory, one in it and files in
both, which is the depth at which a watch moves. `Numbers` are enough for every
descriptor that unread events name. `Sizes` has a size without a comma and one
with a comma after its first digit.

Premises are constants, so that a run states them:

- `Patient` of `Manager` (`events_main`): DisableSync changes only when `init` is
  done, no coroutine is starting and, if sync is disabled, all have ended. The run
  is about everything else. `events_toggle` and `events_deferred` are without it,
  and so is the theorem about `ServedOnce`.
- `EarlyRequests`: whether StartFullSync is called before `init` has the role.
- `Patient` of `Watcher` (`PatientAbout`): other programs do not change a
  directory, an included file or what a parent's watch waits for while the last
  event about it is unread. Files in a watched directory change at any speed, and
  once an event is read anything may change under its handler. A handler that is
  overtaken by a change of what it is about is `raced`: `AllWatched`,
  `NoLostChange` and `NeverFails` say nothing from then on, since the code then
  does miss changes and end monitors.
- `IncludesStay`: the paths of an include list are not removed.

Runs in which a statement of the repository is violated, each a finding in
`PROJECT.json`:

| run | what happens |
|---|---|
| `sync_announce` | 1,500 bytes are sent, read as 0, and not announced to the sibling |
| `events_toggle` | disable and enable before a monitor has resumed: the new monitor gets the stopped watcher, or loses its own, and the path is no longer watched |
| `notify_leftover` | half a temporary file stays after a loss of power; the scan makes a handler of it, which throws at every start, and pending requests are not processed |
| `watch_neighbour` | the shipped `nvram/PHYP-NVRAM-CKSUM` does not exist; `nvram` is made with `PHYP-NVRAM` in it, whose name starts the configured one: the monitor moves its watch there and off `nvram`, and the configured file is never seen |
| `watch_fails` | the configured file is deleted, its parent is found to exist and removed before the handler has a watch on it: the exception ends the monitor |

Seen on the way, and easy to see again by changing a configuration.

- `sync_announce` with `Sizes = {1}`: an attempt sends the data and fails, the
  retry finds nothing left to send, and nothing is announced.
- With `MaxRetry = 3` in `MCSyncData_main.cfg` (the largest value of the
  counter, 255 in the code) the notify loop never ends, because
  `retryAttempts > max` cannot become true.
- With `EarlyRequests = TRUE` in `MCPersistence_main.cfg` two full syncs run at
  once: StartFullSync is accepted while `init` fetches the role, and `init` does
  not look at the status. `OneFullSync` is stated for `~EarlyRequests`, so that
  run does not report it. A full sync that ends after sync was disabled replaces
  Paused by Ok.
- With `Patient = FALSE` in `MCManager_main.cfg` a periodic path gets two timers
  (a timer sleeps through the disable and the enable), against manager.hpp:119-120.
  `ServedOnce` holds all the same: it leaves out a path that was started while a
  coroutine of an earlier start was left (`lost`), and says that a second coroutine
  has no other cause.
- A deferred sync that finds another sync at work on the path is skipped and
  counts as done: its events are dropped (what `DeferredCovered` exempts).
- When events are stopped while one is queued, the monitor ends by an exception
  and logs SyncEventsFailure (`EventAfterStop`, `ReadAfterStop`).
- A process that ends between emptying and writing the property file (`Truncate`,
  then `Restart`) comes back with sync enabled.
- While a configured file does not exist, a directory made on the way to it (`c`,
  for `c/f`) is handed, whole, to rsync, and so is any file removed from the parent
  that is watched (data_watcher.cpp:714, 841), although manager.hpp:203 calls it
  "The modified path inside the cfg path".
- With an include list, a file that is written and removed before its event is read
  ends the monitor (data_watcher.cpp:580).
- What is listed by a walk and removed before its watch is added ends the monitor
  (data_watcher.cpp:299-312, 649-693); what is made in a directory that a walk has
  just watched, and whose watch it then moves on, is looked up with `at()` and ends
  it too.
- With an include list, a directory made in the parent of an included path while a
  handler walks that parent is watched, its events are ignored, and its entry
  outlives it (the exemption in `NoStaleEntry`).
- With a rename of `x` to `c/f` for `FileConfig` in `MCWatcher`, `NoLostChange`
  fails: the watch on the parent of a file that does not exist yet has no
  IN_MOVED_TO, so a file put in place by a rename is neither synced nor watched.
- With the include path `c/d/f` of a configured `c`: when `c/d` is deleted,
  `processDeleteSelf` (data_watcher.cpp:798-833) looks for a parent only if the
  deleted path is on the way to the configured one. Nothing waits for `c/d/f` any
  more; `AllWatched` and `NoLostChange` fail.
- With a directory `c/.h`: its creation is skipped with the other hidden names
  (data_watcher.cpp:483-492), so it is not watched, although one that exists at the
  start is (`AllWatched`).
- With `Patient = FALSE` and no include list, a configured directory that is
  deleted and made again before the deletion is read gets the watch of a path that
  is waited for, on itself, and what was made in between is lost (`AllWatched`,
  `NoLostChange`).
- With `Patient = FALSE` and the include path `c/d/f`, a directory `c/d/e` beside it
  is watched when `mkdir -p` has made it, and when it is deleted its entry stays in
  the map, without any race (`NoStaleEntry`).
- With `IncludesStay = FALSE` in `MCWatcher_main.cfg`, `AllWatched` fails: an
  included path that is deleted and made again is not seen.
- Without the last disjunct of `TooEarly`, `NoLostChange` fails: the parent of
  a missing include path is made together with data in it, its creation returns
  no operation, and the data waits for a full sync.
- With `Patient = FALSE` in `MCWatcher_main.cfg`, `NeverFails` fails without an
  include list too: the watch on a parent is removed when what it waited for
  appears, and the next event read of it is looked up with `at()`.
- A call whose spawn failed returns the exit code of another call's child
  (`WaitAny`), which async_command_exec.hpp:88 gives as "-1 on failure"; that
  other call then returns -1 and is retried.
- Without `missed`, `CacheFollows` fails: a change of the role between the answer
  and the match is not seen, although manager.cpp:63-69 wants the cached state
  updated "whenever the role changes".
- A role change leaves the monitors of the old role running.
- A tool that reads while its signal is still pending, because the thread is in
  `waitpid`, shows the previous dump (`late`).

## 4. Fairness

Weak fairness of each call's, coroutine's and full sync's own steps: the FIFO
loop resumes what is ready, timers expire, and rsync children and D-Bus calls
are assumed to return. Nothing is assumed of the environment: writers, D-Bus
callers, tools and role changes need never act. `SyncData` has strong fairness
for the reading of an event, because there a free slot in `Calls` is needed,
which the code, spawning without limit, does not wait for. `Notify` assumes that
rsync runs end, one way or the other, and is fair to the handlers of a request
taken together; kills are finitely many. `Watcher` is fair to the reading of
events only. `Loop` is fair to each call that was started, to the writing and
the ending of each child, to the steps of the role other than its changes, and
to the writing of a dump; no call has to be started.

## 5. Proofs

All for any configurations, calls, slots, trees and limits that satisfy the
named assumptions of the modules: slots of different callers are disjoint, keys
exist, the retry limit fits its type, paths have their parents.

- `SyncDataProofs`: types; the mark of a key is held by exactly the one call
  working on it (`MarkExactness`); a failure is reported once
  (`ReportsAreExact`); a file that one key alone copies is never overwritten by an
  older copy, and when stale it is pending, on its way or accounted for
  (`StalenessIsAccounted`). A file in an Immediate directory has two keys, its own
  in the monitor's calls and the directory's in a full sync, and of it neither is
  true: `RacesNeedTwoKeys` says, for any configuration, that an older copy becomes a
  danger only when a call of another key of the file delivers the newer one
  meanwhile. Each invariant is strengthened with what the `pc`, the frame and the
  mark of a call have to do with each other.
- `SyncContractProofs`: `ContractKept`, `SyncData` implements `SyncContract`.
  Every action maps to one phase change or a stutter; `MarkExactness` is what
  makes "key in the mark set" and "another call works on the key" the same.
- `FullSyncProofs`: types, `NeverLocked`, `FullSyncsExclusive` (for
  `~EarlyRequests`, strengthened by: no full sync while `init` fetches),
  `CallsBelong`, `PausedIsDisabled`, `CriticalStays`.
- `ManagerProofs`: `EventsAreClients`, `Manager` implements `FullSync`, so all
  the above holds next to the events; types; `DeferredEventsCovered`. The last
  needs the inductive invariant `DeferInv`: nothing is due and nothing watched
  while disabled, the slot of a deferred call is used by its own coroutine
  only, and each event that is due is waiting, newer than the sync under way,
  queued with it, or skipped. `EveryPathIsServedOnce` (`ServedOnce`) is for every
  behaviour, however DisableSync changes. It is not inductive; `EventsInv` says what
  it rests on, for paths that are not `lost`: one coroutine at most, a watcher only
  where a coroutine awaits it, a stopped watcher only while sync is disabled.
  `FullSyncsAmongEvents` repeats the theorems of `FullSync` for behaviours with
  events.
- `PersistenceProofs`: types; `NeverLockedByRestart` (strengthened by: InProgress
  is neither in the file nor on its way to it); `FileIsCurrent`, which is
  inductive because a handler hands every key it changes to the setters, and
  `RestartsRestore`, which follows from it.
- `NotifyProofs`: types; `RequestsKept`, from: a request that was moved in is
  there until it has been served, whether or not the sibling knows; and
  `RequestsKnown`, from the same statement for the time between the look and the
  watch.
- `WatcherProofs`, with other programs at work between any two steps of a handler.
  The common ground are lemmas about paths: the prefixes of a path are ordered, and
  the nearest existing parent is there and is the longest of them (the least
  number principle, applied to lengths).
  - `WatcherTypeCorrect`: what a handler has still to do consists of paths and
    descriptors there are, whatever happened to them meanwhile.
  - `MapIsExact`, from `MarksInv`: whatever is made, renamed over and deleted, every
    mark of the kernel has its entry and no two marks share a descriptor. A watch
    that is added keeps this because its descriptor is new, or is the one its object
    had; the programs' operations only move or remove marks.
  - `KernelInv`: the tree is closed under parents, a directory's mark is under its
    own path, every event says where it happened, and what has reported its
    deletion has no mark.
  - `EntriesAreLive` (`NoStaleEntry`), for `ListsPremise`: patience, or no include
    list. `EntriesInv` adds that no entry is of a path the lists rule out (`Fit`),
    whose deletion `processEvent` would ignore; that the same is true of everything
    the job at hand will still watch (`WalkOK`), also where a string is taken for a
    prefix; that the handler of a deletion removes the entry at the end; and that an
    include path's parent is empty while its creation is not handled. With an
    include list this holds until a handler is overtaken (`Quiet`).
- `LoopProofs`: types; `LoopRunsCommands`, by which `CodesAreExact` (`CodesExact`)
  carries over from `Command` to `Loop`. The invariant under it says who may have taken a
  child: a child that is reaped was returned by one call, and by its own if that
  one had a child. `JamsAreForGood`: no step ends a jam, so what `CallsEnd` and
  `ThreadReturns` exempt is a hang and not a delay; it needs that one call at most is
  in `waitpid`, and that a call that reads has its pipe open. `RoleIsFollowed` is
  from: the last signal that is not handled holds the manager's role.
  `DumpsAreFresh` is from: the signal is pending, or the file is absent, a part,
  not older than what the tool asked for, or could not be removed.

`Manager` refines `FullSync`, and `FullSync` relies on the contract `SyncData`
refines: that is the chain the safety results travel along.

Only model-checked: everything under fairness (`Settles`, `KeepsFairContract`,
`EventsStop`, `FullSyncEnds`, `RequestsServed`,
`ChangesReported`, `CallsEnd`, `ThreadReturns`), for liveness is not in the reach
of the proof system; `NoStaleOverwrite` and `NoSilentStale` for all the files at once;
and `NoLostChange`, `AllWatched` and `NeverFails` of `Watcher`. These three rest on
what no other program has done between the steps of a walk, for every point a walk
can be at; their invariant has not been worked out.

## 6. Not modelled

- Parsing of the configuration: straight-line, once, at start-up; its result is
  the constants.
- Error logs and FFDC: formatting and files. When a log is written, and that the
  caller waits for it, is in `SyncData`.
- datasynctool but for the dump: one call or one read, then display. Its D-Bus
  calls are those of any caller, which `FullSync` and `Manager` have.
- The content and the name of a notification request, directory creation at
  start-up, and the entry point: no control state that another part depends on.
- Times: a sleep ends at any later step. The clocks of the two BMCs, by which
  rsync's `--update` decides for bidirectional paths, are not in the models.
- Files shared between modules: that a change falls between init's full sync and
  the creation of the watchers is in no module, since the full sync and the
  watched tree are in different ones; a model of both would have the state of
  each.
- The overflow of the inotify queue, which loses events whatever the program does
  short of looking at the tree again.
