------------------------------- MODULE Manager -------------------------------
(***************************************************************************)
(* The background sync events of Manager (src/manager.cpp) next to its     *)
(* full syncs: startSyncEvents and stopSyncEvents, the coroutines that     *)
(* watch immediate and deferred configurations and time periodic ones, and *)
(* the DisableSync property that stops and starts them.                    *)
(*                                                                         *)
(* A slot <<g, s>> is one event coroutine of configuration g.  Stopping    *)
(* removes the inotify watches of the DataWatcher, which queues IN_IGNORED *)
(* and so wakes the coroutine; timers find out when they next wake.        *)
(***************************************************************************)
EXTENDS FullSync

CONSTANTS
  Kind,          \* [Cfgs -> {"Immediate", "Deferred", "Periodic"}]: _syncType
  Slots,         \* simultaneous event coroutines of one configuration (bound)
  Spawned,       \* simultaneous calls spawned for one configuration (bound)
  Patient,       \* DisableSync changes only once the last change has settled
  InotifyFails   \* creating a watcher may throw

Coroutines == Cfgs \X Slots
SpawnedCalls == Cfgs \X Spawned

ASSUME ManagerAssumption ==
  /\ Kind \in [Cfgs -> {"Immediate", "Deferred", "Periodic"}]
  /\ Coroutines \cup SpawnedCalls \subseteq OtherCalls
  /\ Coroutines \cap SpawnedCalls = {}
  /\ Spawned # {}
  /\ Patient \in BOOLEAN /\ InotifyFails \in BOOLEAN

VARIABLES
  co,        \* where each event coroutine is suspended
  watcher,   \* the entry of _activeWatchers, and whether stop() was called on it
  unread,    \* configurations whose watcher has an event queued
  ignored,   \* configurations whose watcher has IN_IGNORED queued
  defer,     \* the syncDeferredData coroutine; "idle" is ~_deferredSyncScheduled
  newer,     \* _lastDeferredSyncEventTime is later than the sync under way
  wanted,    \* history: configurations the last startSyncEvents was to serve
  due,       \* history: configurations with a deferred event no sync has covered
  lost       \* history: configurations whose last start found a coroutine of an
             \* earlier one, or got no watcher

watchVars == <<watcher, unread, ignored>>
deferVars == <<defer, newer, due>>
startVars == <<wanted, lost>>
eventVars == <<co, watchVars, deferVars, startVars>>
managerVars == <<vars, eventVars>>

IsMonitor(x) == Kind[x[1]] # "Periodic"
Awaiting(g) == {x \in Coroutines : x[1] = g /\ co[x] = "awaiting"}

ManagerInit ==
  /\ Init
  /\ co = [x \in Coroutines |-> "idle"]
  /\ watcher = [g \in Cfgs |-> "none"]
  /\ unread = {}
  /\ ignored = {}
  /\ defer = [g \in Cfgs |-> "idle"]
  /\ newer = {}
  /\ wanted = {}
  /\ due = {}
  /\ lost = {}

-----------------------------------------------------------------------------
(* Starting and stopping the events.                                        *)

Room == \A g \in Cfgs : \E s \in Slots : co[<<g, s>>] = "idle"
Left(g) == {x \in Coroutines : x[1] = g /\ co[x] # "idle"}
FreeSlot(g) == CHOOSE s \in Slots : co[<<g, s>>] = "idle"

\* MUTANT of StartSyncEvents: only periodic configurations are started.
StartSyncEvents_TimersOnly ==
  LET eligible == {g \in Cfgs : Eligible(g, role)} IN
  /\ Room
  /\ co' = [x \in Coroutines |->
              IF /\ x[1] \in eligible /\ ~IsMonitor(x)
                 /\ x[2] = FreeSlot(x[1])
              THEN "starting" ELSE co[x]]
  /\ wanted' = IF disable_sync' THEN {} ELSE eligible
  /\ lost' = {g \in Cfgs : Left(g) # {}}
  /\ UNCHANGED watchVars

\* startSyncEvents spawns one coroutine for every eligible configuration.
StartSyncEvents ==
  LET eligible == {g \in Cfgs : Eligible(g, role)} IN
  /\ Room
  /\ co' = [x \in Coroutines |->
              IF x[1] \in eligible /\ x[2] = FreeSlot(x[1]) THEN "starting"
                                                            ELSE co[x]]
  /\ wanted' = IF disable_sync' THEN {} ELSE eligible
  /\ lost' = {g \in Cfgs : Left(g) # {}}
  /\ UNCHANGED watchVars

\* MUTANT of StopSyncEvents: the watchers are not stopped.
StopSyncEvents_WatchersKept ==
  /\ wanted' = {}
  /\ UNCHANGED <<co, watchVars, lost>>

\* MUTANT of StopSyncEvents: IN_IGNORED for paths that have no watcher.
StopSyncEvents_EveryPath ==
  /\ watcher' = [g \in Cfgs |-> IF watcher[g] = "live" THEN "stopped"
                                                       ELSE watcher[g]]
  /\ ignored' = Cfgs
  /\ wanted' = {}
  /\ UNCHANGED <<co, unread, lost>>

\* stopSyncEvents calls stop() on every entry of _activeWatchers.
StopSyncEvents ==
  LET live == {g \in Cfgs : watcher[g] = "live"} IN
  /\ watcher' = [g \in Cfgs |-> IF g \in live THEN "stopped" ELSE watcher[g]]
  /\ ignored' = ignored \cup live
  /\ wanted' = {}
  /\ UNCHANGED <<co, unread, lost>>

\* No event coroutine is about to start or to end.
Settled ==
  /\ init = "done"
  /\ \A x \in Coroutines : co[x] # "starting"
  /\ disable_sync => \A x \in Coroutines : co[x] = "idle"

MayToggle == Patient => Settled

\* set_property(disable_sync_t) with disableSyncPropChanged.  The run loop runs
\* the spawned startSyncEvents before it reads the next D-Bus message.
Toggle(disable) ==
  /\ MayToggle
  /\ SetDisableSync(disable)
  /\ IF disable THEN StopSyncEvents ELSE StartSyncEvents
  /\ due' = IF disable THEN {} ELSE due
  /\ UNCHANGED <<defer, newer>>

-----------------------------------------------------------------------------
(* monitorDataToSync and monitorDeferredDataToSync.                         *)

\* MUTANT of DropWatcher: the entry of _activeWatchers stays.
DropWatcher_EntryStays(g) ==
  /\ co' = [x \in Coroutines |->
              IF x \in Awaiting(g) THEN "idle" ELSE co[x]]
  /\ unread' = unread \ {g}
  /\ ignored' = ignored \ {g}
  /\ UNCHANGED watcher

\* The coroutine returns or throws: scope_exit erases the entry by its path,
\* and so destroys the watcher another coroutine may await.
DropWatcher(g) ==
  /\ co' = [x \in Coroutines |->
              IF x \in Awaiting(g) THEN "idle" ELSE co[x]]
  /\ watcher' = [watcher EXCEPT ![g] = "none"]
  /\ unread' = unread \ {g}
  /\ ignored' = ignored \ {g}

\* addDataWatcher throws before there is anything to clean up.
WatchFails(x) ==
  /\ InotifyFails
  /\ co[x] = "starting" /\ IsMonitor(x)
  /\ co' = [co EXCEPT ![x] = "idle"]
  /\ lost' = lost \cup {x[1]}
  /\ UNCHANGED <<vars, watchVars, deferVars, wanted>>

\* The first await on the file descriptor.  emplace keeps an existing entry.
WatchStarts(x) ==
  /\ co[x] = "starting" /\ IsMonitor(x)
  /\ ~disable_sync
  /\ Awaiting(x[1]) = {}
  /\ co' = [co EXCEPT ![x] = "awaiting"]
  /\ watcher' = [watcher EXCEPT ![x[1]] = IF @ = "none" THEN "live" ELSE @]
  /\ UNCHANGED <<vars, unread, ignored, deferVars, startVars>>

\* Sync is disabled again, or the entry found is awaited by another coroutine:
\* a second await on one descriptor throws, and the first is never resumed.
WatchCollides(x) ==
  LET g == x[1] IN
  /\ co[x] = "starting" /\ IsMonitor(x)
  /\ disable_sync \/ Awaiting(g) # {}
  /\ co' = [y \in Coroutines |->
              IF y = x \/ y \in Awaiting(g) THEN "idle" ELSE co[y]]
  /\ watcher' = [watcher EXCEPT ![g] = "none"]
  /\ unread' = unread \ {g}
  /\ ignored' = ignored \ {g}
  /\ UNCHANGED <<vars, deferVars, startVars>>

\* A watched file changes (external).
Change(g) ==
  /\ watcher[g] = "live"
  /\ unread' = unread \cup {g}
  /\ UNCHANGED <<vars, co, watcher, ignored, deferVars, startVars>>

\* MUTANT of ImmediateEvent: the sync starts without the checks of syncData.
ImmediateEvent_Unchecked(x, c) ==
  LET g == x[1] IN
  /\ co[x] = "awaiting" /\ Kind[g] = "Immediate"
  /\ watcher[g] = "live" /\ g \in unread
  /\ unread' = unread \ {g}
  /\ phase[c] = "idle"
  /\ phase' = [phase EXCEPT ![c] = "working"]
  /\ key' = [key EXCEPT ![c] = g]
  /\ UNCHANGED <<disable_sync, health, outcome, fullSyncVars, co, watcher,
                 ignored, deferVars, startVars>>

\* The coroutine reads an event and spawns a sync of the path.
ImmediateEvent(x, c) ==
  LET g == x[1] IN
  /\ co[x] = "awaiting" /\ Kind[g] = "Immediate"
  /\ watcher[g] = "live" /\ g \in unread
  /\ unread' = unread \ {g}
  /\ Ask(c, g)
  /\ UNCHANGED <<fullSyncVars, co, watcher, ignored, deferVars, startVars>>

\* MUTANT of DeferredEvent: an event during a sync does not move the time.
DeferredEvent_TimeKept(x) ==
  LET g == x[1] IN
  /\ co[x] = "awaiting" /\ Kind[g] = "Deferred"
  /\ watcher[g] = "live" /\ g \in unread
  /\ unread' = unread \ {g}
  /\ newer' = IF defer[g] = "idle" THEN newer \cup {g} ELSE newer
  /\ due' = due \cup {g}
  /\ defer' = [defer EXCEPT ![g] = IF @ = "idle" THEN "waiting" ELSE @]
  /\ UNCHANGED <<vars, co, watcher, ignored, startVars>>

\* The coroutine reads an event; deferSync notes its time and spawns
\* syncDeferredData unless it is scheduled already.
DeferredEvent(x) ==
  LET g == x[1] IN
  /\ co[x] = "awaiting" /\ Kind[g] = "Deferred"
  /\ watcher[g] = "live" /\ g \in unread
  /\ unread' = unread \ {g}
  /\ newer' = newer \cup {g}
  /\ due' = due \cup {g}
  /\ defer' = [defer EXCEPT ![g] = IF @ = "idle" THEN "waiting" ELSE @]
  /\ UNCHANGED <<vars, co, watcher, ignored, startVars>>

\* An event queued before stop() is for a watch that is gone: processEvent
\* throws and the coroutine ends with a SyncEventsFailure log.
EventAfterStop(x) ==
  /\ co[x] = "awaiting"
  /\ watcher[x[1]] = "stopped" /\ x[1] \in unread
  /\ DropWatcher(x[1])
  /\ UNCHANGED <<vars, deferVars, startVars>>

\* Only IN_IGNORED is queued.  The loop tests DisableSync and ends, or awaits a
\* watcher that has no watches any more.
WatchEnds(x) ==
  LET g == x[1] IN
  /\ co[x] = "awaiting"
  /\ g \in ignored /\ g \notin unread
  /\ \/ disable_sync /\ DropWatcher(g)
     \/ /\ ~disable_sync
        /\ ignored' = ignored \ {g}
        /\ UNCHANGED <<co, watcher, unread>>
  /\ UNCHANGED <<vars, deferVars, startVars>>

-----------------------------------------------------------------------------
(* monitorTimerToSync and syncDeferredData, which await syncData.           *)

\* MUTANT of TimerLoops: the loop does not test DisableSync.
TimerLoops_DisableIgnored(x) == co' = [co EXCEPT ![x] = "asleep"]

\* The loop of monitorTimerToSync tests DisableSync.
TimerLoops(x) ==
  co' = [co EXCEPT ![x] = IF disable_sync THEN "idle" ELSE "asleep"]

TimerStarts(x) ==
  /\ co[x] = "starting" /\ ~IsMonitor(x)
  /\ TimerLoops(x)
  /\ UNCHANGED <<vars, watchVars, deferVars, startVars>>

\* The period is over, whatever DisableSync did meanwhile.
TimerFires(x) ==
  /\ co[x] = "asleep"
  /\ co' = [co EXCEPT ![x] = "syncing"]
  /\ Ask(x, x[1])
  /\ UNCHANGED <<fullSyncVars, watchVars, deferVars, startVars>>

TimerSynced(x) ==
  /\ co[x] = "syncing" /\ phase[x] = "idle"
  /\ TimerLoops(x)
  /\ UNCHANGED <<vars, watchVars, deferVars, startVars>>

\* The loop of syncDeferredData finds sync disabled.
DeferGivesUp(g) ==
  /\ defer[g] = "waiting" /\ disable_sync
  /\ defer' = [defer EXCEPT ![g] = "idle"]
  /\ UNCHANGED <<vars, co, watchVars, newer, due, startVars>>

\* The quiet interval has passed since the last event.
DeferSyncs(g, c) ==
  /\ defer[g] = "waiting" /\ ~disable_sync
  /\ defer' = [defer EXCEPT ![g] = "syncing"]
  /\ newer' = newer \ {g}
  /\ Ask(c, g)
  /\ UNCHANGED <<fullSyncVars, co, watchVars, due, startVars>>

\* syncData has returned; another event has come meanwhile, or none has.
DeferSynced(g, c) ==
  /\ defer[g] = "syncing" /\ phase[c] = "idle"
  /\ defer' = [defer EXCEPT ![g] = IF g \in newer /\ ~disable_sync
                                   THEN "waiting" ELSE "idle"]
  /\ UNCHANGED <<vars, co, watchVars, newer, due, startVars>>

\* Each deferred configuration awaits its call in one slot.
DeferCall(g) == <<g, CHOOSE s \in Spawned : TRUE>>

-----------------------------------------------------------------------------
(* The steps of FullSync among all this.                                    *)

\* A sync that begins, or finds that nothing is there to copy, covers the
\* deferred events before it.
ManagerCallStep(c) ==
  /\ CallStep(c)
  /\ due' = IF phase[c] = "queued" /\ (phase'[c] = "working" \/ outcome'[c] = "done")
            THEN due \ {key[c]} ELSE due
  /\ UNCHANGED <<co, watchVars, defer, newer, startVars>>

\* init awaits its full sync and goes on to startSyncEvents.
ManagerEndFullSync(fs) ==
  /\ EndFullSync(fs)
  /\ \/ fs = "init" /\ StartSyncEvents
     \/ fs # "init" /\ UNCHANGED <<co, watchVars, startVars>>
  /\ UNCHANGED deferVars

\* With nothing to copy init goes on without suspending; nothing is eligible
\* for startSyncEvents then.
FullSyncStep ==
  /\ \/ \E bmcRole \in Roles, redundancy \in BOOLEAN :
          FetchDone(bmcRole, redundancy)
     \/ \E fs \in Requests : StartFullSync(fs)
     \/ \E bmcRole \in Roles : RoleChanges(bmcRole)
  /\ UNCHANGED eventVars

CoroutineStep(x) ==
  \/ WatchFails(x) \/ WatchStarts(x) \/ WatchCollides(x)
  \/ \E s \in Spawned : ImmediateEvent(x, <<x[1], s>>)
  \/ DeferredEvent(x)
  \/ EventAfterStop(x) \/ WatchEnds(x)
  \/ TimerStarts(x) \/ TimerFires(x) \/ TimerSynced(x)

DeferStep(g) ==
  DeferGivesUp(g) \/ DeferSyncs(g, DeferCall(g)) \/ DeferSynced(g, DeferCall(g))

ManagerNext ==
  \/ FullSyncStep
  \/ \E fs \in FullSyncs : ManagerEndFullSync(fs)
  \/ \E c \in Calls : ManagerCallStep(c)
  \/ \E disable \in BOOLEAN : Toggle(disable)
  \/ \E x \in Coroutines : CoroutineStep(x)
  \/ \E g \in Cfgs : Change(g) \/ DeferStep(g)

ManagerSpec == ManagerInit /\ [][ManagerNext]_managerVars

\* The run loop resumes every coroutine that can go on, and timers expire.
ManagerFairness ==
  /\ \A c \in Calls : WF_managerVars(ManagerCallStep(c))
  /\ \A fs \in FullSyncs : WF_managerVars(ManagerEndFullSync(fs))
  /\ \A x \in Coroutines : WF_managerVars(CoroutineStep(x))
  /\ \A g \in Cfgs : WF_managerVars(DeferStep(g))

ManagerFairSpec == ManagerSpec /\ ManagerFairness

-----------------------------------------------------------------------------
(* Properties.                                                              *)

\* Every variable has the values its declaration allows, and events are queued
\* only for a path that has a watcher.
ManagerTypeOK ==
  /\ co \in [Coroutines -> {"idle", "starting", "awaiting", "asleep",
                            "syncing"}]
  /\ watcher \in [Cfgs -> {"none", "live", "stopped"}]
  /\ unread \subseteq Cfgs
  /\ ignored \subseteq Cfgs
  /\ defer \in [Cfgs -> {"idle", "waiting", "syncing"}]
  /\ newer \subseteq Cfgs
  /\ wanted \subseteq Cfgs
  /\ due \subseteq Cfgs
  /\ lost \subseteq Cfgs
  /\ \A g \in unread \cup ignored : watcher[g] # "none"

\* The background events are a client of the full syncs' world: whatever they
\* do is allowed by FullSync, so its properties hold here too.
FullSyncHolds == Spec

\* Will notice changes of the path, or times its syncs.
Serves(x) ==
  \/ co[x] \in {"starting", "asleep", "syncing"}
  \/ co[x] = "awaiting" /\ watcher[x[1]] = "live"

\* manager.hpp:119-120: "If the Disable sync property is set to true, it stops
\* all sync events. Otherwise, it starts all sync events": every path events were
\* started for is served, however DisableSync changes.
EventsServed ==
  ~InotifyFails =>
    \A g \in wanted : \E s \in Slots : Serves(<<g, s>>)

\* That is so, by one coroutine and no second one (two timers would sync twice as
\* often), for each path whose coroutines had all ended when its events were
\* started and that got its watcher, however DisableSync changed before and does
\* later: what goes wrong comes from starting while a coroutine is left.
ServedOnce ==
  \A g \in wanted \ lost : \E s \in Slots :
    /\ Serves(<<g, s>>)
    /\ Left(g) = {<<g, s>>}

\* If sync stays disabled, every event coroutine and every watcher goes away.
EventsStop ==
  <>[]disable_sync =>
    <>[](/\ \A x \in Coroutines : co[x] = "idle"
         /\ \A g \in Cfgs : watcher[g] = "none" /\ defer[g] = "idle")

\* An event a deferred path has noticed is covered by a sync that begins after
\* it, or will be, unless sync was disabled or that sync was skipped because
\* another call was at work on the path.
DeferredCovered ==
  \A g \in due : defer[g] # "idle" \/ outcome[DeferCall(g)] = "skipped"

\* Its inductive parts.  A disabled service has nothing due and watches nothing.
DisabledQuiet ==
  disable_sync => due = {} /\ \A g \in Cfgs : watcher[g] # "live"

\* The slot of a deferred sync is used by that sync alone.
OwnCall ==
  \A g \in Cfgs : Kind[g] = "Deferred" /\ phase[DeferCall(g)] # "idle" =>
    defer[g] = "syncing" /\ key[DeferCall(g)] = g

\* What covers an event that is due, at each point of syncDeferredData.
DueCovered ==
  \A g \in due :
    LET c == DeferCall(g) IN
    /\ Kind[g] = "Deferred"
    /\ \/ defer[g] = "waiting"
       \/ /\ defer[g] = "syncing"
          /\ \/ g \in newer \/ phase[c] = "queued"
             \/ phase[c] = "idle" /\ outcome[c] = "skipped"
       \/ defer[g] = "idle" /\ phase[c] = "idle" /\ outcome[c] = "skipped"

DeferInv == DisabledQuiet /\ OwnCall /\ DueCovered
=============================================================================
