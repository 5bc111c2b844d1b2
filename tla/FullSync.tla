------------------------------ MODULE FullSync ------------------------------
(***************************************************************************)
(* Manager::init and Manager::startFullSync (src/manager.cpp), with the    *)
(* D-Bus method that starts a full sync and the FullSyncStatus and         *)
(* SyncEventsHealth properties they publish.                               *)
(*                                                                         *)
(* A full sync is a coroutine: the one init awaits, or one spawned by a    *)
(* StartFullSync call.  It spawns a syncData call for the path of every    *)
(* configuration its BMC is the source of, polls until all have ended, and *)
(* publishes the result.  The calls are those of SyncContract.             *)
(***************************************************************************)
EXTENDS SyncContract

CONSTANTS
  Cfgs,          \* configurations; each is also the key of its own path
  Direction,     \* [Cfgs -> directions]: _syncDirection
  Requests,      \* slots for full syncs started over D-Bus (bound)
  EarlyRequests  \* whether StartFullSync is called before init has the role

FullSyncs == Requests \cup {"init"}
CallsOf(fs) == {fs} \X Cfgs

ASSUME FullSyncAssumption ==
  /\ Cfgs \subseteq Keys
  /\ Direction \in [Cfgs -> {"Active2Passive", "Passive2Active",
                             "Bidirectional"}]
  /\ "init" \notin Requests
  /\ FullSyncs \X Cfgs \subseteq Calls
  /\ EarlyRequests \in BOOLEAN

VARIABLES
  role,             \* ExternalDataIFaces::_bmcRole
  init,             \* how far Manager::init is
  running,          \* live startFullSync coroutines
  spawned,          \* the configurations each of them has spawned a call for
  fullSyncStatus    \* the FullSyncStatus D-Bus property

fullSyncVars == <<role, init, running, spawned, fullSyncStatus>>
vars == <<contractVars, fullSyncVars>>

Roles == {"Unknown", "Active", "Passive"}
Statuses == {"NotStarted", "InProgress", "Completed", "Failed"}

-----------------------------------------------------------------------------
\* isSyncEligible, for a BMC with this role.
Eligible(cfg, bmcRole) ==
  \/ Direction[cfg] = "Bidirectional"
  \/ Direction[cfg] = "Active2Passive" /\ bmcRole = "Active"
  \/ Direction[cfg] = "Passive2Active" /\ bmcRole = "Passive"

\* Restored properties, with no crash between two writes of the file (that is
\* the subject of Persistence).  InProgress is never persisted; Ok may have
\* been while sync was disabled, by a full sync that ended then.
Init ==
  /\ ContractInit
  /\ health = "Paused" => disable_sync
  /\ role = "Unknown"
  /\ init = "fetching"
  /\ running = {}
  /\ spawned = [fs \in FullSyncs |-> {}]
  /\ fullSyncStatus \in Statuses \ {"InProgress"}

\* MUTANT of Publish: a failed full sync leaves the status as it is.
Publish_FailureForgotten(good) ==
  /\ fullSyncStatus' = IF good THEN "Completed" ELSE fullSyncStatus
  /\ health' = IF good THEN "Ok" ELSE health

\* The end of startFullSync, once its calls have returned.
Publish(good) ==
  /\ fullSyncStatus' = IF good THEN "Completed" ELSE "Failed"
  /\ health' = IF good THEN "Ok" ELSE health

\* startFullSync up to its first suspension.  With nothing to spawn it does
\* not suspend at all.
BeginFullSync(fs, cfgs) ==
  /\ spawned' = [spawned EXCEPT ![fs] = cfgs]
  /\ \/ /\ cfgs = {}
        /\ Publish(TRUE)
        /\ UNCHANGED <<running, callStates>>
     \/ /\ cfgs # {}
        /\ running' = running \cup {fs}
        /\ fullSyncStatus' = "InProgress"
        /\ phase' = [c \in Calls |-> IF c \in {fs} \X cfgs THEN "queued"
                                                           ELSE phase[c]]
        /\ key' = [c \in Calls |-> IF c \in {fs} \X cfgs THEN c[2] ELSE key[c]]
        /\ outcome' = [c \in Calls |-> IF c \in {fs} \X cfgs THEN "none"
                                                             ELSE outcome[c]]
        /\ UNCHANGED health

\* init after the configuration is parsed and the redundancy manager has
\* answered.  A failing fetch ends the process.
FetchDone(bmcRole, redundancy) ==
  /\ init = "fetching"
  /\ role' = bmcRole
  /\ \/ /\ redundancy /\ ~disable_sync
        /\ init' = IF \E g \in Cfgs : Eligible(g, bmcRole) THEN "fullSync"
                                                           ELSE "done"
        /\ BeginFullSync("init", {g \in Cfgs : Eligible(g, bmcRole)})
     \/ /\ ~redundancy \/ disable_sync
        /\ init' = "done"
        /\ UNCHANGED <<running, spawned, fullSyncStatus, health, callStates>>
  /\ UNCHANGED disable_sync

\* MUTANT of MayStart: a running full sync is no obstacle.
MayStart_TwiceAllowed(fs) == ~disable_sync /\ fs \notin running

\* The checks of the D-Bus method (the sibling always counts as available).
MayStart(fs) ==
  /\ ~disable_sync
  /\ fullSyncStatus # "InProgress"
  /\ fs \notin running

\* method_call(start_full_sync_t) and the full sync it spawns, which the run
\* loop starts before it reads the next D-Bus message.
StartFullSync(fs) ==
  /\ MayStart(fs)
  /\ init = "fetching" => EarlyRequests
  /\ BeginFullSync(fs, {g \in Cfgs : Eligible(g, role)})
  /\ UNCHANGED <<disable_sync, role, init>>

\* MUTANT of CallsReturned: the poll stops at the first call that returns.
CallsReturned_FirstSuffices(fs) == \E c \in CallsOf(fs) : phase[c] = "idle"

\* The poll finds that every spawned call has returned.
CallsReturned(fs) == \A c \in CallsOf(fs) : phase[c] = "idle"

EndFullSync(fs) ==
  /\ fs \in running
  /\ CallsReturned(fs)
  /\ Publish(\A g \in spawned[fs] : outcome[<<fs, g>>] \in Successes)
  /\ running' = running \ {fs}
  /\ init' = IF fs = "init" THEN "done" ELSE init
  /\ UNCHANGED <<disable_sync, callStates, role, spawned>>

\* watchRedundancyMgrProps.
RoleChanges(bmcRole) ==
  /\ init # "fetching"
  /\ role # bmcRole
  /\ role' = bmcRole
  /\ UNCHANGED <<contractVars, init, running, spawned, fullSyncStatus>>

\* Monitors, timers and deferred syncs use the remaining slots.
OtherCalls == Calls \ (FullSyncs \X Cfgs)

CallStep(c) == Progress(c) /\ UNCHANGED fullSyncVars

\* MUTANT of SetDisableSync: enabling and disabling hide a critical failure.
SetDisableSync_CriticalHidden(disable) ==
  /\ disable_sync # disable
  /\ disable_sync' = disable
  /\ health' = IF disable THEN "Paused" ELSE "Ok"
  /\ UNCHANGED <<callStates, fullSyncVars>>

\* MUTANT of SetDisableSync: the health of the old value is kept.
SetDisableSync_HealthKept(disable) ==
  /\ disable_sync # disable
  /\ disable_sync' = disable
  /\ UNCHANGED <<health, callStates, fullSyncVars>>

SetDisableSync(disable) == SwitchSync(disable) /\ UNCHANGED fullSyncVars

Next ==
  \/ \E bmcRole \in Roles, redundancy \in BOOLEAN :
       FetchDone(bmcRole, redundancy)
  \/ \E fs \in Requests : StartFullSync(fs)
  \/ \E fs \in FullSyncs : EndFullSync(fs)
  \/ \E bmcRole \in Roles : RoleChanges(bmcRole)
  \/ \E c \in Calls : CallStep(c)
  \/ \E c \in OtherCalls, k \in Keys : Ask(c, k) /\ UNCHANGED fullSyncVars
  \/ \E disable \in BOOLEAN : SetDisableSync(disable)

Spec == Init /\ [][Next]_vars

-----------------------------------------------------------------------------
(* Properties.                                                              *)

\* Every variable has the values its declaration allows, and init waits
\* exactly while the full sync it awaits runs.
TypeOK ==
  /\ disable_sync \in BOOLEAN
  /\ health \in Healths
  /\ phase \in [Calls -> Phases]
  /\ key \in [Calls -> Keys]
  /\ outcome \in [Calls -> Successes \cup Failures \cup {"none"}]
  /\ role \in Roles
  /\ init \in {"fetching", "fullSync", "done"}
  /\ running \subseteq FullSyncs
  /\ spawned \in [FullSyncs -> SUBSET Cfgs]
  /\ fullSyncStatus \in Statuses
  /\ init = "fullSync" <=> "init" \in running

\* The status says InProgress only while a full sync runs: no path out of
\* startFullSync leaves StartFullSync refused for ever.
NeverLockedOut == fullSyncStatus = "InProgress" => running # {}

\* Slots of a full sync that does not run are free: no call is left over when
\* its full sync, whose locals the call's callback writes, has returned.
NoOrphanCalls ==
  \A fs \in FullSyncs \ running : \A c \in CallsOf(fs) : phase[c] = "idle"

\* As long as nobody calls StartFullSync before init knows the role, full
\* syncs never overlap and the status says InProgress throughout.
OneFullSync ==
  ~EarlyRequests =>
    /\ \A fs1, fs2 \in running : fs1 = fs2
    /\ running # {} => fullSyncStatus = "InProgress"

\* Health says Paused only while sync is disabled, whatever full syncs and
\* failing calls write over it.
PausedMeansDisabled == health = "Paused" => disable_sync

\* A critical failure stays visible until a full sync has run and none of its
\* calls failed; disabling and enabling sync does not hide it.
CriticalIsSticky ==
  [][health = "Critical" /\ health' # "Critical" =>
       /\ fullSyncStatus' = "Completed"
       /\ \E fs \in FullSyncs :
            /\ fs \in running \ running' \/ spawned'[fs] = {}
            /\ \A g \in spawned'[fs] : outcome[<<fs, g>>] \notin Failures]_vars

\* Every full sync comes to an end, refused and failing calls included.
FullSyncEnds == fullSyncStatus = "InProgress" ~> fullSyncStatus # "InProgress"
=============================================================================
