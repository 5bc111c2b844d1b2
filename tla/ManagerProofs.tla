---------------------------- MODULE ManagerProofs ----------------------------
(***************************************************************************)
(* The background events are clients of the full syncs' world, so what     *)
(* FullSyncProofs shows of FullSync holds of Manager; and the deferred     *)
(* events are covered.                                                     *)
(***************************************************************************)
EXTENDS Manager, FullSyncProofs

-----------------------------------------------------------------------------
(* Every step of Manager is a step of FullSync or leaves it alone.          *)

\* A call of an event coroutine is one of the other calls of FullSync.
LEMMA EventCallIsAsk ==
  ASSUME NEW c \in Coroutines \cup SpawnedCalls, NEW g \in Cfgs, Ask(c, g),
         UNCHANGED fullSyncVars
  PROVE  Next
<1>1. c \in OtherCalls /\ g \in Keys
  BY ManagerAssumption, FullSyncAssumption
<1>2. QED
  BY <1>1 DEF Next

LEMMA CoroutineFullSync ==
  ASSUME NEW x \in Coroutines, CoroutineStep(x)
  PROVE  Next \/ UNCHANGED vars
<1>g. x[1] \in Cfgs
  BY DEF Coroutines
<1>1. ASSUME NEW s \in Spawned, ImmediateEvent(x, <<x[1], s>>) PROVE Next
  <2>1. <<x[1], s>> \in SpawnedCalls
    BY <1>g DEF SpawnedCalls
  <2>2. QED
    BY <1>1, <1>g, <2>1, EventCallIsAsk DEF ImmediateEvent
<1>2. CASE TimerFires(x)
  BY <1>2, <1>g, EventCallIsAsk DEF TimerFires
<1>3. CASE WatchFails(x) \/ WatchStarts(x) \/ WatchCollides(x)
           \/ DeferredEvent(x) \/ EventAfterStop(x) \/ WatchEnds(x)
           \/ TimerStarts(x) \/ TimerSynced(x)
  BY <1>3 DEF WatchFails, WatchStarts, WatchCollides, DeferredEvent,
              EventAfterStop, WatchEnds, TimerStarts, TimerSynced
<1>4. QED
  BY <1>1, <1>2, <1>3 DEF CoroutineStep

\* The same for the deferred syncs.
LEMMA DeferFullSync ==
  ASSUME NEW g \in Cfgs, DeferStep(g)
  PROVE  Next \/ UNCHANGED vars
<1>1. DeferCall(g) \in SpawnedCalls
  BY ManagerAssumption DEF DeferCall, SpawnedCalls
<1>2. CASE DeferSyncs(g, DeferCall(g))
  BY <1>1, <1>2, EventCallIsAsk DEF DeferSyncs
<1>3. CASE DeferGivesUp(g) \/ DeferSynced(g, DeferCall(g))
  BY <1>3 DEF DeferGivesUp, DeferSynced
<1>4. QED
  BY <1>2, <1>3 DEF DeferStep

LEMMA ManagerStepFullSync == [ManagerNext]_managerVars => [Next]_vars
<1> SUFFICES ASSUME [ManagerNext]_managerVars PROVE [Next]_vars
  OBVIOUS
<1>1. ASSUME FullSyncStep PROVE Next
  BY <1>1 DEF FullSyncStep, Next
<1>2. ASSUME NEW fs \in FullSyncs, ManagerEndFullSync(fs) PROVE Next
  BY <1>2 DEF ManagerEndFullSync, Next
<1>3. ASSUME NEW c \in Calls, ManagerCallStep(c) PROVE Next
  BY <1>3 DEF ManagerCallStep, Next
<1>4. ASSUME NEW disable \in BOOLEAN, Toggle(disable) PROVE Next
  BY <1>4 DEF Toggle, Next
<1>5. ASSUME NEW x \in Coroutines, CoroutineStep(x)
      PROVE  Next \/ UNCHANGED vars
  BY <1>5, CoroutineFullSync
<1>6. ASSUME NEW g \in Cfgs, Change(g) PROVE UNCHANGED vars
  BY <1>6 DEF Change
<1>7. ASSUME NEW g \in Cfgs, DeferStep(g) PROVE Next \/ UNCHANGED vars
  BY <1>7, DeferFullSync
<1>8. CASE UNCHANGED managerVars
  BY <1>8 DEF managerVars
<1>9. QED
  BY <1>1, <1>2, <1>3, <1>4, <1>5, <1>6, <1>7, <1>8 DEF ManagerNext

\* Manager implements FullSync: monitors, timers and deferred syncs only ever
\* do what FullSync allows the other callers of syncData.
THEOREM EventsAreClients == ManagerSpec => FullSyncHolds
<1>1. ManagerInit => Init
  BY DEF ManagerInit
<1>2. QED
  BY <1>1, ManagerStepFullSync, PTL DEF ManagerSpec, FullSyncHolds, Spec

\* So the properties of full syncs hold next to the background events: also that
\* a critical health stays until a full sync has earned another, whatever the
\* events' own calls do.
THEOREM FullSyncsAmongEvents ==
  ManagerSpec => /\ [](TypeOK /\ NeverLockedOut /\ NoOrphanCalls /\ OneFullSync)
                 /\ []PausedMeansDisabled
                 /\ CriticalIsSticky
BY EventsAreClients, TypeCorrect, NeverLocked, CallsBelong, FullSyncsExclusive,
   PausedIsDisabled, CriticalStays, PTL DEF FullSyncHolds

-----------------------------------------------------------------------------
(* Types of the events.                                                     *)

LEMMA NextManagerTypeOK ==
  ManagerTypeOK /\ [ManagerNext]_managerVars => ManagerTypeOK'
<1> SUFFICES ASSUME ManagerTypeOK, [ManagerNext]_managerVars
             PROVE  ManagerTypeOK'
  OBVIOUS
<1> USE DEF ManagerTypeOK, startVars
<1>s. ASSUME StartSyncEvents, UNCHANGED deferVars PROVE ManagerTypeOK'
  BY <1>s DEF StartSyncEvents, deferVars, watchVars
<1>0. ASSUME UNCHANGED eventVars PROVE ManagerTypeOK'
  BY <1>0 DEF eventVars, watchVars, deferVars
<1>1. ASSUME NEW fs \in FullSyncs, ManagerEndFullSync(fs)
      PROVE  ManagerTypeOK'
  BY <1>1, <1>s, <1>0 DEF ManagerEndFullSync, eventVars
<1>2. ASSUME NEW c \in Calls, ManagerCallStep(c) PROVE ManagerTypeOK'
  BY <1>2 DEF ManagerCallStep, watchVars
<1>3. ASSUME NEW disable \in BOOLEAN, Toggle(disable) PROVE ManagerTypeOK'
  <2>1. CASE StartSyncEvents
    BY <1>3, <2>1 DEF Toggle, StartSyncEvents, watchVars
  <2>2. CASE StopSyncEvents
    BY <1>3, <2>2 DEF Toggle, StopSyncEvents
  <2>3. QED
    BY <1>3, <2>1, <2>2 DEF Toggle
<1>4. ASSUME NEW x \in Coroutines, CoroutineStep(x) PROVE ManagerTypeOK'
  <2>g. x[1] \in Cfgs
    BY DEF Coroutines
  <2>d. ASSUME DropWatcher(x[1]), UNCHANGED <<deferVars, startVars>>
        PROVE  ManagerTypeOK'
    BY <2>d, <2>g DEF DropWatcher, deferVars
  <2>1. CASE WatchFails(x) \/ TimerStarts(x) \/ TimerSynced(x) \/ TimerFires(x)
    BY <2>1, <2>g DEF WatchFails, TimerStarts, TimerSynced, TimerFires, TimerLoops,
                watchVars, deferVars
  <2>2. CASE WatchStarts(x)
    BY <2>2, <2>g DEF WatchStarts, deferVars
  <2>3. CASE WatchCollides(x)
    BY <2>3, <2>g DEF WatchCollides, deferVars
  <2>4. CASE \E s \in Spawned : ImmediateEvent(x, <<x[1], s>>)
    BY <2>4 DEF ImmediateEvent, deferVars
  <2>5. CASE DeferredEvent(x)
    BY <2>5, <2>g DEF DeferredEvent
  <2>6. CASE EventAfterStop(x)
    BY <2>6, <2>d DEF EventAfterStop
  <2>7. CASE WatchEnds(x)
    BY <2>7, <2>d DEF WatchEnds, deferVars
  <2>8. QED
    BY <1>4, <2>1, <2>2, <2>3, <2>4, <2>5, <2>6, <2>7 DEF CoroutineStep
<1>5. ASSUME NEW g \in Cfgs, Change(g) PROVE ManagerTypeOK'
  BY <1>5 DEF Change, deferVars
<1>6. ASSUME NEW g \in Cfgs, DeferStep(g) PROVE ManagerTypeOK'
  BY <1>6 DEF DeferStep, DeferGivesUp, DeferSyncs, DeferSynced, watchVars
<1>7. QED
  BY <1>0, <1>1, <1>2, <1>3, <1>4, <1>5, <1>6
     DEF ManagerNext, FullSyncStep, managerVars

\* The event coroutines, watchers and deferred syncs stay well typed.
THEOREM ManagerTypeCorrect == ManagerSpec => []ManagerTypeOK
<1>1. ManagerInit => ManagerTypeOK
  BY DEF ManagerInit, ManagerTypeOK
<1>2. QED
  BY <1>1, NextManagerTypeOK, PTL DEF ManagerSpec

-----------------------------------------------------------------------------
(* Deferred events and the call that covers them.                           *)

LEMMA DeferCallSlot ==
  ASSUME NEW g \in Cfgs
  PROVE  /\ DeferCall(g) \in Calls
         /\ DeferCall(g) \notin FullSyncs \X Cfgs
         /\ DeferCall(g) \notin Coroutines
         /\ \A h \in Cfgs, s \in Spawned : DeferCall(g) = <<h, s>> => g = h
<1>1. (CHOOSE s \in Spawned : TRUE) \in Spawned
  BY ManagerAssumption
<1>2. DeferCall(g) \in SpawnedCalls
  BY <1>1 DEF DeferCall, SpawnedCalls
<1>3. QED
  BY <1>2, ManagerAssumption DEF DeferCall, OtherCalls

\* The slot of a deferred path's call changes only with that call.
Kept(c) == phase'[c] = phase[c] /\ key'[c] = key[c] /\ outcome'[c] = outcome[c]

LEMMA AskKeeps ==
  ASSUME TypeOK, NEW a \in Calls, NEW k \in Keys, Ask(a, k),
         NEW c \in Calls, c # a
  PROVE  Kept(c)
BY DEF TypeOK, Ask, Kept

LEMMA BeginFullSyncKeeps ==
  ASSUME NEW fs, NEW cfgs, BeginFullSync(fs, cfgs), NEW c \in Calls,
         c \notin {fs} \X cfgs
  PROVE  Kept(c)
BY DEF BeginFullSync, callStates, Kept

LEMMA ProgressKeeps ==
  ASSUME TypeOK, NEW a \in Calls, Progress(a), NEW c \in Calls, c # a
  PROVE  Kept(c)
BY DEF TypeOK, Progress, TurnBack, Begin, EndWork, ReportFailure, EndReport,
       EndCall, Move, Kept

LEMMA SlotStep ==
  ASSUME TypeOK, [ManagerNext]_managerVars,
         NEW g \in Cfgs, Kind[g] = "Deferred", NEW c, c = DeferCall(g)
  PROVE  Kept(c) \/ DeferSyncs(g, c) \/ ManagerCallStep(c)
<1>c. /\ c \in Calls /\ c \notin FullSyncs \X Cfgs /\ c \notin Coroutines
      /\ \A h \in Cfgs, s \in Spawned : c = <<h, s>> => g = h
  BY DeferCallSlot
<1>u. ASSUME UNCHANGED callStates PROVE Kept(c)
  BY <1>u DEF callStates, Kept
<1>o. Cfgs \subseteq Keys /\ Coroutines \cup SpawnedCalls \subseteq Calls
      /\ "init" \in FullSyncs /\ Requests \subseteq FullSyncs
  BY FullSyncAssumption, ManagerAssumption DEF OtherCalls, FullSyncs
<1>b. ASSUME NEW fs \in FullSyncs, NEW cfgs \in SUBSET Cfgs,
             BeginFullSync(fs, cfgs)
      PROVE  Kept(c)
  BY <1>b, <1>c, BeginFullSyncKeeps
<1>1. ASSUME FullSyncStep PROVE Kept(c)
  <2>1. ASSUME NEW bmcRole \in Roles, NEW redundancy \in BOOLEAN,
               FetchDone(bmcRole, redundancy)
        PROVE  Kept(c)
    <3>1. CASE UNCHANGED callStates
      BY <3>1, <1>u
    <3>2. CASE BeginFullSync("init", {h \in Cfgs : Eligible(h, bmcRole)})
      BY <3>2, <1>b, <1>o
    <3>3. QED
      BY <2>1, <3>1, <3>2 DEF FetchDone, callStates
  <2>2. ASSUME NEW fs \in Requests, StartFullSync(fs) PROVE Kept(c)
    <3>1. BeginFullSync(fs, {h \in Cfgs : Eligible(h, role)})
      BY <2>2 DEF StartFullSync
    <3>2. QED
      BY <3>1, <1>b, <1>o
  <2>3. ASSUME NEW bmcRole \in Roles, RoleChanges(bmcRole) PROVE Kept(c)
    BY <2>3, <1>u DEF RoleChanges, contractVars
  <2>4. QED
    BY <1>1, <2>1, <2>2, <2>3 DEF FullSyncStep
<1>2. ASSUME NEW fs \in FullSyncs, ManagerEndFullSync(fs) PROVE Kept(c)
  BY <1>2, <1>u DEF ManagerEndFullSync, EndFullSync
<1>3. ASSUME NEW a \in Calls, ManagerCallStep(a), a # c PROVE Kept(c)
  BY <1>3, <1>c, ProgressKeeps DEF ManagerCallStep, CallStep
<1>4. ASSUME NEW disable \in BOOLEAN, Toggle(disable) PROVE Kept(c)
  BY <1>4, <1>u DEF Toggle, SetDisableSync, SwitchSync
<1>5. ASSUME NEW x \in Coroutines, CoroutineStep(x) PROVE Kept(c)
  <2>g. x[1] \in Cfgs
    BY DEF Coroutines
  <2>1. ASSUME NEW s \in Spawned, ImmediateEvent(x, <<x[1], s>>)
        PROVE  Kept(c)
    <3>1. <<x[1], s>> # c
      BY <1>c, <2>1, <2>g DEF ImmediateEvent
    <3>2. <<x[1], s>> \in Calls /\ Ask(<<x[1], s>>, x[1])
      BY <1>o, <2>1, <2>g DEF ImmediateEvent, SpawnedCalls
    <3>3. QED
      BY <1>c, <1>o, <2>g, <3>1, <3>2, AskKeeps
  <2>2. CASE TimerFires(x)
    BY <1>c, <1>o, <2>2, <2>g, AskKeeps DEF TimerFires
  <2>3. CASE UNCHANGED vars
    BY <1>u, <2>3 DEF vars, contractVars
  <2>4. QED
    BY <1>5, <2>1, <2>2, <2>3
       DEF CoroutineStep, WatchFails, WatchStarts, WatchCollides,
           DeferredEvent, EventAfterStop, WatchEnds, TimerStarts, TimerSynced
<1>6. ASSUME NEW h \in Cfgs, Change(h) PROVE Kept(c)
  BY <1>6, <1>u DEF Change, vars, contractVars
<1>7. ASSUME NEW h \in Cfgs, DeferStep(h), ~DeferSyncs(g, c) PROVE Kept(c)
  <2>1. CASE DeferSyncs(h, DeferCall(h))
    <3>1. h # g
      BY <1>7, <2>1
    <3>2. DeferCall(h) # c
      BY <3>1, <1>c, ManagerAssumption DEF DeferCall
    <3>3. QED
      BY <1>c, <1>o, <2>1, <3>2, AskKeeps, DeferCallSlot DEF DeferSyncs
  <2>2. CASE DeferGivesUp(h) \/ DeferSynced(h, DeferCall(h))
    BY <1>u, <2>2 DEF DeferGivesUp, DeferSynced, vars, contractVars
  <2>3. QED
    BY <1>7, <2>1, <2>2 DEF DeferStep
<1>8. CASE UNCHANGED managerVars
  BY <1>8, <1>u DEF managerVars, vars, contractVars
<1>9. QED
  BY <1>1, <1>2, <1>3, <1>4, <1>5, <1>6, <1>7, <1>8 DEF ManagerNext

-----------------------------------------------------------------------------
(* The three parts of the inductive invariant.                              *)

LEMMA NextDisabledQuiet ==
  ManagerTypeOK /\ DisabledQuiet /\ [ManagerNext]_managerVars => DisabledQuiet'
<1> SUFFICES ASSUME ManagerTypeOK, DisabledQuiet, [ManagerNext]_managerVars
             PROVE  DisabledQuiet'
  OBVIOUS
<1> USE DEF DisabledQuiet, ManagerTypeOK
<1>k. ASSUME UNCHANGED <<disable_sync, due, watcher>> PROVE DisabledQuiet'
  BY <1>k
<1>1. ASSUME FullSyncStep PROVE DisabledQuiet'
  BY <1>1, <1>k
     DEF FullSyncStep, FetchDone, StartFullSync, RoleChanges, contractVars,
         eventVars, watchVars, deferVars
<1>2. ASSUME NEW fs \in FullSyncs, ManagerEndFullSync(fs) PROVE DisabledQuiet'
  BY <1>2, <1>k
     DEF ManagerEndFullSync, EndFullSync, StartSyncEvents, watchVars, deferVars
<1>3. ASSUME NEW c \in Calls, ManagerCallStep(c) PROVE DisabledQuiet'
  <2>1. disable_sync' = disable_sync
    BY <1>3 DEF ManagerCallStep, CallStep, Progress, TurnBack, Begin, EndWork,
                ReportFailure, EndReport, EndCall, Move
  <2>2. due' \subseteq due /\ watcher' = watcher
    BY <1>3 DEF ManagerCallStep, watchVars
  <2>3. QED
    BY <2>1, <2>2
<1>4. ASSUME NEW disable \in BOOLEAN, Toggle(disable) PROVE DisabledQuiet'
  BY <1>4 DEF Toggle, SetDisableSync, SwitchSync, StopSyncEvents
<1>5. ASSUME NEW x \in Coroutines, CoroutineStep(x) PROVE DisabledQuiet'
  <2>g. x[1] \in Cfgs
    BY DEF Coroutines
  <2>0. disable_sync' = disable_sync
    BY <1>5 DEF CoroutineStep, WatchFails, WatchStarts, WatchCollides,
                ImmediateEvent, DeferredEvent, EventAfterStop, WatchEnds,
                TimerStarts, TimerFires, TimerSynced, Ask, vars, contractVars
  <2>1. CASE WatchStarts(x)
    BY <2>0, <2>1 DEF WatchStarts
  <2>2. CASE DeferredEvent(x)
    BY <2>0, <2>2, <2>g DEF DeferredEvent
  <2>3. CASE WatchFails(x) \/ WatchCollides(x) \/ EventAfterStop(x)
             \/ WatchEnds(x) \/ TimerStarts(x) \/ TimerFires(x)
             \/ TimerSynced(x) \/ \E s \in Spawned : ImmediateEvent(x, <<x[1], s>>)
    <3>1. due' = due
      BY <2>3 DEF WatchFails, WatchCollides, EventAfterStop, WatchEnds,
                  TimerStarts, TimerFires, TimerSynced, ImmediateEvent,
                  deferVars
    <3>2. \A g \in Cfgs : watcher'[g] = "live" => watcher[g] = "live"
      BY <2>3, <2>g
         DEF WatchFails, WatchCollides, EventAfterStop, WatchEnds, DropWatcher,
             TimerStarts, TimerFires, TimerSynced, ImmediateEvent, watchVars
    <3>3. QED
      BY <2>0, <3>1, <3>2
  <2>4. QED
    BY <1>5, <2>1, <2>2, <2>3 DEF CoroutineStep
<1>6. ASSUME NEW g \in Cfgs, Change(g) PROVE DisabledQuiet'
  BY <1>6, <1>k DEF Change, deferVars, vars, contractVars
<1>7. ASSUME NEW g \in Cfgs, DeferStep(g) PROVE DisabledQuiet'
  BY <1>7, <1>k DEF DeferStep, DeferGivesUp, DeferSyncs, DeferSynced, Ask,
                    vars, contractVars, watchVars
<1>8. CASE UNCHANGED managerVars
  BY <1>8, <1>k DEF managerVars, vars, contractVars, eventVars, watchVars,
                    deferVars
<1>9. QED
  BY <1>1, <1>2, <1>3, <1>4, <1>5, <1>6, <1>7, <1>8 DEF ManagerNext

\* What a step does to the deferred sync of one path.
DeferKept(g) == /\ defer'[g] = defer[g]
                /\ g \in newer' <=> g \in newer
                /\ g \in due' => g \in due

LEMMA PathStep ==
  ASSUME ManagerTypeOK, [ManagerNext]_managerVars, NEW g \in Cfgs
  PROVE  \/ DeferKept(g)
         \/ DeferStep(g)
         \/ \E x \in Coroutines : x[1] = g /\ DeferredEvent(x)
<1> USE DEF ManagerTypeOK, DeferKept
<1>k. ASSUME UNCHANGED <<defer, newer>>, due' \subseteq due PROVE DeferKept(g)
  BY <1>k
<1>1. ASSUME FullSyncStep PROVE DeferKept(g)
  BY <1>1, <1>k DEF FullSyncStep, eventVars, deferVars
<1>2. ASSUME NEW fs \in FullSyncs, ManagerEndFullSync(fs) PROVE DeferKept(g)
  BY <1>2, <1>k DEF ManagerEndFullSync, deferVars
<1>3. ASSUME NEW c \in Calls, ManagerCallStep(c) PROVE DeferKept(g)
  BY <1>3, <1>k DEF ManagerCallStep
<1>4. ASSUME NEW disable \in BOOLEAN, Toggle(disable) PROVE DeferKept(g)
  BY <1>4, <1>k DEF Toggle
<1>5. ASSUME NEW x \in Coroutines, CoroutineStep(x),
             ~(x[1] = g /\ DeferredEvent(x))
      PROVE  DeferKept(g)
  <2>1. CASE DeferredEvent(x)
    BY <1>5, <2>1 DEF DeferredEvent, Coroutines
  <2>2. CASE UNCHANGED deferVars
    BY <1>k, <2>2 DEF deferVars
  <2>3. QED
    BY <1>5, <2>1, <2>2
       DEF CoroutineStep, WatchFails, WatchStarts, WatchCollides,
           ImmediateEvent, EventAfterStop, WatchEnds, TimerStarts, TimerFires,
           TimerSynced
<1>6. ASSUME NEW h \in Cfgs, Change(h) PROVE DeferKept(g)
  BY <1>6, <1>k DEF Change, deferVars
<1>7. ASSUME NEW h \in Cfgs, DeferStep(h), h # g PROVE DeferKept(g)
  BY <1>7 DEF DeferStep, DeferGivesUp, DeferSyncs, DeferSynced
<1>8. CASE UNCHANGED managerVars
  BY <1>8, <1>k DEF managerVars, eventVars, deferVars
<1>9. QED
  BY <1>1, <1>2, <1>3, <1>4, <1>5, <1>6, <1>7, <1>8 DEF ManagerNext

\* What a step of a call does to its own slot.
LEMMA OwnSlotStep ==
  ASSUME TypeOK, NEW c \in Calls, ManagerCallStep(c)
  PROVE  /\ phase[c] # "idle" /\ key'[c] = key[c]
         /\ phase[c] = "queued" =>
              \/ phase'[c] = "working"
              \/ phase'[c] = "idle" /\ outcome'[c] \in {"done", "skipped"}
              \/ disable_sync
         /\ defer' = defer /\ newer' = newer /\ due' \subseteq due
         /\ phase[c] = "queued" /\ (phase'[c] = "working" \/ outcome'[c] = "done")
              => key[c] \notin due'
<1>1. CASE TurnBack(c)
  BY <1>1 DEF ManagerCallStep, TurnBack, EndCall, TypeOK
<1>2. CASE Begin(c)
  BY <1>2 DEF ManagerCallStep, Begin, Move, TypeOK
<1>3. CASE EndWork(c) \/ ReportFailure(c) \/ EndReport(c)
  BY <1>3 DEF ManagerCallStep, EndWork, ReportFailure, EndReport, EndCall,
              Move, TypeOK
<1>4. QED
  BY <1>1, <1>2, <1>3 DEF ManagerCallStep, CallStep, Progress

LEMMA NextOwnCall ==
  TypeOK /\ ManagerTypeOK /\ OwnCall /\ [ManagerNext]_managerVars => OwnCall'
<1> SUFFICES ASSUME TypeOK, ManagerTypeOK, OwnCall, [ManagerNext]_managerVars,
                    NEW g \in Cfgs, Kind[g] = "Deferred", NEW c,
                    c = DeferCall(g), phase'[c] # "idle"
             PROVE  defer'[g] = "syncing" /\ key'[c] = g
  BY DEF OwnCall
<1>c. c \in Calls
  BY DeferCallSlot
<1>1. CASE DeferSyncs(g, c)
  BY <1>1, <1>c DEF DeferSyncs, Ask, TypeOK, ManagerTypeOK
<1>2. CASE ManagerCallStep(c)
  BY <1>2, <1>c, OwnSlotStep DEF OwnCall
<1>3. CASE Kept(c)
  <2>1. phase[c] # "idle" /\ defer[g] = "syncing" /\ key'[c] = g
    BY <1>3 DEF Kept, OwnCall
  <2>2. CASE DeferKept(g)
    BY <2>1, <2>2 DEF DeferKept
  <2>3. CASE DeferStep(g)
    BY <2>1, <2>3 DEF DeferStep, DeferGivesUp, DeferSyncs, DeferSynced
  <2>4. ASSUME NEW x \in Coroutines, x[1] = g, DeferredEvent(x)
        PROVE  defer'[g] = "syncing"
    BY <2>1, <2>4 DEF DeferredEvent, ManagerTypeOK
  <2>5. QED
    BY <2>1, <2>2, <2>3, <2>4, PathStep
<1>4. QED
  BY <1>1, <1>2, <1>3, SlotStep

LEMMA NextDueCovered ==
  /\ TypeOK /\ ManagerTypeOK /\ DeferInv
  /\ [ManagerNext]_managerVars
  => DueCovered'
<1> DEFINE Covered(g, c) ==
      \/ defer[g] = "waiting"
      \/ /\ defer[g] = "syncing"
         /\ \/ g \in newer \/ phase[c] = "queued"
            \/ phase[c] = "idle" /\ outcome[c] = "skipped"
      \/ defer[g] = "idle" /\ phase[c] = "idle" /\ outcome[c] = "skipped"
<1> SUFFICES ASSUME TypeOK, ManagerTypeOK, DeferInv, [ManagerNext]_managerVars
             PROVE  DueCovered'
  OBVIOUS
<1>0. due' \subseteq Cfgs
  BY NextManagerTypeOK DEF ManagerTypeOK
<1> SUFFICES ASSUME NEW g \in Cfgs, g \in due', NEW c, c = DeferCall(g)
             PROVE  Kind[g] = "Deferred" /\ Covered(g, c)'
  BY <1>0 DEF DueCovered
<1>c. c \in Calls
  BY DeferCallSlot
<1>1. ASSUME NEW x \in Coroutines, x[1] = g, DeferredEvent(x)
      PROVE  Kind[g] = "Deferred" /\ Covered(g, c)'
  <2>1. defer[g] \in {"idle", "waiting", "syncing"}
    BY DEF ManagerTypeOK
  <2>2. QED
    BY <1>1, <2>1 DEF DeferredEvent, ManagerTypeOK
<1>2. ASSUME g \in due
      PROVE  ~disable_sync /\ Kind[g] = "Deferred" /\ Covered(g, c)
  BY <1>2 DEF DeferInv, DueCovered, DisabledQuiet
<1>3. CASE DeferStep(g)
  <2>1. g \in due
    BY <1>3 DEF DeferStep, DeferGivesUp, DeferSyncs, DeferSynced
  <2>2. CASE DeferSyncs(g, c)
    BY <1>2, <1>c, <2>1, <2>2 DEF DeferSyncs, Ask, TypeOK, ManagerTypeOK
  <2>3. CASE DeferSynced(g, c)
    BY <1>2, <1>c, <2>1, <2>3
       DEF DeferSynced, ManagerTypeOK, vars, contractVars, callStates
  <2>4. CASE DeferGivesUp(g)
    BY <1>2, <2>1, <2>4 DEF DeferGivesUp
  <2>5. QED
    BY <1>3, <2>2, <2>3, <2>4 DEF DeferStep
<1>4. CASE DeferKept(g)
  <2>1. g \in due /\ defer'[g] = defer[g] /\ (g \in newer' <=> g \in newer)
    BY <1>4 DEF DeferKept
  <2>2. CASE Kept(c)
    BY <1>2, <2>1, <2>2 DEF Kept
  <2>3. CASE DeferSyncs(g, c)
    BY <1>3, <2>3 DEF DeferStep
  <2>4. CASE ManagerCallStep(c)
    <3>1. phase[c] # "idle" /\ key[c] = g /\ defer[g] = "syncing"
      BY <1>2, <1>c, <2>1, <2>4, OwnSlotStep DEF DeferInv, OwnCall
    <3>2. g \in newer \/ phase[c] = "queued"
      BY <1>2, <2>1, <3>1
    <3>3. ASSUME phase[c] = "queued"
          PROVE  phase'[c] = "idle" /\ outcome'[c] = "skipped"
      BY <1>2, <1>c, <2>1, <2>4, <3>1, <3>3, OwnSlotStep
    <3>4. QED
      BY <1>2, <2>1, <3>1, <3>2, <3>3
  <2>5. QED
    BY <1>2, <2>1, <2>2, <2>3, <2>4, SlotStep
<1>5. QED
  BY <1>1, <1>3, <1>4, PathStep

\* manager.cpp:875-877 as far as it holds: an event a deferred path noticed is
\* waiting for a sync, or its sync was skipped because the path was in progress.
THEOREM DeferredEventsCovered == ManagerSpec => []DeferredCovered
<1>1. ManagerInit => DeferInv
  <2>1. ASSUME ManagerInit, NEW g \in Cfgs PROVE phase[DeferCall(g)] = "idle"
    BY <2>1, DeferCallSlot DEF ManagerInit, Init, ContractInit
  <2>2. QED
    BY <2>1 DEF ManagerInit, DeferInv, DisabledQuiet, OwnCall, DueCovered
<1>2. TypeOK /\ ManagerTypeOK /\ DeferInv /\ [ManagerNext]_managerVars
        => DeferInv'
  BY NextDisabledQuiet, NextOwnCall, NextDueCovered DEF DeferInv
<1>3. DeferInv => DeferredCovered
  BY DEF DeferInv, DueCovered, DeferredCovered
<1>4. ManagerSpec => []TypeOK
  BY EventsAreClients, TypeCorrect, PTL DEF FullSyncHolds
<1>5. QED
  BY <1>1, <1>2, <1>3, <1>4, ManagerTypeCorrect, PTL DEF ManagerSpec

-----------------------------------------------------------------------------
(* One coroutine for each path that was started when it had none.           *)

\* A path that is not lost has one coroutine at most, whatever its kind.
OnePerPath ==
  \A x, y \in Coroutines :
    x[1] = y[1] /\ co[x] # "idle" /\ co[y] # "idle" => x = y \/ x[1] \in lost

\* A watcher is awaited, and only a lost path has a stopped one while sync is
\* enabled.
WatchersOwned ==
  \A g \in Cfgs :
    /\ watcher[g] # "none" => Awaiting(g) # {}
    /\ watcher[g] = "stopped" => disable_sync \/ g \in lost
    /\ g \in ignored => watcher[g] = "stopped"

EventsInv ==
  /\ OnePerPath
  /\ WatchersOwned
  /\ disable_sync => wanted = {}
  /\ \A g \in wanted \ lost : \E x \in Coroutines : x[1] = g /\ Serves(x)

LEMMA EventsInvIs == ManagerTypeOK /\ EventsInv => ServedOnce
<1> SUFFICES ASSUME ManagerTypeOK, EventsInv, NEW g \in wanted \ lost
             PROVE  \E s \in Slots : Serves(<<g, s>>) /\ Left(g) = {<<g, s>>}
  BY DEF ServedOnce
<1>1. PICK x \in Coroutines : x[1] = g /\ Serves(x)
  BY DEF EventsInv
<1>2. x[2] \in Slots /\ x = <<g, x[2]>>
  BY <1>1 DEF Coroutines
<1>3. co[x] # "idle"
  BY <1>1 DEF Serves
<1>4. Left(g) = {x}
  BY <1>1, <1>3 DEF Left, EventsInv, OnePerPath
<1>5. QED
  BY <1>1, <1>2, <1>4

\* Each eligible path gets a coroutine, the only one unless it is lost.
LEMMA StartsOne ==
  ASSUME ManagerTypeOK, EventsInv, StartSyncEvents
  PROVE  EventsInv'
<1>1. \A g \in Cfgs \ lost' : \A x \in Coroutines : x[1] = g => co[x] = "idle"
  BY DEF StartSyncEvents, Left
<1>2. /\ UNCHANGED <<watcher, ignored>>
      /\ \A x \in Coroutines :
           \/ co'[x] = co[x]
           \/ x[2] = FreeSlot(x[1]) /\ co[x] = "idle"
    <2>1. \A x \in Coroutines : x[1] \in Cfgs /\ x[2] \in Slots /\ x = <<x[1], x[2]>>
      BY DEF Coroutines
    <2>2. \A g \in Cfgs : co[<<g, FreeSlot(g)>>] = "idle"
      BY DEF StartSyncEvents, Room, FreeSlot
    <2>3. QED
      BY <2>1, <2>2 DEF StartSyncEvents, watchVars
<1>3. ASSUME NEW g \in Cfgs, watcher[g] # "none"
      PROVE  Awaiting(g)' # {} /\ g \in lost'
  <2>1. PICK x \in Awaiting(g) : TRUE
    BY <1>3 DEF EventsInv, WatchersOwned
  <2>2. x \in Coroutines /\ x[1] = g /\ co[x] = "awaiting"
    BY <2>1 DEF Awaiting
  <2>3. co'[x] = "awaiting"
    BY <1>2, <2>2
  <2>4. QED
    BY <1>1, <1>3, <2>2, <2>3 DEF Awaiting
<1>4. OnePerPath'
  <2>1. ASSUME NEW x \in Coroutines, NEW y \in Coroutines, x[1] = y[1],
               co'[x] # "idle", co'[y] # "idle", x[1] \notin lost'
        PROVE  x = y
    <3>1. co[x] = "idle" /\ co[y] = "idle"
      BY <1>1, <2>1 DEF Coroutines
    <3>2. x[2] = FreeSlot(x[1]) /\ y[2] = FreeSlot(y[1])
      BY <1>2, <2>1, <3>1
    <3>3. QED
      BY <2>1, <3>2 DEF Coroutines
  <2>2. QED
    BY <2>1 DEF OnePerPath
<1>5. ASSUME NEW g \in wanted'
      PROVE  \E x \in Coroutines : x[1] = g /\ Serves(x)'
  <2>1. g \in Cfgs /\ Eligible(g, role)
    BY DEF StartSyncEvents
  <2>2. FreeSlot(g) \in Slots
    BY <2>1 DEF StartSyncEvents, Room, FreeSlot
  <2>3. <<g, FreeSlot(g)>> \in Coroutines
    BY <2>1, <2>2 DEF Coroutines
  <2>4. co'[<<g, FreeSlot(g)>>] = "starting"
    BY <2>1, <2>3 DEF StartSyncEvents
  <2>5. QED
    BY <2>3, <2>4 DEF Serves
<1>6. disable_sync' => wanted' = {}
  BY DEF StartSyncEvents
<1>7. QED
  BY <1>2, <1>3, <1>4, <1>5, <1>6 DEF EventsInv, WatchersOwned

\* Events stop: nothing is wanted any more.
LEMMA StopsAll ==
  ASSUME ManagerTypeOK, EventsInv, StopSyncEvents, disable_sync'
  PROVE  EventsInv'
<1>1. co' = co /\ wanted' = {} /\ lost' = lost
  BY DEF StopSyncEvents
<1>2. \A g \in Cfgs : /\ watcher'[g] # "none" => watcher[g] # "none"
                      /\ g \in ignored' => watcher'[g] = "stopped"
  BY DEF StopSyncEvents, ManagerTypeOK, EventsInv, WatchersOwned
<1>3. QED
  BY <1>1, <1>2 DEF EventsInv, OnePerPath, WatchersOwned, Awaiting

\* A coroutine goes on, or ends for a reason that leaves nothing to serve.
LEMMA CoroutineServes ==
  ASSUME ManagerTypeOK, EventsInv, NEW x \in Coroutines, CoroutineStep(x)
  PROVE  EventsInv'
<1>g. x[1] \in Cfgs
  BY DEF Coroutines
<1>0. disable_sync' = disable_sync /\ wanted' = wanted /\ lost \subseteq lost'
  BY DEF CoroutineStep, WatchFails, WatchStarts, WatchCollides, ImmediateEvent,
         DeferredEvent, EventAfterStop, WatchEnds, TimerStarts, TimerFires,
         TimerSynced, Ask, vars, contractVars, startVars
<1>t. /\ co \in [Coroutines -> {"idle", "starting", "awaiting", "asleep",
                                "syncing"}]
      /\ watcher \in [Cfgs -> {"none", "live", "stopped"}]
      /\ wanted \subseteq Cfgs
  BY DEF ManagerTypeOK
<1>k. ASSUME UNCHANGED <<co, watcher>>, ignored' \subseteq ignored
      PROVE  EventsInv'
  BY <1>k, <1>0 DEF EventsInv, OnePerPath, WatchersOwned, Awaiting, Serves
<1>e. ASSUME disable_sync \/ x[1] \in lost,
             \A y \in Coroutines : co'[y] = co[y] \/ co'[y] = "idle",
             \A y \in Coroutines : y[1] # x[1] => co'[y] = co[y],
             watcher' = [watcher EXCEPT ![x[1]] = "none"],
             ignored' = ignored \ {x[1]}
      PROVE  EventsInv'
  <2>1. OnePerPath'
    BY <1>e, <1>0 DEF EventsInv, OnePerPath
  <2>2. ASSUME NEW h \in Cfgs
        PROVE  /\ watcher'[h] # "none" => Awaiting(h)' # {}
               /\ h \in ignored' => watcher'[h] = "stopped"
    BY <1>e, <1>t, <1>g DEF EventsInv, WatchersOwned, Awaiting
  <2>3. ASSUME NEW g \in wanted' \ lost'
        PROVE  \E y \in Coroutines : y[1] = g /\ Serves(y)'
    <3>1. g # x[1] /\ g \in wanted \ lost
      BY <1>0, <1>e, <2>3 DEF EventsInv
    <3>2. PICK y \in Coroutines : y[1] = g /\ Serves(y)
      BY <3>1 DEF EventsInv
    <3>3. co'[y] = co[y] /\ watcher'[g] = watcher[g]
      BY <1>e, <1>t, <3>1, <3>2
    <3>4. QED
      BY <3>2, <3>3 DEF Serves
  <2>4. QED
    BY <1>0, <1>e, <1>t, <1>g, <2>1, <2>2, <2>3 DEF EventsInv, WatchersOwned
<1>m. ASSUME NEW state \in {"awaiting", "asleep", "syncing"},
             co[x] # "idle", co[x] # "awaiting",
             co' = [co EXCEPT ![x] = state],
             watcher[x[1]] # "stopped" \/ disable_sync \/ x[1] \in lost,
             IF state = "awaiting"
               THEN watcher' = [watcher EXCEPT ![x[1]] = IF @ = "none" THEN "live" ELSE @]
               ELSE watcher' = watcher,
             ignored' = ignored
      PROVE  EventsInv'
  <2>1. OnePerPath'
    BY <1>m, <1>t, <1>0 DEF EventsInv, OnePerPath
  <2>2. ASSUME NEW h \in Cfgs
        PROVE  /\ watcher'[h] # "none" => Awaiting(h)' # {}
               /\ watcher'[h] = "stopped" => disable_sync \/ h \in lost
               /\ h \in ignored' => watcher'[h] = "stopped"
    <3>1. CASE state = "awaiting" /\ h = x[1]
      <4>1. x \in Awaiting(h)'
        BY <1>m, <1>t, <3>1 DEF Awaiting
      <4>2. QED
        BY <1>m, <1>t, <1>g, <3>1, <4>1 DEF EventsInv, WatchersOwned
    <3>2. CASE ~(state = "awaiting" /\ h = x[1])
      <4>1. watcher'[h] = watcher[h] /\ Awaiting(h) \subseteq Awaiting(h)'
        BY <1>m, <1>t, <1>g, <3>2 DEF Awaiting
      <4>2. QED
        BY <1>m, <4>1 DEF EventsInv, WatchersOwned
    <3>3. QED
      BY <3>1, <3>2
  <2>3. ASSUME NEW g \in wanted' \ lost'
        PROVE  \E y \in Coroutines : y[1] = g /\ Serves(y)'
    <3>1. PICK y \in Coroutines : y[1] = g /\ Serves(y)
      BY <1>0, <2>3 DEF EventsInv
    <3>2. CASE y = x
      <4>1. watcher[g] # "stopped"
        BY <1>0, <1>m, <2>3, <3>1, <3>2 DEF EventsInv
      <4>2. QED
        BY <1>m, <1>t, <1>g, <3>1, <3>2, <4>1 DEF Serves
    <3>3. CASE y # x
      <4>1. co'[y] = co[y]
        BY <1>m, <1>t, <3>1, <3>3
      <4>2. watcher[g] = "live" => watcher'[g] = "live"
        BY <1>m, <1>t, <1>g, <1>0, <2>3
      <4>3. QED
        BY <3>1, <4>1, <4>2 DEF Serves
    <3>4. QED
      BY <3>2, <3>3
  <2>4. QED
    BY <1>0, <1>m, <2>1, <2>2, <2>3 DEF EventsInv, WatchersOwned
<1>1. CASE WatchFails(x)
  <2>1. /\ co[x] = "starting" /\ co' = [co EXCEPT ![x] = "idle"]
        /\ lost' = lost \cup {x[1]} /\ UNCHANGED <<watcher, ignored>>
    BY <1>1 DEF WatchFails, watchVars
  <2>2. \A h \in Cfgs : Awaiting(h)' = Awaiting(h)
    BY <1>t, <2>1 DEF Awaiting
  <2>3. OnePerPath'
    BY <1>t, <2>1 DEF EventsInv, OnePerPath
  <2>4. \A g \in wanted' \ lost' : \E y \in Coroutines : y[1] = g /\ Serves(y)'
    <3>1. ASSUME NEW g \in wanted' \ lost'
          PROVE  \E y \in Coroutines : y[1] = g /\ Serves(y)'
      <4>1. PICK y \in Coroutines : y[1] = g /\ Serves(y)
        BY <1>0, <3>1 DEF EventsInv
      <4>2. y # x
        BY <2>1, <3>1, <4>1
      <4>3. QED
        BY <2>1, <4>1, <4>2 DEF Serves
    <3>2. QED
      BY <3>1
  <2>5. QED
    BY <1>0, <2>1, <2>2, <2>3, <2>4 DEF EventsInv, WatchersOwned
<1>2. CASE WatchStarts(x)
  BY <1>2, <1>m, <1>g DEF WatchStarts, EventsInv, WatchersOwned
<1>3. CASE WatchCollides(x)
  <2>1. disable_sync \/ x[1] \in lost
    BY <1>3 DEF WatchCollides, EventsInv, OnePerPath, Awaiting
  <2>2. QED
    BY <1>3, <1>e, <2>1 DEF WatchCollides, Awaiting
<1>4. CASE EventAfterStop(x) \/ WatchEnds(x)
  <2>1. disable_sync \/ x[1] \in lost
    BY <1>4, <1>g DEF EventAfterStop, WatchEnds, EventsInv, WatchersOwned
  <2>2. CASE DropWatcher(x[1])
    BY <1>e, <2>1, <2>2 DEF DropWatcher, Awaiting
  <2>3. CASE ~DropWatcher(x[1])
    BY <1>4, <1>k, <2>3 DEF EventAfterStop, WatchEnds
  <2>4. QED
    BY <2>2, <2>3
<1>5. CASE DeferredEvent(x) \/ \E s \in Spawned : ImmediateEvent(x, <<x[1], s>>)
  BY <1>5, <1>k DEF DeferredEvent, ImmediateEvent
<1>6. ASSUME TimerLoops(x), co[x] \in {"starting", "syncing"},
             UNCHANGED <<watcher, ignored>>
      PROVE  EventsInv'
  <2>1. CASE disable_sync
    <3>1. /\ co' = [co EXCEPT ![x] = "idle"]
          /\ \A h \in Cfgs : Awaiting(h)' = Awaiting(h)
      BY <1>6, <1>t, <2>1 DEF TimerLoops, Awaiting
    <3>2. OnePerPath'
      BY <1>0, <1>t, <3>1 DEF EventsInv, OnePerPath
    <3>3. QED
      BY <1>0, <1>6, <2>1, <3>1, <3>2 DEF EventsInv, WatchersOwned
  <2>2. CASE ~disable_sync
    <3>1. co' = [co EXCEPT ![x] = "asleep"]
      BY <1>6, <2>2 DEF TimerLoops
    <3>2. QED
      BY <1>6, <1>m, <1>g, <2>2, <3>1 DEF EventsInv, WatchersOwned
  <2>3. QED
    BY <2>1, <2>2
<1>7. CASE TimerStarts(x) \/ TimerSynced(x)
  BY <1>7, <1>6 DEF TimerStarts, TimerSynced, watchVars
<1>8. CASE TimerFires(x)
  BY <1>8, <1>m, <1>g DEF TimerFires, watchVars, EventsInv, WatchersOwned
<1>9. QED
  BY <1>1, <1>2, <1>3, <1>4, <1>5, <1>7, <1>8 DEF CoroutineStep

LEMMA NextEventsInv ==
  ASSUME TypeOK, ManagerTypeOK, EventsInv, [ManagerNext]_managerVars
  PROVE  EventsInv'
<1>k. ASSUME UNCHANGED <<co, watcher, ignored, startVars, disable_sync>>
      PROVE  EventsInv'
  BY <1>k DEF startVars, EventsInv, OnePerPath, WatchersOwned, Awaiting, Serves
<1>1. ASSUME FullSyncStep PROVE EventsInv'
  BY <1>1, <1>k
     DEF FullSyncStep, FetchDone, StartFullSync, RoleChanges, contractVars,
         eventVars, watchVars
<1>2. ASSUME NEW fs \in FullSyncs, ManagerEndFullSync(fs) PROVE EventsInv'
  <2>1. CASE StartSyncEvents
    BY <2>1, StartsOne
  <2>2. CASE ~StartSyncEvents
    BY <1>2, <1>k, <2>2 DEF ManagerEndFullSync, EndFullSync, watchVars, contractVars
  <2>3. QED
    BY <2>1, <2>2
<1>3. ASSUME NEW c \in Calls, ManagerCallStep(c) PROVE EventsInv'
  <2>1. disable_sync' = disable_sync
    BY <1>3 DEF ManagerCallStep, CallStep, Progress, TurnBack, Begin, EndWork,
                ReportFailure, EndReport, EndCall, Move, fullSyncVars
  <2>2. QED
    BY <1>3, <1>k, <2>1 DEF ManagerCallStep, watchVars
<1>4. ASSUME NEW disable \in BOOLEAN, Toggle(disable) PROVE EventsInv'
  <2>1. disable_sync' = disable
    BY <1>4 DEF Toggle, SetDisableSync, SwitchSync
  <2>2. QED
    BY <1>4, <2>1, StartsOne, StopsAll DEF Toggle
<1>5. ASSUME NEW x \in Coroutines, CoroutineStep(x) PROVE EventsInv'
  BY <1>5, CoroutineServes
<1>6. ASSUME NEW g \in Cfgs, Change(g) PROVE EventsInv'
  BY <1>6, <1>k DEF Change, vars, contractVars, fullSyncVars
<1>7. ASSUME NEW g \in Cfgs, DeferStep(g) PROVE EventsInv'
  BY <1>7, <1>k DEF DeferStep, DeferGivesUp, DeferSyncs, DeferSynced, Ask,
                    vars, contractVars, fullSyncVars, watchVars
<1>8. CASE UNCHANGED managerVars
  BY <1>8, <1>k DEF managerVars, vars, contractVars, fullSyncVars, eventVars,
                    watchVars
<1>9. QED
  BY <1>1, <1>2, <1>3, <1>4, <1>5, <1>6, <1>7, <1>8 DEF ManagerNext

LEMMA EventsInvariant == ManagerSpec => []EventsInv
<1>1. ManagerInit => EventsInv
  BY DEF ManagerInit, EventsInv, OnePerPath, WatchersOwned
<1>2. TypeOK /\ ManagerTypeOK /\ EventsInv /\ [ManagerNext]_managerVars
        => EventsInv'
  BY NextEventsInv
<1>3. ManagerSpec => []TypeOK
  BY EventsAreClients, TypeCorrect, PTL DEF FullSyncHolds
<1>4. QED
  BY <1>1, <1>2, <1>3, ManagerTypeCorrect, PTL DEF ManagerSpec

\* manager.hpp:119-120 as far as it holds, whenever DisableSync changes: a path
\* that had no coroutine left when its events were started has one, that serves
\* it, and no second.
THEOREM EveryPathIsServedOnce == ManagerSpec => []ServedOnce
BY EventsInvariant, EventsInvIs, ManagerTypeCorrect, PTL
=============================================================================
