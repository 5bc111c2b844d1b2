--------------------------- MODULE FullSyncProofs ---------------------------
(***************************************************************************)
(* The safety properties of FullSync, for any configurations, requests and *)
(* call slots.  Each is an inductive invariant together with TypeOK.       *)
(***************************************************************************)
EXTENDS FullSync, TLAPS

Outcomes == Successes \cup Failures \cup {"none"}

-----------------------------------------------------------------------------
(* The actions that concern only the calls.                                 *)

\* A step of one call stays within the types and leaves full syncs alone.
LEMMA ProgressType ==
  ASSUME TypeOK, NEW c \in Calls, Progress(c)
  PROVE  /\ phase' \in [Calls -> Phases]
         /\ outcome' \in [Calls -> Outcomes]
         /\ health' \in {health, "Critical"}
         /\ UNCHANGED <<disable_sync, key>>
         /\ \A d \in Calls : d # c => phase'[d] = phase[d]
         /\ phase[c] # "idle"
<1> USE DEF TypeOK, Phases, Outcomes, Successes, Failures, Healths
<1>1. CASE TurnBack(c)
  BY <1>1 DEF TurnBack, EndCall
<1>2. CASE Begin(c)
  BY <1>2 DEF Begin, Move
<1>3. CASE EndWork(c)
  BY <1>3 DEF EndWork, EndCall
<1>4. CASE ReportFailure(c)
  BY <1>4 DEF ReportFailure, Move
<1>5. CASE EndReport(c)
  BY <1>5 DEF EndReport, EndCall
<1>6. QED
  BY <1>1, <1>2, <1>3, <1>4, <1>5 DEF Progress

\* So does a call made by a monitor or timer.
LEMMA AskType ==
  ASSUME TypeOK, NEW c \in OtherCalls, NEW k \in Keys, Ask(c, k)
  PROVE  /\ phase' \in [Calls -> Phases]
         /\ key' \in [Calls -> Keys]
         /\ outcome' \in [Calls -> Outcomes]
         /\ UNCHANGED <<disable_sync, health>>
         /\ \A d \in FullSyncs \X Cfgs : phase'[d] = phase[d]
<1>1. c \in Calls /\ c \notin FullSyncs \X Cfgs /\ FullSyncs \X Cfgs \subseteq Calls
  BY FullSyncAssumption DEF OtherCalls
<1>2. QED
  BY <1>1 DEF Ask, TypeOK, Phases, Outcomes, Successes, Failures

\* What startFullSync does up to its first suspension.
LEMMA BeginFullSyncType ==
  ASSUME TypeOK, NEW fs \in FullSyncs, NEW cfgs \in SUBSET Cfgs,
         BeginFullSync(fs, cfgs)
  PROVE  /\ phase' \in [Calls -> Phases]
         /\ key' \in [Calls -> Keys]
         /\ outcome' \in [Calls -> Outcomes]
         /\ health' \in {health, "Ok"}
         /\ spawned' \in [FullSyncs -> SUBSET Cfgs]
         /\ spawned'[fs] = cfgs
         /\ running' = IF cfgs = {} THEN running ELSE running \cup {fs}
         /\ fullSyncStatus' = IF cfgs = {} THEN "Completed" ELSE "InProgress"
         /\ cfgs # {} => health' = health
         /\ \A d \in Calls : d \notin {fs} \X cfgs => phase'[d] = phase[d]
<1> USE DEF TypeOK, Phases, Outcomes
<1>1. spawned' \in [FullSyncs -> SUBSET Cfgs] /\ spawned'[fs] = cfgs
  BY DEF BeginFullSync
<1>2. CASE cfgs = {}
  BY <1>1, <1>2 DEF BeginFullSync, Publish, callStates
<1>3. CASE cfgs # {}
  <2>1. /\ phase' = [c \in Calls |-> IF c \in {fs} \X cfgs THEN "queued"
                                                           ELSE phase[c]]
        /\ key' = [c \in Calls |-> IF c \in {fs} \X cfgs THEN c[2] ELSE key[c]]
        /\ outcome' = [c \in Calls |-> IF c \in {fs} \X cfgs THEN "none"
                                                             ELSE outcome[c]]
        /\ running' = running \cup {fs}
        /\ fullSyncStatus' = "InProgress"
        /\ health' = health
    BY <1>3 DEF BeginFullSync
  <2>2. \A c \in {fs} \X cfgs : c[2] \in Keys
    BY FullSyncAssumption
  <2>3. key' \in [Calls -> Keys]
    BY <2>1, <2>2
  <2>4. phase' \in [Calls -> Phases]
    BY <2>1
  <2>5. outcome' \in [Calls -> Outcomes]
    BY <2>1
  <2>6. \A d \in Calls : d \notin {fs} \X cfgs => phase'[d] = phase[d]
    BY <2>1
  <2>7. QED
    BY <1>1, <1>3, <2>1, <2>3, <2>4, <2>5, <2>6
<1>4. QED
  BY <1>2, <1>3

-----------------------------------------------------------------------------
LEMMA InitTypeOK == Init => TypeOK
<1> SUFFICES ASSUME Init PROVE TypeOK
  OBVIOUS
<1>1. key \in [Calls -> Keys]
  BY DEF Init, ContractInit
<1>2. QED
  BY <1>1 DEF Init, ContractInit, TypeOK, Phases, Roles, Statuses, FullSyncs

LEMMA NextTypeOK == TypeOK /\ [Next]_vars => TypeOK'
<1> SUFFICES ASSUME TypeOK, [Next]_vars PROVE TypeOK'
  OBVIOUS
<1>i. "init" \in FullSyncs /\ Requests \subseteq FullSyncs /\ "init" \notin Requests
  BY FullSyncAssumption DEF FullSyncs
<1>1. ASSUME NEW bmcRole \in Roles, NEW redundancy \in BOOLEAN,
             FetchDone(bmcRole, redundancy)
      PROVE  TypeOK'
  <2> DEFINE cfgs == {g \in Cfgs : Eligible(g, bmcRole)}
  <2>0. role' = bmcRole /\ disable_sync' = disable_sync /\ init = "fetching"
    BY <1>1 DEF FetchDone
  <2>1. CASE BeginFullSync("init", cfgs) /\ init' = IF cfgs # {} THEN "fullSync"
                                                                 ELSE "done"
    <3>1. cfgs \in SUBSET Cfgs
      OBVIOUS
    <3> HIDE DEF cfgs
    <3>2. "init" \notin running
      BY <2>0 DEF TypeOK
    <3>3. QED
      BY <1>i, <2>0, <2>1, <3>1, <3>2, BeginFullSyncType
         DEF TypeOK, Outcomes, Healths, Statuses
  <2>2. CASE UNCHANGED <<running, spawned, fullSyncStatus, health, callStates>>
             /\ init' = "done"
    BY <2>0, <2>2 DEF TypeOK, callStates
  <2>3. (\E g \in Cfgs : Eligible(g, bmcRole)) <=> cfgs # {}
    OBVIOUS
  <2>4. QED
    BY <1>1, <2>1, <2>2, <2>3 DEF FetchDone
<1>2. ASSUME NEW fs \in Requests, StartFullSync(fs) PROVE TypeOK'
  <2> DEFINE cfgs == {g \in Cfgs : Eligible(g, role)}
  <2>1. cfgs \in SUBSET Cfgs /\ BeginFullSync(fs, cfgs)
        /\ UNCHANGED <<disable_sync, role, init>>
    BY <1>2 DEF StartFullSync
  <2> HIDE DEF cfgs
  <2>2. fs \in FullSyncs /\ fs # "init"
    BY <1>i
  <2>3. QED
    BY <2>1, <2>2, BeginFullSyncType DEF TypeOK, Outcomes, Healths, Statuses
<1>3. ASSUME NEW fs \in FullSyncs, EndFullSync(fs) PROVE TypeOK'
  BY <1>3 DEF EndFullSync, Publish, callStates, TypeOK, Healths, Statuses
<1>4. ASSUME NEW bmcRole \in Roles, RoleChanges(bmcRole) PROVE TypeOK'
  BY <1>4 DEF RoleChanges, contractVars, callStates, TypeOK
<1>5. ASSUME NEW c \in Calls, CallStep(c) PROVE TypeOK'
  BY <1>5, ProgressType
     DEF CallStep, fullSyncVars, TypeOK, Outcomes, Healths
<1>6. ASSUME NEW c \in OtherCalls, NEW k \in Keys, Ask(c, k),
             UNCHANGED fullSyncVars
      PROVE  TypeOK'
  BY <1>6, AskType DEF fullSyncVars, TypeOK, Outcomes
<1>7. ASSUME NEW disable \in BOOLEAN, SetDisableSync(disable) PROVE TypeOK'
  BY <1>7 DEF SetDisableSync, SwitchSync, fullSyncVars, callStates, TypeOK,
              Healths
<1>8. CASE UNCHANGED vars
  BY <1>8 DEF vars, contractVars, callStates, fullSyncVars, TypeOK
<1>9. QED
  BY <1>1, <1>2, <1>3, <1>4, <1>5, <1>6, <1>7, <1>8 DEF Next

\* The full syncs and their calls stay well typed, and init waits exactly while
\* the full sync it awaits runs.
THEOREM TypeCorrect == Spec => []TypeOK
BY InitTypeOK, NextTypeOK, PTL DEF Spec

-----------------------------------------------------------------------------
(* The status and the running full syncs.                                   *)

\* Every step starts a full sync, ends one, or leaves status and set alone.
Starts(fs) ==
  /\ fs \notin running
  /\ running' = running \cup {fs}
  /\ fullSyncStatus' = "InProgress"
  /\ \/ fullSyncStatus # "InProgress" /\ init' = init
        /\ (init = "fetching" => EarlyRequests)
     \/ init = "fetching" /\ init' # "fetching"
Ends(fs) ==
  /\ fs \in running
  /\ running' = running \ {fs}
  /\ fullSyncStatus' # "InProgress"
  /\ init' = "fetching" => init = "fetching"
Passes ==
  /\ running' = running
  /\ \/ fullSyncStatus' = fullSyncStatus
     \/ fullSyncStatus' = "Completed"
        /\ (fullSyncStatus # "InProgress" \/ init = "fetching")
  /\ init' = "fetching" => init = "fetching"

LEMMA StatusStep ==
  ASSUME TypeOK, [Next]_vars
  PROVE  (\E fs \in FullSyncs : Starts(fs) \/ Ends(fs)) \/ Passes
<1>i. "init" \in FullSyncs /\ Requests \subseteq FullSyncs
  BY DEF FullSyncs
<1>1. ASSUME NEW bmcRole \in Roles, NEW redundancy \in BOOLEAN,
             FetchDone(bmcRole, redundancy)
      PROVE  Starts("init") \/ Passes
  <2> DEFINE cfgs == {g \in Cfgs : Eligible(g, bmcRole)}
  <2>0. init = "fetching" /\ init' # "fetching"
    BY <1>1 DEF FetchDone
  <2>1. CASE BeginFullSync("init", cfgs)
    <3>1. cfgs \in SUBSET Cfgs /\ "init" \notin running
      BY <2>0 DEF TypeOK
    <3> HIDE DEF cfgs
    <3>2. QED
      BY <1>i, <2>0, <2>1, <3>1, BeginFullSyncType DEF Starts, Passes
  <2>2. CASE UNCHANGED <<running, fullSyncStatus>>
    BY <2>0, <2>2 DEF Passes
  <2>3. QED
    BY <1>1, <2>1, <2>2 DEF FetchDone
<1>2. ASSUME NEW fs \in Requests, StartFullSync(fs)
      PROVE  Starts(fs) \/ Passes
  <2> DEFINE cfgs == {g \in Cfgs : Eligible(g, role)}
  <2>1. /\ cfgs \in SUBSET Cfgs /\ BeginFullSync(fs, cfgs)
        /\ init' = init /\ fs \notin running /\ fullSyncStatus # "InProgress"
        /\ (init = "fetching" => EarlyRequests)
    BY <1>2 DEF StartFullSync, MayStart
  <2> HIDE DEF cfgs
  <2>2. QED
    BY <1>i, <2>1, BeginFullSyncType DEF Starts, Passes
<1>3. ASSUME NEW fs \in FullSyncs, EndFullSync(fs) PROVE Ends(fs)
  BY <1>3 DEF EndFullSync, Publish, Ends
<1>4. ASSUME UNCHANGED fullSyncVars PROVE Passes
  BY <1>4 DEF fullSyncVars, Passes
<1>5. ASSUME NEW bmcRole \in Roles, RoleChanges(bmcRole) PROVE Passes
  BY <1>5 DEF RoleChanges, Passes
<1>6. QED
  BY <1>1, <1>2, <1>3, <1>4, <1>5, <1>i
     DEF Next, CallStep, SetDisableSync, vars

\* StartFullSync is never refused for ever: InProgress implies a live full
\* sync, whoever started it and however often requests overlap.
THEOREM NeverLocked == Spec => []NeverLockedOut
<1>1. Init => NeverLockedOut
  BY DEF Init, NeverLockedOut
<1>2. TypeOK /\ NeverLockedOut /\ [Next]_vars => NeverLockedOut'
  BY StatusStep DEF NeverLockedOut, Starts, Ends, Passes
<1>3. QED
  BY <1>1, <1>2, TypeCorrect, PTL DEF Spec

\* What makes OneFullSync inductive: before init has the role, nothing runs.
QuietFetch == ~EarlyRequests => (init = "fetching" => running = {})

\* Without requests before init has the role, full syncs exclude each other.
THEOREM FullSyncsExclusive == Spec => []OneFullSync
<1>1. Init => QuietFetch /\ OneFullSync
  BY DEF Init, QuietFetch, OneFullSync
<1>2. TypeOK /\ QuietFetch /\ OneFullSync /\ [Next]_vars
      => QuietFetch' /\ OneFullSync'
  <2> SUFFICES ASSUME TypeOK, QuietFetch, OneFullSync, [Next]_vars,
                      ~EarlyRequests
               PROVE  QuietFetch' /\ OneFullSync'
    BY DEF QuietFetch, OneFullSync
  <2>1. ASSUME NEW fs \in FullSyncs, Starts(fs)
        PROVE  QuietFetch' /\ OneFullSync'
    <3>1. running = {} /\ running' = {fs} /\ init' # "fetching"
      BY <2>1 DEF Starts, QuietFetch, OneFullSync
    <3>2. QED
      BY <2>1, <3>1 DEF Starts, QuietFetch, OneFullSync
  <2>2. ASSUME NEW fs \in FullSyncs, Ends(fs)
        PROVE  QuietFetch' /\ OneFullSync'
    <3>1. running' = {}
      BY <2>2 DEF Ends, OneFullSync
    <3>2. QED
      BY <3>1 DEF QuietFetch, OneFullSync
  <2>3. CASE Passes
    BY <2>3 DEF Passes, QuietFetch, OneFullSync
  <2>4. QED
    BY <2>1, <2>2, <2>3, StatusStep
<1>3. QED
  BY <1>1, <1>2, TypeCorrect, PTL DEF Spec

-----------------------------------------------------------------------------
\* No call outlives the full sync whose locals its callback writes.
THEOREM CallsBelong == Spec => []NoOrphanCalls
<1>i. /\ FullSyncs \X Cfgs \subseteq Calls
      /\ "init" \in FullSyncs /\ Requests \subseteq FullSyncs
  BY FullSyncAssumption DEF FullSyncs
<1>1. Init => NoOrphanCalls
  BY <1>i DEF Init, ContractInit, NoOrphanCalls, CallsOf
<1>2. TypeOK /\ NoOrphanCalls /\ [Next]_vars => NoOrphanCalls'
  <2> SUFFICES ASSUME TypeOK, NoOrphanCalls, [Next]_vars,
                      NEW fs \in FullSyncs, fs \notin running',
                      NEW c \in CallsOf(fs)
               PROVE  phase'[c] = "idle"
    BY DEF NoOrphanCalls
  <2>c. c \in Calls /\ c \in FullSyncs \X Cfgs /\ c \in {fs} \X Cfgs
    BY <1>i DEF CallsOf
  <2>k. fs \notin running => phase[c] = "idle"
    BY DEF NoOrphanCalls
  <2>b. ASSUME NEW es \in FullSyncs, NEW cfgs \in SUBSET Cfgs,
               BeginFullSync(es, cfgs)
        PROVE  phase'[c] = "idle"
    <3>1. running' = (IF cfgs = {} THEN running ELSE running \cup {es})
          /\ \A d \in Calls : d \notin {es} \X cfgs => phase'[d] = phase[d]
      BY <2>b, BeginFullSyncType
    <3>2. c \notin {es} \X cfgs /\ fs \notin running
      BY <2>c, <3>1
    <3>3. QED
      BY <2>c, <2>k, <3>1, <3>2
  <2>1. ASSUME NEW bmcRole \in Roles, NEW redundancy \in BOOLEAN,
               FetchDone(bmcRole, redundancy)
        PROVE  phase'[c] = "idle"
    <3>1. CASE BeginFullSync("init", {g \in Cfgs : Eligible(g, bmcRole)})
      BY <1>i, <2>b, <3>1
    <3>2. CASE UNCHANGED <<running, callStates>>
      BY <2>k, <3>2 DEF callStates
    <3>3. QED
      BY <2>1, <3>1, <3>2 DEF FetchDone
  <2>2. ASSUME NEW es \in Requests, StartFullSync(es) PROVE phase'[c] = "idle"
    BY <1>i, <2>2, <2>b DEF StartFullSync
  <2>3. ASSUME NEW es \in FullSyncs, EndFullSync(es) PROVE phase'[c] = "idle"
    <3>1. CASE es = fs
      BY <2>3, <3>1 DEF EndFullSync, CallsReturned, callStates
    <3>2. CASE es # fs
      BY <2>3, <2>k, <3>2 DEF EndFullSync, callStates
    <3>3. QED
      BY <3>1, <3>2
  <2>4. ASSUME NEW d \in Calls, CallStep(d) PROVE phase'[c] = "idle"
    <3>1. Progress(d) /\ running' = running
      BY <2>4 DEF CallStep, fullSyncVars
    <3>2. phase[c] = "idle" /\ phase[d] # "idle"
      BY <2>k, <3>1, ProgressType
    <3>3. QED
      BY <2>c, <3>1, <3>2, ProgressType
  <2>5. ASSUME NEW d \in OtherCalls, NEW k \in Keys, Ask(d, k),
               UNCHANGED fullSyncVars
        PROVE  phase'[c] = "idle"
    BY <2>5, <2>c, <2>k, AskType DEF fullSyncVars
  <2>6. ASSUME UNCHANGED <<running, phase>> PROVE phase'[c] = "idle"
    BY <2>6, <2>k
  <2>7. QED
    BY <2>1, <2>2, <2>3, <2>4, <2>5, <2>6
       DEF Next, RoleChanges, SetDisableSync, SwitchSync, contractVars,
           callStates, fullSyncVars, vars
<1>3. QED
  BY <1>1, <1>2, TypeCorrect, PTL DEF Spec

-----------------------------------------------------------------------------
(* The health property.                                                     *)

\* A full sync that begins with paths to copy leaves the health alone, one
\* that has none makes it Ok; only full syncs and DisableSync clear it.
\* Health never says Paused while sync is enabled.
THEOREM PausedIsDisabled == Spec => []PausedMeansDisabled
<1>i. "init" \in FullSyncs /\ Requests \subseteq FullSyncs
  BY DEF FullSyncs
<1>1. Init => PausedMeansDisabled
  BY DEF Init, PausedMeansDisabled
<1>2. TypeOK /\ PausedMeansDisabled /\ [Next]_vars => PausedMeansDisabled'
  <2> SUFFICES ASSUME TypeOK, PausedMeansDisabled, [Next]_vars
               PROVE  PausedMeansDisabled'
    OBVIOUS
  <2>h. ASSUME health' \in {health, "Ok", "Critical"},
               disable_sync' = disable_sync
        PROVE  PausedMeansDisabled'
    BY <2>h DEF PausedMeansDisabled
  <2>1. ASSUME NEW bmcRole \in Roles, NEW redundancy \in BOOLEAN,
               FetchDone(bmcRole, redundancy)
        PROVE  PausedMeansDisabled'
    <3>1. CASE BeginFullSync("init", {g \in Cfgs : Eligible(g, bmcRole)})
      <4>1. health' \in {health, "Ok"}
        BY <1>i, <3>1, BeginFullSyncType
      <4>2. QED
        BY <2>1, <2>h, <4>1 DEF FetchDone
    <3>2. CASE health' = health
      BY <2>1, <2>h, <3>2 DEF FetchDone
    <3>3. QED
      BY <2>1, <3>1, <3>2 DEF FetchDone
  <2>2. ASSUME NEW fs \in Requests, StartFullSync(fs)
        PROVE  PausedMeansDisabled'
    <3>1. BeginFullSync(fs, {g \in Cfgs : Eligible(g, role)}) /\ fs \in FullSyncs
      BY <1>i, <2>2 DEF StartFullSync
    <3>2. health' \in {health, "Ok"}
      BY <3>1, BeginFullSyncType
    <3>3. QED
      BY <2>2, <2>h, <3>2 DEF StartFullSync
  <2>3. ASSUME NEW fs \in FullSyncs, EndFullSync(fs)
        PROVE  PausedMeansDisabled'
    BY <2>3, <2>h DEF EndFullSync, Publish
  <2>4. ASSUME NEW c \in Calls, CallStep(c) PROVE PausedMeansDisabled'
    BY <2>4, <2>h, ProgressType DEF CallStep
  <2>5. ASSUME NEW disable \in BOOLEAN, SetDisableSync(disable)
        PROVE  PausedMeansDisabled'
    BY <2>5 DEF SetDisableSync, SwitchSync, PausedMeansDisabled
  <2>6. ASSUME UNCHANGED <<health, disable_sync>> PROVE PausedMeansDisabled'
    BY <2>6 DEF PausedMeansDisabled
  <2>7. QED
    BY <2>1, <2>2, <2>3, <2>4, <2>5, <2>6
       DEF Next, RoleChanges, Ask, contractVars, callStates, vars
<1>3. QED
  BY <1>1, <1>2, TypeCorrect, PTL DEF Spec

\* A critical failure is cleared by nothing but a full sync none of whose calls
\* failed.
THEOREM CriticalStays == Spec => CriticalIsSticky
<1>i. "init" \in FullSyncs /\ Requests \subseteq FullSyncs
  BY DEF FullSyncs
<1> DEFINE Cleared == health = "Critical" /\ health' # "Critical"
           Earned ==
             /\ fullSyncStatus' = "Completed"
             /\ \E fs \in FullSyncs :
                  /\ fs \in running \ running' \/ spawned'[fs] = {}
                  /\ \A g \in spawned'[fs] : outcome[<<fs, g>>] \notin Failures
<1>1. TypeOK /\ [Next]_vars => (Cleared => Earned)
  <2> SUFFICES ASSUME TypeOK, [Next]_vars, Cleared PROVE Earned
    OBVIOUS
  <2>b. ASSUME NEW fs \in FullSyncs, NEW cfgs \in SUBSET Cfgs,
               BeginFullSync(fs, cfgs)
        PROVE  Earned
    <3>1. cfgs = {} /\ spawned'[fs] = {} /\ fullSyncStatus' = "Completed"
      BY <2>b, BeginFullSyncType
    <3>2. QED
      BY <3>1
  <2>1. ASSUME NEW bmcRole \in Roles, NEW redundancy \in BOOLEAN,
               FetchDone(bmcRole, redundancy)
        PROVE  Earned
    <3>1. BeginFullSync("init", {g \in Cfgs : Eligible(g, bmcRole)})
      BY <2>1 DEF FetchDone
    <3>2. QED
      BY <1>i, <2>b, <3>1
  <2>2. ASSUME NEW fs \in Requests, StartFullSync(fs) PROVE Earned
    BY <1>i, <2>2, <2>b DEF StartFullSync
  <2>3. ASSUME NEW fs \in FullSyncs, EndFullSync(fs) PROVE Earned
    <3>1. /\ \A g \in spawned[fs] : outcome[<<fs, g>>] \in Successes
          /\ fullSyncStatus' = "Completed"
          /\ spawned' = spawned
          /\ fs \in running \ running'
      BY <2>3 DEF EndFullSync, Publish
    <3>2. \A g \in spawned'[fs] : outcome[<<fs, g>>] \notin Failures
      BY <3>1 DEF Successes, Failures
    <3>3. QED
      BY <3>1, <3>2
  <2>4. ASSUME NEW c \in Calls, CallStep(c) PROVE FALSE
    BY <2>4, ProgressType DEF CallStep
  <2>5. ASSUME NEW disable \in BOOLEAN, SetDisableSync(disable) PROVE FALSE
    BY <2>5 DEF SetDisableSync, SwitchSync
  <2>6. health' # health
    OBVIOUS
  <2>7. QED
    BY <2>1, <2>2, <2>3, <2>4, <2>5, <2>6
       DEF Next, RoleChanges, Ask, contractVars, callStates, vars
<1>2. QED
  BY <1>1, TypeCorrect, PTL DEF Spec, CriticalIsSticky
=============================================================================
