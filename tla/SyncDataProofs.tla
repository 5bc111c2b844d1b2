--------------------------- MODULE SyncDataProofs ---------------------------
(***************************************************************************)
(* Safety of syncData for every set of calls, keys and files and every     *)
(* retry limit.  The inductive invariant is IInv: the typing, two facts    *)
(* about what a call may hold while it is suspended (Suspended), the       *)
(* exactness of the in-progress marks and the report count.                *)
(***************************************************************************)
EXTENDS SyncData, TLAPS

\* What the suspension point of a call says of its frame and its rsync child.
Suspended ==
  \A c \in Calls :
    /\ pc[c] \in {"idle", "queued"} => frame[c] = 0
    /\ \A f \in Files :
         stage[c][f] # "sent" => pc[c] = "rsync" /\ f \in Covers[key[c]]

\* A single key copies the file: a configured file, or one in a Periodic
\* directory, which nothing else in the configuration copies.  A file in an
\* Immediate directory has two: its own path (the monitor's) and the directory's.
Alone(f) == \A k, l \in Keys : f \in Covers[k] \cap Covers[l] => k = l

-----------------------------------------------------------------------------
(* Type correctness.                                                        *)

\* The initial state has the declared types.
LEMMA InitTypeOK == Init => TypeOK
<1>1. 0 \in RetryCounts /\ 0 \in UInt8
  BY SyncDataAssumption DEF RetryCounts, UInt8
<1>2. (CHOOSE k \in Keys : TRUE) \in Keys
  BY SyncDataAssumption
<1>3. ASSUME Init PROVE key \in [Calls -> Keys]
  BY <1>2, <1>3, Zenon DEF Init
<1>4. ASSUME Init PROVE stage \in [Calls -> [Files -> Stages]]
  BY <1>4 DEF Init, AllSent, Stages
<1>5. ASSUME Init
      PROVE  /\ pc \in [Calls -> PC]
             /\ frame \in [Calls -> RetryCounts]
             /\ attempts \in [Calls -> UInt8]
             /\ bytes \in [Calls -> Nat]
             /\ outcome \in [Calls -> Outcomes]
             /\ errorLogs \in [Calls -> Nat]
             /\ dstFresh \in [Files -> BOOLEAN]
  BY <1>1, <1>5 DEF Init, PC, Outcomes
<1>6. ASSUME Init
      PROVE  /\ disable_sync \in BOOLEAN
             /\ health \in {"Ok", "Paused", "Critical"}
             /\ inProgress = {} /\ event = {} /\ missed = {} /\ unannounced = {}
  BY <1>6 DEF Init
<1>7. QED
  BY <1>3, <1>4, <1>5, <1>6 DEF TypeOK

\* Within the retry limit no outer frame reports: returning false ends the call.
LEMMA FailureEndsCall ==
  ASSUME TypeOK, NEW c \in Calls, NEW how, ReturnFalse(c, how)
  PROVE  Finish(c, how) /\ missed' = missed \cup Stale(key[c])
<1>1. frame[c] \in 0 .. MaxRetry
  BY DEF TypeOK, RetryCounts
<1>2. ~(frame[c] > 0 /\ frame[c] - 1 >= MaxRetry)
  BY <1>1, SyncDataAssumption
<1>3. QED
  BY <1>2 DEF ReturnFalse

\* Every step of a call keeps the declared types and the retry limit.
LEMMA CallStepTypeOK ==
  ASSUME TypeOK, NEW c \in Calls, CallStep(c)
  PROVE  TypeOK'
<1> USE DEF TypeOK, PC, Outcomes, Stages
<1>a. 0 \in RetryCounts /\ 1 \in UInt8 /\ \A n \in Nat : n % CounterMod \in UInt8
  BY SyncDataAssumption DEF RetryCounts, UInt8
<1>s. Stale(key[c]) \subseteq Files /\ NotifyKeys \subseteq Keys
  BY SyncDataAssumption DEF Stale
<1>b. frame[c] \in RetryCounts /\ attempts[c] \in UInt8 /\ attempts[c] + 1 \in Nat
  BY DEF UInt8
<1>1. CASE Refuse(c)
  <2>1. CASE pc[c] = "sleep"
    <3>1. /\ Finish(c, "refused") /\ missed' = missed \cup Stale(key[c])
          /\ unannounced' = unannounced \ {key[c]}
          /\ UNCHANGED <<disable_sync, key, attempts, event, stage, bytes,
                         dstFresh>>
      BY <1>1, <2>1, FailureEndsCall DEF Refuse
    <3>2. QED
      BY <3>1, <1>a, <1>s DEF Finish
  <2>2. CASE pc[c] = "queued"
    BY <1>1, <2>2, <1>s DEF Refuse
  <2>3. QED
    BY <1>1, <2>1, <2>2 DEF Refuse
<1>2. CASE Skip(c)
  BY <1>2, <1>s DEF Skip, dataVars
<1>3. CASE NothingToSync(c)
  BY <1>3, <1>a, <1>s DEF NothingToSync, MayRun, Finish, dataVars
<1>4. CASE StartRsync(c)
  BY <1>4 DEF StartRsync, MayRun
<1>5. ASSUME NEW f \in Files, ReadFile(c, f) PROVE TypeOK'
  BY <1>5 DEF ReadFile, callVars
<1>6. ASSUME NEW f \in Files, SendFile(c, f) PROVE TypeOK'
  <2>1. \A size \in Sizes : bytes[c] + size \in Nat
    BY SyncDataAssumption
  <2>2. bytes' \in [Calls -> Nat]
    BY <1>6, <2>1 DEF SendFile
  <2>3. unannounced' \subseteq Keys
    BY <1>6, <1>s DEF SendFile
  <2>4. QED
    BY <1>6, <2>2, <2>3 DEF SendFile, callVars
<1>7. CASE RsyncSucceeds(c)
  BY <1>7, <1>a DEF RsyncSucceeds, ChildExits, Finish, AllSent
<1>8. CASE RsyncSucceedsAndNotifies(c)
  BY <1>8, <1>a DEF RsyncSucceedsAndNotifies, ChildExits, AllSent
<1>9. CASE RsyncVanished(c)
  BY <1>9, <1>a DEF RsyncVanished, ChildExits, Finish, AllSent
<1>10. CASE RsyncFailsForGood(c)
  BY <1>10 DEF RsyncFailsForGood, ChildExits, Report, AllSent
<1>11. CASE RsyncFails(c)
  <2>1. /\ RetryOrGiveUp(c)
        /\ unannounced' \subseteq Keys
        /\ stage' = [stage EXCEPT ![c] = AllSent]
        /\ bytes' = [bytes EXCEPT ![c] = 0]
        /\ UNCHANGED <<disable_sync, key, attempts, event, missed, dstFresh>>
    BY <1>11 DEF RsyncFails, ChildExits
  <2>2. CASE frame[c] < MaxRetry
    <3>1. frame[c] + 1 \in RetryCounts
      BY <2>2, SyncDataAssumption DEF RetryCounts
    <3>2. QED
      BY <2>1, <2>2, <3>1 DEF RetryOrGiveUp, AllSent
  <2>3. CASE ~(frame[c] < MaxRetry)
    <3>1. Report(c, frame[c])
      BY <2>1, <2>3 DEF RetryOrGiveUp
    <3>2. QED
      BY <2>1, <3>1 DEF Report, AllSent
  <2>4. QED
    BY <2>2, <2>3
<1>12. CASE ErrorLogWritten(c)
  <2>1. Finish(c, "failed") /\ missed' = missed \cup Stale(key[c])
    BY <1>12, FailureEndsCall DEF ErrorLogWritten
  <2>2. QED
    BY <1>12, <1>a, <1>s, <2>1 DEF ErrorLogWritten, Finish, dataVars
<1>13. CASE NotifyEnds(c)
  BY <1>13, <1>a DEF NotifyEnds, Finish
<1>14. CASE NotifyFails(c)
  BY <1>14 DEF NotifyFails
<1>15. CASE NotifyAgain(c)
  BY <1>15, <1>a, <1>b DEF NotifyAgain, dataVars
<1>16. CASE NotifyLogWritten(c)
  BY <1>16, <1>a DEF NotifyLogWritten, Finish, dataVars
<1>17. QED
  BY <1>1, <1>2, <1>3, <1>4, <1>5, <1>6, <1>7, <1>8, <1>9, <1>10, <1>11,
     <1>12, <1>13, <1>14, <1>15, <1>16 DEF CallStep

\* So does every step of the callers and of the environment.
LEMMA NextTypeOK == TypeOK /\ [Next]_vars => TypeOK'
<1> SUFFICES ASSUME TypeOK, [Next]_vars PROVE TypeOK'
  OBVIOUS
<1>1. ASSUME NEW c \in Calls, NEW k \in Keys, Request(c, k) \/ ServeEvent(c, k)
      PROVE  TypeOK'
  <2>1. Spawn(c, k) /\ event' \subseteq event
    BY <1>1 DEF Request, ServeEvent
  <2>2. QED
    BY <2>1 DEF Spawn, TypeOK, PC, Outcomes, dataVars
<1>2. ASSUME NEW f \in Files, Write(f, WatchersOf(f)) PROVE TypeOK'
  BY <1>2, SyncDataAssumption DEF Write, WatchersOf, TypeOK, Stages, callVars
<1>3. ASSUME NEW disable \in BOOLEAN, SetDisableSync(disable) PROVE TypeOK'
  BY <1>3, SyncDataAssumption DEF SetDisableSync, TypeOK, Stale, callVars, dataVars
<1>4. CASE UNCHANGED vars
  BY <1>4 DEF vars, callVars, dataVars, TypeOK
<1>5. QED
  BY <1>1, <1>2, <1>3, <1>4, CallStepTypeOK DEF Next

\* The coroutine state always has its declared types, and no call ever runs
\* more retry frames than the configuration allows.
THEOREM TypeCorrect == Spec => []TypeOK
BY InitTypeOK, NextTypeOK, PTL DEF Spec

-----------------------------------------------------------------------------
(* The in-progress marks are exact.                                         *)

\* What a step of call c does to the marks: nothing, take the mark of a free
\* key, or give back its own.
Keeps(c) == /\ inProgress' = inProgress
            /\ Owns(c)' = Owns(c)
Takes(c) == /\ ~Owns(c) /\ Owns(c)'
            /\ key[c] \notin inProgress
            /\ inProgress' = inProgress \cup {key[c]}
Gives(c) == /\ Owns(c) /\ ~Owns(c)'
            /\ inProgress' = inProgress \ {key[c]}

\* Every step of a call is one of these three, and leaves other calls alone.
LEMMA MarkStep ==
  ASSUME TypeOK, MarkIsExact, NEW c \in Calls, CallStep(c)
  PROVE  /\ key' = key
         /\ \A d \in Calls : d # c => pc'[d] = pc[d]
         /\ Keeps(c) \/ Takes(c) \/ Gives(c)
<1>a. pc \in [Calls -> PC] /\ (Owns(c) => key[c] \in inProgress)
  BY DEF TypeOK, MarkIsExact
<1> USE <1>a DEF Owns, PC, Keeps, Takes, Gives
<1>1. CASE Refuse(c)
  BY <1>1, FailureEndsCall DEF Refuse, Finish
<1>2. CASE Skip(c)
  BY <1>2 DEF Skip
<1>3. CASE NothingToSync(c)
  BY <1>3 DEF NothingToSync, MayRun, Finish
<1>4. CASE StartRsync(c)
  BY <1>4 DEF StartRsync, MayRun
<1>5. ASSUME NEW f \in Files, ReadFile(c, f) \/ SendFile(c, f)
      PROVE  key' = key /\ pc' = pc /\ inProgress' = inProgress
  BY <1>5 DEF ReadFile, SendFile, callVars
<1>6. CASE \/ RsyncSucceeds(c) \/ RsyncVanished(c)
           \/ NotifyEnds(c) \/ NotifyLogWritten(c)
  BY <1>6 DEF RsyncSucceeds, RsyncVanished, NotifyEnds, NotifyLogWritten, Finish
<1>7. CASE RsyncSucceedsAndNotifies(c)
  BY <1>7 DEF RsyncSucceedsAndNotifies
<1>8. CASE RsyncFailsForGood(c) \/ RsyncFails(c)
  BY <1>8 DEF RsyncFailsForGood, RsyncFails, RetryOrGiveUp, Report
<1>9. CASE ErrorLogWritten(c)
  BY <1>9, FailureEndsCall DEF ErrorLogWritten, Finish
<1>10. CASE NotifyFails(c) \/ NotifyAgain(c)
  BY <1>10 DEF NotifyFails, NotifyAgain
<1>11. QED
  BY <1>1, <1>2, <1>3, <1>4, <1>5, <1>6, <1>7, <1>8, <1>9, <1>10 DEF CallStep

\* The marks stay exact.
LEMMA NextMarkIsExact == TypeOK /\ MarkIsExact /\ [Next]_vars => MarkIsExact'
<1> SUFFICES ASSUME TypeOK, MarkIsExact, [Next]_vars PROVE MarkIsExact'
  OBVIOUS
<1>1. ASSUME NEW c \in Calls, CallStep(c) PROVE MarkIsExact'
  <2>1. key' = key /\ \A d \in Calls : d # c => (Owns(d)' <=> Owns(d))
    BY <1>1, MarkStep DEF Owns
  <2>2. CASE Keeps(c)
    BY <2>1, <2>2 DEF Keeps, MarkIsExact
  <2>3. CASE Takes(c)
    BY <2>1, <2>3 DEF Takes, MarkIsExact
  <2>4. CASE Gives(c)
    BY <2>1, <2>4 DEF Gives, MarkIsExact
  <2>5. QED
    BY <1>1, <2>2, <2>3, <2>4, MarkStep
<1>2. ASSUME NEW c \in Calls, NEW k \in Keys, Request(c, k) \/ ServeEvent(c, k)
      PROVE  MarkIsExact'
  <2>1. Spawn(c, k)
    BY <1>2 DEF Request, ServeEvent
  <2>2. \A d \in Calls : /\ Owns(d)' <=> Owns(d)
                         /\ Owns(d) => key'[d] = key[d]
    BY <2>1 DEF Spawn, Owns, TypeOK, PC
  <2>3. QED
    BY <2>1, <2>2 DEF Spawn, MarkIsExact
<1>3. CASE \/ \E f \in Files : Write(f, WatchersOf(f))
           \/ \E disable \in BOOLEAN : SetDisableSync(disable)
           \/ UNCHANGED vars
  BY <1>3 DEF Write, SetDisableSync, MarkIsExact, Owns, vars, callVars
<1>4. QED
  BY <1>1, <1>2, <1>3 DEF Next

\* A path is in _syncInProgressPaths exactly while one call works on it.
THEOREM MarkExactness == Spec => []MarkIsExact
<1>1. Init => MarkIsExact
  BY DEF Init, MarkIsExact, Owns
<1>2. QED
  BY <1>1, NextMarkIsExact, TypeCorrect, PTL DEF Spec

-----------------------------------------------------------------------------
(* Suspension facts and the report count.                                   *)

\* The frame counter is reset between calls, and only a running rsync child
\* holds content.
LEMMA NextSuspended == TypeOK /\ Suspended /\ [Next]_vars => Suspended'
<1> SUFFICES ASSUME TypeOK, Suspended, [Next]_vars PROVE Suspended'
  OBVIOUS
<1>t. /\ pc \in [Calls -> PC]
      /\ key \in [Calls -> Keys]
      /\ frame \in [Calls -> RetryCounts]
      /\ stage \in [Calls -> [Files -> Stages]]
  BY DEF TypeOK
<1> USE <1>t DEF Suspended
<1>1. ASSUME NEW c \in Calls, CallStep(c) PROVE Suspended'
  <2>1. CASE Refuse(c)
    BY <1>1, <2>1, FailureEndsCall DEF Refuse, Finish
  <2>2. CASE Skip(c)
    BY <2>2 DEF Skip, dataVars
  <2>3. CASE NothingToSync(c)
    BY <2>3 DEF NothingToSync, MayRun, Finish, dataVars
  <2>4. CASE StartRsync(c)
    BY <2>4 DEF StartRsync, MayRun
  <2>5. ASSUME NEW f \in Files, ReadFile(c, f) \/ SendFile(c, f)
        PROVE  Suspended'
    BY <2>5 DEF ReadFile, SendFile, callVars
  <2>6. CASE RsyncSucceeds(c) \/ RsyncVanished(c)
    BY <2>6 DEF RsyncSucceeds, RsyncVanished, ChildExits, Finish, AllSent
  <2>7. CASE RsyncSucceedsAndNotifies(c)
    BY <2>7 DEF RsyncSucceedsAndNotifies, ChildExits, AllSent
  <2>8. CASE RsyncFailsForGood(c) \/ RsyncFails(c)
    BY <2>8 DEF RsyncFailsForGood, RsyncFails, RetryOrGiveUp, Report,
                ChildExits, AllSent
  <2>9. CASE ErrorLogWritten(c)
    BY <2>9, FailureEndsCall DEF ErrorLogWritten, Finish, dataVars
  <2>10. CASE NotifyEnds(c) \/ NotifyLogWritten(c)
    BY <2>10 DEF NotifyEnds, NotifyLogWritten, Finish, dataVars
  <2>11. CASE NotifyFails(c) \/ NotifyAgain(c)
    BY <2>11 DEF NotifyFails, NotifyAgain, dataVars
  <2>12. QED
    BY <1>1, <2>1, <2>2, <2>3, <2>4, <2>5, <2>6, <2>7, <2>8, <2>9, <2>10, <2>11
       DEF CallStep
<1>2. ASSUME NEW c \in Calls, NEW k \in Keys, Request(c, k) \/ ServeEvent(c, k)
      PROVE  Suspended'
  BY <1>2 DEF Request, ServeEvent, Spawn, dataVars
<1>3. ASSUME NEW f \in Files, Write(f, WatchersOf(f)) PROVE Suspended'
  BY <1>3 DEF Write, callVars
<1>4. CASE (\E disable \in BOOLEAN : SetDisableSync(disable)) \/ UNCHANGED vars
  BY <1>4 DEF SetDisableSync, vars, callVars, dataVars
<1>5. QED
  BY <1>1, <1>2, <1>3, <1>4 DEF Next

\* The number of SyncFailure logs of a call matches how it ended.
LEMMA NextReportedExactlyOnce ==
  TypeOK /\ ReportedExactlyOnce /\ [Next]_vars => ReportedExactlyOnce'
<1> SUFFICES ASSUME TypeOK, ReportedExactlyOnce, [Next]_vars
             PROVE  ReportedExactlyOnce'
  OBVIOUS
<1>t. /\ pc \in [Calls -> PC]
      /\ outcome \in [Calls -> Outcomes]
      /\ errorLogs \in [Calls -> Nat]
  BY DEF TypeOK
<1> USE <1>t DEF ReportedExactlyOnce
<1>1. ASSUME NEW c \in Calls, CallStep(c) PROVE ReportedExactlyOnce'
  <2>1. CASE Refuse(c)
    BY <2>1, FailureEndsCall DEF Refuse, Finish
  <2>2. CASE Skip(c)
    BY <2>2 DEF Skip
  <2>3. CASE NothingToSync(c)
    BY <2>3 DEF NothingToSync, MayRun, Finish
  <2>4. CASE StartRsync(c)
    BY <2>4 DEF StartRsync, MayRun
  <2>5. ASSUME NEW f \in Files, ReadFile(c, f) \/ SendFile(c, f)
        PROVE  ReportedExactlyOnce'
    BY <2>5 DEF ReadFile, SendFile, callVars
  <2>6. CASE RsyncSucceeds(c) \/ RsyncVanished(c)
    BY <2>6 DEF RsyncSucceeds, RsyncVanished, Finish
  <2>7. CASE RsyncSucceedsAndNotifies(c)
    BY <2>7 DEF RsyncSucceedsAndNotifies
  <2>8. CASE RsyncFailsForGood(c) \/ RsyncFails(c)
    BY <2>8 DEF RsyncFailsForGood, RsyncFails, RetryOrGiveUp, Report
  <2>9. CASE ErrorLogWritten(c)
    BY <2>9, FailureEndsCall DEF ErrorLogWritten, Finish
  <2>10. CASE NotifyEnds(c) \/ NotifyLogWritten(c)
    BY <2>10 DEF NotifyEnds, NotifyLogWritten, Finish
  <2>11. CASE NotifyFails(c) \/ NotifyAgain(c)
    BY <2>11 DEF NotifyFails, NotifyAgain
  <2>12. QED
    BY <1>1, <2>1, <2>2, <2>3, <2>4, <2>5, <2>6, <2>7, <2>8, <2>9, <2>10, <2>11
       DEF CallStep
<1>2. ASSUME NEW c \in Calls, NEW k \in Keys, Request(c, k) \/ ServeEvent(c, k)
      PROVE  ReportedExactlyOnce'
  BY <1>2 DEF Request, ServeEvent, Spawn
<1>3. CASE \/ \E f \in Files : Write(f, WatchersOf(f))
           \/ \E disable \in BOOLEAN : SetDisableSync(disable)
           \/ UNCHANGED vars
  BY <1>3 DEF Write, SetDisableSync, vars, callVars
<1>4. QED
  BY <1>1, <1>2, <1>3 DEF Next

\* A sync that fails for good is reported once, any other one never.
THEOREM ReportsAreExact == Spec => []ReportedExactlyOnce
<1>1. Init => ReportedExactlyOnce
  BY DEF Init, ReportedExactlyOnce
<1>2. QED
  BY <1>1, NextReportedExactlyOnce, TypeCorrect, PTL DEF Spec

-----------------------------------------------------------------------------
(* Staleness at the sibling.                                                *)

\* The inductive invariant, for one file.
IInv(f) ==
  /\ TypeOK
  /\ Suspended
  /\ MarkIsExact
  /\ NotOverwritten(f)
  /\ Accounted(f)

\* Two calls with an rsync child at work on one file work on different keys.
LEMMA ChildrenOfTwoKeys ==
  ASSUME TypeOK, Suspended, MarkIsExact,
         NEW c \in Calls, NEW d \in Calls, NEW f \in Files, c # d,
         stage[c][f] # "sent", stage[d][f] # "sent"
  PROVE  key[c] # key[d] /\ f \in Covers[key[c]] \cap Covers[key[d]]
BY DEF Suspended, Owns, MarkIsExact

\* Two calls cannot both have an rsync child at work on a file with one key.
LEMMA OneChildPerFile ==
  ASSUME TypeOK, Suspended, MarkIsExact,
         NEW c \in Calls, NEW d \in Calls, NEW f \in Files, Alone(f),
         stage[c][f] # "sent", stage[d][f] # "sent"
  PROVE  c = d
BY ChildrenOfTwoKeys DEF Alone, TypeOK

\* An obsolete copy in flight never meets a fresh one at the sibling.
LEMMA NextNotOverwritten ==
  ASSUME NEW g \in Files, Alone(g), TypeOK, Suspended, MarkIsExact,
         NotOverwritten(g), [Next]_vars
  PROVE  NotOverwritten(g)'
<1>t. /\ stage \in [Calls -> [Files -> Stages]]
      /\ dstFresh \in [Files -> BOOLEAN]
  BY DEF TypeOK
<1> USE <1>t DEF NotOverwritten
<1>1. ASSUME NEW c \in Calls, NEW f \in Files, ReadFile(c, f)
      PROVE  NotOverwritten(g)'
  BY <1>1 DEF ReadFile
<1>2. ASSUME NEW c \in Calls, NEW f \in Files, SendFile(c, f)
      PROVE  NotOverwritten(g)'
  <2>1. f = g => \A d \in Calls : d # c => stage[d][f] = "sent"
    BY <1>2, OneChildPerFile DEF SendFile
  <2>2. /\ stage' = [stage EXCEPT ![c][f] = "sent"]
        /\ dstFresh' = [dstFresh EXCEPT ![f] = (stage[c][f] = "current")]
    BY <1>2 DEF SendFile
  <2>3. QED
    BY <2>1, <2>2
<1>3. ASSUME NEW c \in Calls, CallStep(c),
             ~\E f \in Files : ReadFile(c, f) \/ SendFile(c, f)
      PROVE  NotOverwritten(g)'
  <2>1. dstFresh' = dstFresh
    BY <1>3 DEF CallStep, Refuse, Skip, NothingToSync, StartRsync, RsyncSucceeds,
       RsyncSucceedsAndNotifies, RsyncVanished, RsyncFailsForGood, RsyncFails,
       ErrorLogWritten, NotifyEnds, NotifyFails, NotifyAgain, NotifyLogWritten,
       dataVars
  <2>2. \/ stage' = stage
        \/ stage' = [stage EXCEPT ![c] = AllSent]
        \/ stage' = [stage EXCEPT ![c] =
                       [f \in Files |-> IF f \in Covers[key[c]] THEN "todo"
                                                                ELSE "sent"]]
    BY <1>3 DEF CallStep, Refuse, Skip, NothingToSync, StartRsync, RsyncSucceeds,
       RsyncSucceedsAndNotifies, RsyncVanished, RsyncFailsForGood, RsyncFails,
       ErrorLogWritten, NotifyEnds, NotifyFails, NotifyAgain, NotifyLogWritten,
       dataVars, ChildExits
  <2>3. QED
    BY <2>1, <2>2 DEF AllSent
<1>4. ASSUME NEW f \in Files, Write(f, WatchersOf(f)) PROVE NotOverwritten(g)'
  BY <1>4 DEF Write
<1>5. CASE \/ \E c \in Calls, k \in Keys : Request(c, k) \/ ServeEvent(c, k)
           \/ \E disable \in BOOLEAN : SetDisableSync(disable)
           \/ UNCHANGED vars
  BY <1>5 DEF Request, ServeEvent, Spawn, SetDisableSync, vars, dataVars
<1>6. QED
  BY <1>1, <1>2, <1>3, <1>4, <1>5 DEF Next

\* A step of call c hands on every stale file it was going to take care of:
\* it still will, or the file is recorded as missed, or it is fresh now.
LEMMA StaleHandedOn ==
  ASSUME TypeOK, Suspended, MarkIsExact, NEW c \in Calls, CallStep(c),
         NEW f \in Files, WillSync(c, f), ~dstFresh[f]
  PROVE  WillSync(c, f)' \/ f \in missed' \/ dstFresh'[f]
<1>t. /\ pc \in [Calls -> PC]
      /\ key \in [Calls -> Keys]
      /\ stage \in [Calls -> [Files -> Stages]]
      /\ dstFresh \in [Files -> BOOLEAN]
  BY DEF TypeOK
<1>s. f \in Stale(key[c])
  BY DEF WillSync, Stale
<1> USE <1>t, <1>s DEF WillSync
<1>1. CASE Refuse(c)
  BY <1>1, FailureEndsCall DEF Refuse
<1>2. CASE Skip(c)
  <2>1. OwnerOf(key[c]) # {}
    BY <1>2 DEF Skip, MarkIsExact, OwnerOf
  <2>2. QED
    BY <1>2, <2>1 DEF Skip
<1>3. CASE NothingToSync(c)
  BY <1>3 DEF NothingToSync
<1>4. CASE StartRsync(c)
  BY <1>4 DEF StartRsync
<1>5. ASSUME NEW g \in Files, ReadFile(c, g) PROVE WillSync(c, f)'
  BY <1>5 DEF ReadFile, callVars
<1>6. ASSUME NEW g \in Files, SendFile(c, g)
      PROVE  WillSync(c, f)' \/ dstFresh'[f]
  BY <1>6 DEF SendFile, callVars
<1>7. CASE RsyncSucceeds(c) \/ RsyncSucceedsAndNotifies(c) \/ RsyncVanished(c)
  BY <1>7 DEF RsyncSucceeds, RsyncSucceedsAndNotifies, RsyncVanished, AllSent
<1>8. CASE RsyncFailsForGood(c) \/ RsyncFails(c)
  BY <1>8 DEF RsyncFailsForGood, RsyncFails, RetryOrGiveUp, Report
<1>9. CASE ErrorLogWritten(c)
  BY <1>9, FailureEndsCall DEF ErrorLogWritten
<1>10. CASE \/ NotifyEnds(c) \/ NotifyFails(c)
            \/ NotifyAgain(c) \/ NotifyLogWritten(c)
  BY <1>10 DEF NotifyEnds, NotifyFails, NotifyAgain, NotifyLogWritten
<1>11. QED
  BY <1>1, <1>2, <1>3, <1>4, <1>5, <1>6, <1>7, <1>8, <1>9, <1>10 DEF CallStep

\* A step of call c touches no other call, and keeps what is recorded.
LEMMA CallStepLocal ==
  ASSUME NEW f \in Files, TypeOK, Suspended, MarkIsExact, NotOverwritten(f),
         NEW c \in Calls, CallStep(c)
  PROVE  /\ event' = event
         /\ f \in missed => f \in missed' \/ WillSync(c, f)'
         /\ \A d \in Calls : d # c => (WillSync(d, f) => WillSync(d, f)')
         /\ dstFresh[f] => dstFresh'[f]
<1>t. /\ pc \in [Calls -> PC]
      /\ stage \in [Calls -> [Files -> Stages]]
      /\ dstFresh \in [Files -> BOOLEAN]
  BY DEF TypeOK
<1> USE <1>t
<1>1. event' = event
  BY DEF CallStep, Refuse, Skip, NothingToSync, StartRsync, ReadFile, SendFile,
     RsyncSucceeds, RsyncSucceedsAndNotifies, RsyncVanished, RsyncFailsForGood,
     RsyncFails, ErrorLogWritten, NotifyEnds, NotifyFails, NotifyAgain,
     NotifyLogWritten
<1>2. \A d \in Calls : d # c => stage'[d] = stage[d]
  BY DEF CallStep, Refuse, Skip, NothingToSync, StartRsync, ReadFile, SendFile,
     RsyncSucceeds, RsyncSucceedsAndNotifies, RsyncVanished, RsyncFailsForGood,
     RsyncFails, ErrorLogWritten, NotifyEnds, NotifyFails, NotifyAgain,
     NotifyLogWritten, ChildExits, dataVars
<1>3. \A d \in Calls : d # c => (WillSync(d, f) => WillSync(d, f)')
  BY <1>2, MarkStep DEF WillSync
<1>4. CASE \E g \in Files : ReadFile(c, g)
  BY <1>1, <1>3, <1>4 DEF ReadFile, WillSync, Suspended, callVars
<1>5. CASE \E g \in Files : SendFile(c, g)
  BY <1>1, <1>3, <1>5 DEF SendFile, NotOverwritten
<1>6. CASE ~\E g \in Files : ReadFile(c, g) \/ SendFile(c, g)
  <2>1. dstFresh' = dstFresh
    BY <1>6 DEF CallStep, Refuse, Skip, NothingToSync, StartRsync, RsyncSucceeds,
       RsyncSucceedsAndNotifies, RsyncVanished, RsyncFailsForGood, RsyncFails,
       ErrorLogWritten, NotifyEnds, NotifyFails, NotifyAgain, NotifyLogWritten,
       dataVars
  <2>2. missed \subseteq missed'
    BY <1>6, FailureEndsCall DEF CallStep, Refuse, Skip, NothingToSync,
       StartRsync, RsyncSucceeds, RsyncSucceedsAndNotifies, RsyncVanished,
       RsyncFailsForGood, RsyncFails, ErrorLogWritten, NotifyEnds, NotifyFails,
       NotifyAgain, NotifyLogWritten
  <2>3. QED
    BY <1>1, <1>3, <2>1, <2>2
<1>7. QED
  BY <1>4, <1>5, <1>6

\* Every stale file stays accounted for.
LEMMA NextAccounted ==
  ASSUME NEW f \in Files, IInv(f), [Next]_vars
  PROVE  Accounted(f)'
<1>t. /\ pc \in [Calls -> PC]
      /\ key \in [Calls -> Keys]
      /\ stage \in [Calls -> [Files -> Stages]]
      /\ dstFresh \in [Files -> BOOLEAN]
      /\ event \subseteq Keys
  BY DEF IInv, TypeOK
<1> USE <1>t
<1>1. ASSUME NEW c \in Calls, CallStep(c) PROVE Accounted(f)'
  <2> SUFFICES ASSUME ~dstFresh'[f]
               PROVE  \/ f \in missed'
                      \/ \E k \in event' : f \in Covers[k]
                      \/ \E d \in Calls : WillSync(d, f)'
    BY DEF Accounted
  <2>1. /\ event' = event
        /\ f \in missed => f \in missed' \/ WillSync(c, f)'
        /\ \A d \in Calls : d # c => (WillSync(d, f) => WillSync(d, f)')
        /\ ~dstFresh[f]
    BY <1>1, CallStepLocal DEF IInv
  <2>2. WillSync(c, f) => WillSync(c, f)' \/ f \in missed'
    BY <1>1, <2>1, StaleHandedOn DEF IInv
  <2>3. QED
    BY <2>1, <2>2 DEF IInv, Accounted
<1>2. ASSUME NEW c \in Calls, NEW k \in Keys, Request(c, k) \/ ServeEvent(c, k)
      PROVE  Accounted(f)'
  <2>1. Spawn(c, k) /\ (event' = event \/ event' = event \ {k})
    BY <1>2 DEF Request, ServeEvent
  <2>2. f \in Covers[k] => WillSync(c, f)'
    BY <2>1 DEF Spawn, WillSync
  <2>3. \A d \in Calls : WillSync(d, f) => WillSync(d, f)'
    BY <2>1 DEF Spawn, WillSync, dataVars
  <2>4. missed' = missed /\ dstFresh' = dstFresh
    BY <2>1 DEF Spawn, dataVars
  <2>5. QED
    BY <2>1, <2>2, <2>3, <2>4 DEF IInv, Accounted
<1>3. ASSUME NEW g \in Files, Write(g, WatchersOf(g)) PROVE Accounted(f)'
  <2>1. f # g => \A d \in Calls : WillSync(d, f) => WillSync(d, f)'
    BY <1>3 DEF Write, WillSync, callVars
  <2>2. \A k \in WatchersOf(g) : g \in Covers[k]
    BY DEF WatchersOf
  <2>3. /\ event' = event \cup WatchersOf(g)
        /\ missed' = IF WatchersOf(g) = {} THEN missed \cup {g} ELSE missed \ {g}
        /\ dstFresh' = [dstFresh EXCEPT ![g] = FALSE]
    BY <1>3 DEF Write
  <2>4. QED
    BY <2>1, <2>2, <2>3 DEF IInv, Accounted
<1>4. ASSUME NEW disable \in BOOLEAN, SetDisableSync(disable)
      PROVE  Accounted(f)'
  <2>1. \A d \in Calls : WillSync(d, f)' <=> WillSync(d, f)
    BY <1>4 DEF SetDisableSync, WillSync, callVars, dataVars
  <2>2. QED
    BY <1>4, <2>1 DEF SetDisableSync, IInv, Accounted, Stale, dataVars
<1>5. CASE UNCHANGED vars
  BY <1>5 DEF vars, callVars, dataVars, IInv, Accounted, WillSync
<1>6. QED
  BY <1>1, <1>2, <1>3, <1>4, <1>5 DEF Next

\* The initial state satisfies the invariant.
LEMMA InitIInv == Init => \A f \in Files : IInv(f)
BY InitTypeOK
   DEF Init, IInv, Suspended, MarkIsExact, Owns, NotOverwritten, Accounted,
       AllSent

\* A file a single key copies is never overwritten by an older copy of it, and
\* never stale at the sibling unaccounted for, whatever else the configuration
\* syncs: of the files one call at a time copies, the mark is protection enough.
THEOREM StalenessIsAccounted ==
  ASSUME NEW f \in Files, Alone(f)
  PROVE  Spec => [](NotOverwritten(f) /\ Accounted(f))
<1>1. IInv(f) /\ [Next]_vars => IInv(f)'
  <2> SUFFICES ASSUME IInv(f), [Next]_vars PROVE IInv(f)'
    OBVIOUS
  <2>1. TypeOK' /\ Suspended' /\ MarkIsExact'
    BY NextTypeOK, NextSuspended, NextMarkIsExact DEF IInv
  <2>2. NotOverwritten(f)' /\ Accounted(f)'
    BY NextNotOverwritten, NextAccounted DEF IInv
  <2>3. QED
    BY <2>1, <2>2 DEF IInv
<1>2. IInv(f) => NotOverwritten(f) /\ Accounted(f)
  BY DEF IInv
<1>3. Init => IInv(f)
  BY InitIInv
<1>4. QED
  BY <1>1, <1>2, <1>3, PTL DEF Spec

\* Whatever the configuration: an obsolete copy in flight becomes a danger to a
\* file only when another call, of another key that copies the file too, delivers
\* the newer copy at the same time.  Calls of one key never race.
THEOREM RacesNeedTwoKeys ==
  Spec => [][\A c \in Calls, f \in Files :
               stage[c][f] = "old" /\ ~dstFresh[f] /\ dstFresh'[f] =>
                 \E d \in Calls : /\ key[d] # key[c]
                                  /\ stage[d][f] # "sent"
                                  /\ f \in Covers[key[c]] \cap Covers[key[d]]]_vars
<1> DEFINE Race(c, f) == stage[c][f] = "old" /\ ~dstFresh[f] /\ dstFresh'[f]
           Rival(c, f) == \E d \in Calls :
                            /\ key[d] # key[c]
                            /\ stage[d][f] # "sent"
                            /\ f \in Covers[key[c]] \cap Covers[key[d]]
           Held == TypeOK /\ Suspended /\ MarkIsExact
<1>1. ASSUME Held, Next, NEW c \in Calls, NEW f \in Files, Race(c, f)
      PROVE  Rival(c, f)
  <2>1. PICK d \in Calls : SendFile(d, f) /\ stage[d][f] = "current"
    <3>t. dstFresh \in [Files -> BOOLEAN]
      BY <1>1 DEF TypeOK
    <3>1. \/ \E d \in Calls : CallStep(d)
          \/ \E g \in Files : Write(g, WatchersOf(g))
          \/ dstFresh' = dstFresh
      BY <1>1 DEF Next, Request, ServeEvent, Spawn, SetDisableSync, dataVars
    <3>2. ~\E g \in Files : Write(g, WatchersOf(g))
      BY <1>1, <3>t DEF Write
    <3>3. PICK d \in Calls : CallStep(d)
      BY <1>1, <3>1, <3>2
    <3>4. PICK g \in Files : SendFile(d, g)
      BY <1>1, <3>3 DEF CallStep, Refuse, Skip, NothingToSync, StartRsync, ReadFile,
         RsyncSucceeds, RsyncSucceedsAndNotifies, RsyncVanished,
         RsyncFailsForGood, RsyncFails, ErrorLogWritten, NotifyEnds,
         NotifyFails, NotifyAgain, NotifyLogWritten, dataVars
    <3>5. g = f /\ stage[d][f] = "current"
      BY <1>1, <3>t, <3>4 DEF SendFile
    <3>6. QED
      BY <3>4, <3>5
  <2>2. c # d /\ stage[c][f] # "sent" /\ stage[d][f] # "sent"
    BY <1>1, <2>1
  <2>3. QED
    BY <1>1, <2>2, ChildrenOfTwoKeys
<1>2. Held /\ [Next]_vars => Held'
  BY NextTypeOK, NextSuspended, NextMarkIsExact
<1>3. Init => Held
  BY InitTypeOK DEF Init, Suspended, MarkIsExact, Owns, AllSent
<1>4. Held /\ [Next]_vars => [\A c \in Calls, f \in Files : Race(c, f) => Rival(c, f)]_vars
  BY <1>1
<1>5. QED
  BY <1>2, <1>3, <1>4, PTL DEF Spec

=============================================================================
