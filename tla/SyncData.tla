------------------------------ MODULE SyncData ------------------------------
(***************************************************************************)
(* Manager::syncData with the coroutines it awaits: retrySync,             *)
(* triggerSiblingNotification and syncNotifyRequest (src/manager.cpp).     *)
(*                                                                         *)
(* A call is one live syncData coroutine, from the spawn or co_await that  *)
(* creates it to the return of its outermost frame.  All coroutines run on *)
(* one thread and switch only at a co_await, so every action below is the  *)
(* code between two suspension points.  A retry is a nested syncData frame *)
(* inside the call; frame[c] is the retryCount of the innermost frame.     *)
(*                                                                         *)
(* Data is abstracted to what staleness needs: for each file, whether the  *)
(* sibling holds the current content, and for each running rsync child,    *)
(* whether what it has read is still the current content.                  *)
(***************************************************************************)
EXTENDS Naturals, FiniteSets

CONSTANTS
  Calls,        \* slots for simultaneously live syncData calls (bound)
  Keys,         \* <<configuration, path>> pairs: what _syncInProgressPaths holds
  Files,        \* units of content the rsync children copy
  Covers,       \* [Keys -> SUBSET Files]: what an rsync of the key copies
  WatchedKeys,  \* keys the inotify monitors name when a file changes
  NotifyKeys,   \* keys whose configuration asks for a sibling notification
  IncludeKeys,  \* keys synced through an include list, which may match nothing
  Sizes,        \* literal data rsync may send of a file, in bytes (bound)
  MaxRetry,     \* _retry->_maxRetryAttempts
  CounterMod    \* modulus of uint8_t retryAttempts (2^8 in the code)

ASSUME SyncDataAssumption ==
  /\ Keys # {}
  /\ Covers \in [Keys -> SUBSET Files]
  /\ WatchedKeys \subseteq Keys
  /\ NotifyKeys \subseteq Keys
  /\ IncludeKeys \subseteq Keys
  /\ Sizes \subseteq Nat \ {0}
  /\ CounterMod \in Nat \ {0, 1}
  /\ MaxRetry \in 0 .. CounterMod - 1   \* a uint8_t itself

VARIABLES
  disable_sync,    \* the DisableSync D-Bus property
  health,          \* the SyncEventsHealth D-Bus property
  inProgress,      \* _syncInProgressPaths of all configurations
  pc,              \* where each call is suspended
  key,             \* the key each call works on
  frame,           \* retryCount of the innermost syncData frame
  attempts,        \* retryAttempts of syncNotifyRequest
  stage,           \* how far the running rsync child is with each file
  bytes,           \* literal data the running rsync child has sent
  outcome,         \* how the last call in the slot ended
  errorLogs,       \* SyncFailure error logs the call has created
  event,           \* keys with an inotify event no monitor has read yet
  dstFresh,        \* the sibling holds the current content of the file
  missed,          \* history: files whose latest change nobody will pick up
  unannounced      \* history: keys with data sent but not announced

dataVars == <<stage, bytes, dstFresh, unannounced>>
callVars == <<pc, key, frame, attempts, outcome, errorLogs>>
vars == <<disable_sync, health, inProgress, event, missed, callVars, dataVars>>

PC == {"idle", "queued", "rsync", "sleep", "log",
       "notify", "notifySleep", "notifyLog"}
Outcomes == {"none", "refused", "skipped", "nothing", "synced", "vanished",
             "failed"}
Stages == {"todo", "current", "old", "sent"}
RetryCounts == 0 .. MaxRetry          \* retryCount of a frame
UInt8 == 0 .. CounterMod - 1
AllSent == [f \in Files |-> "sent"]

\* The call has inserted its key and not yet run the scope_exit erasing it.
Owns(c) == pc[c] \notin {"idle", "queued"}
OwnerOf(k) == {c \in Calls : Owns(c) /\ key[c] = k}

Stale(k) == {f \in Covers[k] : ~dstFresh[f]}

\* rsync prints its statistics with a comma after every third digit from the
\* right: the digits before the first one.
FirstGroup[n \in Nat] == IF n < 1000 THEN n ELSE FirstGroup[n \div 1000]

\* The regular expression reads up to the first comma, and takes a letter or a
\* digit to follow: one digit before a comma does not match, which is 0.
getTransferredDataBytes(n) ==
  IF n >= 1000 /\ FirstGroup[n] < 10 THEN 0 ELSE FirstGroup[n]

-----------------------------------------------------------------------------
(* Pieces of the coroutine body shared by several actions.                 *)

\* MUTANT of Finish: the key is not erased when the call returns.
Finish_MarkLeaked(c, how) ==
  /\ pc' = [pc EXCEPT ![c] = "idle"]
  /\ outcome' = [outcome EXCEPT ![c] = how]
  /\ frame' = [frame EXCEPT ![c] = 0]
  /\ UNCHANGED <<inProgress, health, errorLogs>>

\* The outermost frame returns: scope_exit erases the key.
Finish(c, how) ==
  /\ pc' = [pc EXCEPT ![c] = "idle"]
  /\ outcome' = [outcome EXCEPT ![c] = how]
  /\ inProgress' = inProgress \ {key[c]}
  /\ frame' = [frame EXCEPT ![c] = 0]
  /\ UNCHANGED <<health, errorLogs>>

\* A frame with this retryCount marks health critical and awaits the error log.
Report(c, retryCount) ==
  /\ health' = "Critical"
  /\ pc' = [pc EXCEPT ![c] = "log"]
  /\ frame' = [frame EXCEPT ![c] = retryCount]
  /\ errorLogs' = [errorLogs EXCEPT ![c] = @ + 1]
  /\ UNCHANGED <<inProgress, outcome>>

\* MUTANT of ReturnFalse: outer frames do not test the retry count.
ReturnFalse_EveryFrameReports(c, how) ==
  IF frame[c] > 0
  THEN Report(c, frame[c] - 1) /\ UNCHANGED missed
  ELSE Finish(c, how) /\ missed' = missed \cup Stale(key[c])

\* A frame returns false.  Each outer frame resumes after retrySync and tests
\* retryCount >= _maxRetryAttempts before it returns false in turn.
ReturnFalse(c, how) ==
  IF frame[c] > 0 /\ frame[c] - 1 >= MaxRetry
  THEN Report(c, frame[c] - 1) /\ UNCHANGED missed
  ELSE Finish(c, how) /\ missed' = missed \cup Stale(key[c])

\* MUTANT of RetryOrGiveUp: the limit is off by one.
RetryOrGiveUp_OneMore(c) ==
  IF frame[c] <= MaxRetry
  THEN /\ pc' = [pc EXCEPT ![c] = "sleep"]
       /\ frame' = [frame EXCEPT ![c] = @ + 1]
       /\ UNCHANGED <<health, errorLogs, inProgress, outcome>>
  ELSE Report(c, frame[c])

\* MUTANT of RetryOrGiveUp: the retry is started with the old retryCount.
RetryOrGiveUp_CountLost(c) ==
  IF frame[c] < MaxRetry
  THEN /\ pc' = [pc EXCEPT ![c] = "sleep"]
       /\ UNCHANGED <<frame, health, errorLogs, inProgress, outcome>>
  ELSE Report(c, frame[c])

\* retrySync: sleep and start the next frame, or give up at once.
RetryOrGiveUp(c) ==
  IF frame[c] < MaxRetry
  THEN /\ pc' = [pc EXCEPT ![c] = "sleep"]
       /\ frame' = [frame EXCEPT ![c] = @ + 1]
       /\ UNCHANGED <<health, errorLogs, inProgress, outcome>>
  ELSE Report(c, frame[c])

\* The rsync child is gone.
ChildExits(c) ==
  /\ stage' = [stage EXCEPT ![c] = AllSent]
  /\ bytes' = [bytes EXCEPT ![c] = 0]

-----------------------------------------------------------------------------
Init ==
  /\ disable_sync \in BOOLEAN           \* as restored at start-up
  /\ health \in {"Ok", "Paused", "Critical"}
  /\ inProgress = {}
  /\ pc = [c \in Calls |-> "idle"]
  /\ key = [c \in Calls |-> CHOOSE k \in Keys : TRUE]
  /\ frame = [c \in Calls |-> 0]
  /\ attempts = [c \in Calls |-> 0]
  /\ stage = [c \in Calls |-> AllSent]
  /\ bytes = [c \in Calls |-> 0]
  /\ outcome = [c \in Calls |-> "none"]
  /\ errorLogs = [c \in Calls |-> 0]
  /\ event = {}
  /\ dstFresh = [f \in Files |-> TRUE]
  /\ missed = {}
  /\ unannounced = {}

\* A caller creates the coroutine; the run loop has not started it yet.
Spawn(c, k) ==
  /\ pc[c] = "idle"
  /\ pc' = [pc EXCEPT ![c] = "queued"]
  /\ key' = [key EXCEPT ![c] = k]
  /\ outcome' = [outcome EXCEPT ![c] = "none"]
  /\ errorLogs' = [errorLogs EXCEPT ![c] = 0]
  /\ UNCHANGED <<disable_sync, health, inProgress, frame, attempts, missed,
                 dataVars>>

\* A full sync, a timer or a deferred sync asks for the key.
Request(c, k) == Spawn(c, k) /\ UNCHANGED event

\* A monitor reads the event and spawns the sync of the path it names.
ServeEvent(c, k) ==
  /\ k \in event
  /\ event' = event \ {k}
  /\ Spawn(c, k)

(* The beginning of a frame: the first one, or a retry after its sleep.     *)

\* disable_sync() holds: the frame returns false before anything else.
Refuse(c) ==
  /\ pc[c] \in {"queued", "sleep"}
  /\ disable_sync
  /\ \/ /\ pc[c] = "sleep"
        /\ ReturnFalse(c, "refused")
     \/ /\ pc[c] = "queued"             \* no scope_exit exists yet
        /\ pc' = [pc EXCEPT ![c] = "idle"]
        /\ outcome' = [outcome EXCEPT ![c] = "refused"]
        /\ missed' = missed \cup Stale(key[c])
        /\ UNCHANGED <<health, inProgress, frame, errorLogs>>
  /\ unannounced' = unannounced \ {key[c]}
  /\ UNCHANGED <<disable_sync, key, attempts, event, stage, bytes, dstFresh>>

\* Another call holds the key: report success without touching the mark.
Skip(c) ==
  /\ pc[c] = "queued"
  /\ ~disable_sync
  /\ key[c] \in inProgress
  /\ pc' = [pc EXCEPT ![c] = "idle"]
  /\ outcome' = [outcome EXCEPT ![c] = "skipped"]
  /\ missed' = IF OwnerOf(key[c]) = {} THEN missed
               ELSE missed \cup Stale(key[c])
  /\ UNCHANGED <<disable_sync, health, inProgress, key, frame, attempts,
                 errorLogs, event, dataVars>>

\* MUTANT of MayRun: the first frame does not look for the mark.
MayRun_MarkIgnored(c) == ~disable_sync /\ pc[c] \in {"queued", "sleep"}

MayRun(c) ==
  /\ ~disable_sync
  /\ \/ pc[c] = "queued" /\ key[c] \notin inProgress
     \/ pc[c] = "sleep"

\* getRsyncCmd leaves the command empty: nothing of the include list exists.
NothingToSync(c) ==
  /\ MayRun(c)
  /\ key[c] \in IncludeKeys
  /\ Finish(c, "nothing")
  /\ missed' = missed \cup Stale(key[c])
  /\ UNCHANGED <<disable_sync, key, attempts, event, dataVars>>

\* Mark the key (first frame only) and start the rsync child.
StartRsync(c) ==
  /\ MayRun(c)
  /\ inProgress' = inProgress \cup {key[c]}
  /\ pc' = [pc EXCEPT ![c] = "rsync"]
  /\ stage' = [stage EXCEPT ![c] =
                 [f \in Files |-> IF f \in Covers[key[c]] THEN "todo"
                                                          ELSE "sent"]]
  /\ bytes' = [bytes EXCEPT ![c] = 0]
  /\ UNCHANGED <<disable_sync, health, key, frame, attempts, outcome,
                 errorLogs, event, dstFresh, missed, unannounced>>

-----------------------------------------------------------------------------
(* The rsync child (external) and what syncData does with its exit code.    *)

ReadFile(c, f) ==
  /\ pc[c] = "rsync"
  /\ stage[c][f] = "todo"
  /\ stage' = [stage EXCEPT ![c][f] = "current"]
  /\ missed' = missed \ {f}
  /\ UNCHANGED <<disable_sync, health, inProgress, callVars, event, bytes,
                 dstFresh, unannounced>>

\* Literal data is counted only when the copies differ, and not always then
\* (deletions and attribute changes transfer none).
SendFile(c, f) ==
  /\ pc[c] = "rsync"
  /\ stage[c][f] \in {"current", "old"}
  /\ stage' = [stage EXCEPT ![c][f] = "sent"]
  /\ dstFresh' = [dstFresh EXCEPT ![f] = (stage[c][f] = "current")]
  /\ \/ UNCHANGED <<bytes, unannounced>>
     \/ /\ ~(stage[c][f] = "current" /\ dstFresh[f])
        /\ \E size \in Sizes : bytes' = [bytes EXCEPT ![c] = @ + size]
        /\ unannounced' = unannounced \cup ({key[c]} \cap NotifyKeys)
  /\ UNCHANGED <<disable_sync, health, inProgress, callVars, event, missed>>

\* The configuration asks for a notification, and the statistics show data.
Announces(c) ==
  key[c] \in NotifyKeys /\ getTransferredDataBytes(bytes[c]) # 0

\* Exit code 0 and nothing to announce: the call returns true.
RsyncSucceeds(c) ==
  /\ pc[c] = "rsync"
  /\ stage[c] = AllSent
  /\ ~Announces(c)
  /\ ChildExits(c)
  /\ Finish(c, "synced")
  /\ UNCHANGED <<disable_sync, key, attempts, event, missed, dstFresh,
                 unannounced>>

\* Exit code 0 with data sent for a key to announce: write the request file
\* and start its rsync, or fail to write it and await the error log.
RsyncSucceedsAndNotifies(c) ==
  /\ pc[c] = "rsync"
  /\ stage[c] = AllSent
  /\ Announces(c)
  /\ \/ /\ pc' = [pc EXCEPT ![c] = "notify"]
        /\ attempts' = [attempts EXCEPT ![c] = 1]
        /\ UNCHANGED unannounced
     \/ /\ pc' = [pc EXCEPT ![c] = "notifyLog"]
        /\ unannounced' = unannounced \ {key[c]}
        /\ UNCHANGED attempts
  /\ ChildExits(c)
  /\ UNCHANGED <<disable_sync, health, inProgress, key, frame, outcome,
                 errorLogs, event, missed, dstFresh>>

\* Exit code 24: a file vanished after rsync listed it; counted as success.
RsyncVanished(c) ==
  /\ pc[c] = "rsync"
  /\ \A f \in Files : stage[c][f] \in {"sent", "old"}
  /\ \E f \in Files : stage[c][f] = "old"
  /\ ChildExits(c)
  /\ Finish(c, "vanished")
  /\ unannounced' = unannounced \ {key[c]}
  /\ UNCHANGED <<disable_sync, key, attempts, event, missed, dstFresh>>

\* An exit code isRetryEligible rejects.
RsyncFailsForGood(c) ==
  /\ pc[c] = "rsync"
  /\ ChildExits(c)
  /\ Report(c, frame[c])
  /\ unannounced' = unannounced \ {key[c]}
  /\ UNCHANGED <<disable_sync, key, attempts, event, missed, dstFresh>>

\* Any other exit code: retry after the interval, or give up.
RsyncFails(c) ==
  /\ pc[c] = "rsync"
  /\ ChildExits(c)
  /\ RetryOrGiveUp(c)
  /\ unannounced' = IF frame[c] < MaxRetry THEN unannounced
                                           ELSE unannounced \ {key[c]}
  /\ UNCHANGED <<disable_sync, key, attempts, event, missed, dstFresh>>

\* createErrorLog returns (its own failure is only logged).
ErrorLogWritten(c) ==
  /\ pc[c] = "log"
  /\ ReturnFalse(c, "failed")
  /\ UNCHANGED <<disable_sync, key, attempts, event, dataVars>>

-----------------------------------------------------------------------------
(* syncNotifyRequest: the loop sending the request file to the sibling.     *)

\* Exit code 0, or one the loop treats as permanent: the sync stays a success.
NotifyEnds(c) ==
  /\ pc[c] = "notify"
  /\ Finish(c, "synced")
  /\ unannounced' = unannounced \ {key[c]}
  /\ UNCHANGED <<disable_sync, key, attempts, event, missed, stage, bytes,
                 dstFresh>>

NotifyFails(c) ==
  /\ pc[c] = "notify"
  /\ pc' = [pc EXCEPT ![c] = IF attempts[c] > MaxRetry THEN "notifyLog"
                                                       ELSE "notifySleep"]
  /\ unannounced' = IF attempts[c] > MaxRetry THEN unannounced \ {key[c]}
                                              ELSE unannounced
  /\ UNCHANGED <<disable_sync, health, inProgress, key, frame, attempts,
                 outcome, errorLogs, event, missed, stage, bytes, dstFresh>>

\* The loop condition retryAttempts++ <= max after the sleep.  NotifyFails has
\* already left the loop for every value that fails it.
NotifyAgain(c) ==
  /\ pc[c] = "notifySleep"
  /\ attempts[c] <= MaxRetry
  /\ pc' = [pc EXCEPT ![c] = "notify"]
  /\ attempts' = [attempts EXCEPT ![c] = (@ + 1) % CounterMod]
  /\ UNCHANGED <<disable_sync, health, inProgress, key, frame, outcome,
                 errorLogs, event, missed, dataVars>>

NotifyLogWritten(c) ==
  /\ pc[c] = "notifyLog"
  /\ Finish(c, "synced")
  /\ UNCHANGED <<disable_sync, key, attempts, event, missed, dataVars>>

-----------------------------------------------------------------------------
(* The environment: writers of the files, and the D-Bus property.           *)

\* A local program changes the file; the monitors of the keys in watching
\* will be told.  With no monitor the change waits for an unrelated sync.
Write(f, watching) ==
  /\ dstFresh' = [dstFresh EXCEPT ![f] = FALSE]
  /\ stage' = [c \in Calls |->
                 [stage[c] EXCEPT ![f] = IF @ = "current" THEN "old" ELSE @]]
  /\ event' = event \cup watching
  /\ missed' = IF watching = {} THEN missed \cup {f} ELSE missed \ {f}
  /\ UNCHANGED <<disable_sync, health, inProgress, callVars, bytes,
                 unannounced>>

\* set_property(disable_sync_t): the part that concerns running calls.
\* Stopping the watchers discards what they have not read.
SetDisableSync(disable) ==
  /\ disable_sync # disable
  /\ disable_sync' = disable
  /\ health' = IF health = "Critical" THEN health
               ELSE IF disable THEN "Paused" ELSE "Ok"
  /\ event' = {}
  /\ missed' = missed \cup UNION {Stale(k) : k \in event}
  /\ UNCHANGED <<inProgress, callVars, dataVars>>

WatchersOf(f) == IF disable_sync THEN {}
                 ELSE {k \in WatchedKeys : f \in Covers[k]}

\* The steps of one call once it has been spawned.
CallStep(c) ==
  \/ Refuse(c)
  \/ Skip(c)
  \/ NothingToSync(c)
  \/ StartRsync(c)
  \/ \E f \in Files : ReadFile(c, f) \/ SendFile(c, f)
  \/ RsyncSucceeds(c)
  \/ RsyncSucceedsAndNotifies(c)
  \/ RsyncVanished(c)
  \/ RsyncFailsForGood(c)
  \/ RsyncFails(c)
  \/ ErrorLogWritten(c)
  \/ NotifyEnds(c)
  \/ NotifyFails(c)
  \/ NotifyAgain(c)
  \/ NotifyLogWritten(c)

Next ==
  \/ \E c \in Calls, k \in Keys : Request(c, k) \/ ServeEvent(c, k)
  \/ \E c \in Calls : CallStep(c)
  \/ \E f \in Files : Write(f, WatchersOf(f))
  \/ \E disable \in BOOLEAN : SetDisableSync(disable)

Spec == Init /\ [][Next]_vars

(***************************************************************************)
(* The run loop keeps resuming coroutines, children exit and timers fire,  *)
(* so a spawned call goes on.  A monitor never waits for a free slot in    *)
(* the code, which spawns without limit: hence strong fairness on it.      *)
(***************************************************************************)
Fairness ==
  /\ \A c \in Calls : WF_vars(CallStep(c))
  /\ \A k \in Keys : SF_vars(\E c \in Calls : ServeEvent(c, k))

FairSpec == Spec /\ Fairness

-----------------------------------------------------------------------------
(* Properties.                                                              *)

\* Every variable has the values its declaration in the code allows; the
\* retry counters stay within the configured number of attempts.
TypeOK ==
  /\ disable_sync \in BOOLEAN
  /\ health \in {"Ok", "Paused", "Critical"}
  /\ inProgress \subseteq Keys
  /\ pc \in [Calls -> PC]
  /\ key \in [Calls -> Keys]
  /\ frame \in [Calls -> RetryCounts]
  /\ attempts \in [Calls -> UInt8]
  /\ stage \in [Calls -> [Files -> Stages]]
  /\ bytes \in [Calls -> Nat]
  /\ outcome \in [Calls -> Outcomes]
  /\ errorLogs \in [Calls -> Nat]
  /\ event \subseteq Keys
  /\ dstFresh \in [Files -> BOOLEAN]
  /\ missed \subseteq Files
  /\ unannounced \subseteq Keys

\* _syncInProgressPaths is exact: a key is in it exactly while one call works
\* on it, and never two.  A mark erased early lets two rsyncs of one path run
\* at once, a leaked one turns every later sync of the path into a no-op that
\* reports success.
MarkIsExact ==
  /\ inProgress = {key[c] : c \in {d \in Calls : Owns(d)}}
  /\ \A c, d \in Calls : Owns(c) /\ Owns(d) /\ key[c] = key[d] => c = d

\* While an rsync child holds an obsolete copy of the file, no other child has
\* delivered the newer one.
NotOverwritten(f) == \A c \in Calls : stage[c][f] = "old" => ~dstFresh[f]

\* A file at the sibling is never overwritten by an older copy of it.  The mark
\* guards this per key only: it holds of the files a single key copies, and
\* fails of a file in an Immediate directory, which the monitor syncs under its
\* own path and the full sync under the directory's.
NoStaleOverwrite == \A f \in Files : NotOverwritten(f)

\* Some call has yet to read the file, or is about to deliver its content.
WillSync(c, f) ==
  /\ f \in Covers[key[c]]
  /\ \/ pc[c] \in {"queued", "sleep", "log"}
     \/ pc[c] = "rsync" /\ stage[c][f] \in {"todo", "current"}

\* The file is current at the sibling, or somebody is at it, or it is missed.
Accounted(f) ==
  ~dstFresh[f] => \/ f \in missed
                  \/ \E k \in event : f \in Covers[k]
                  \/ \E c \in Calls : WillSync(c, f)

\* A file is out of date at the sibling only while an event or a call will
\* still take care of it, or for one of the reasons recorded in missed: no
\* monitor saw the change, sync is disabled, the sync failed, the include list
\* matched nothing, or the call was skipped because a running one holds the key.
NoSilentStale == \A f \in Files : Accounted(f)

\* A call creates one SyncFailure error log if it fails for good, however many
\* retry frames unwind, and none if it ends in any other way.
ReportedExactlyOnce ==
  \A c \in Calls :
    errorLogs[c] = IF pc[c] = "log" \/ (pc[c] = "idle" /\ outcome[c] = "failed")
                   THEN 1 ELSE 0

\* What a caller sees of a call.
Phase(c) == CASE pc[c] = "idle" -> "idle"
              [] pc[c] = "queued" -> "queued"
              [] pc[c] = "log" -> "reporting"
              [] OTHER -> "working"

Result(c) == IF outcome[c] \in {"nothing", "synced", "vanished"}
             THEN "done" ELSE outcome[c]

Contract == INSTANCE SyncContract WITH
  phase <- [c \in Calls |-> Phase(c)],
  outcome <- [c \in Calls |-> Result(c)]

\* syncData keeps its contract: one call at a time works on a path, a call that
\* finds the path busy leaves it alone, a failed call has made the health
\* critical, and DisableSync turns away every call that has not begun.
KeepsContract == Contract!ContractSpec

\* With fair scheduling every call also ends, retries and all, and so gives its
\* mark back: a path is never locked out for good.
KeepsFairContract == Contract!FairContractSpec

\* Once the local programs stop writing, no change stays pending: again and
\* again every file is current at the sibling or given up for one of the
\* reasons that make it missed.
Settles ==
  \/ []<><<\E f \in Files : Write(f, WatchersOf(f))>>_vars
  \/ \A f \in Files : []<>(dstFresh[f] \/ f \in missed)

\* schema.json:162: the owner of the data on the synced side is "to be
\* notified once the data got changed": data sent to the sibling does not stay
\* unannounced once no call works on the key.
ChangeAnnounced ==
  \A k \in unannounced : \E c \in Calls : key[c] = k /\ pc[c] # "idle"
=============================================================================
