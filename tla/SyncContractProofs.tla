------------------------- MODULE SyncContractProofs -------------------------
(***************************************************************************)
(* SyncData implements SyncContract: every step of a call is a step of the *)
(* contract or leaves what the contract shows unchanged.                   *)
(***************************************************************************)
EXTENDS SyncDataProofs

\* The suspension points of a call that the contract calls working.
Working == {"rsync", "sleep", "notify", "notifySleep", "notifyLog"}

\* Only call c moves, from one suspension point to another.
Goes(c, from, to) ==
  /\ pc[c] = from
  /\ pc' = [pc EXCEPT ![c] = to]
  /\ UNCHANGED <<disable_sync, key>>

\* The marks are the contract's busy keys.
LEMMA BusyIsMarked ==
  ASSUME TypeOK, MarkIsExact, NEW k
  PROVE  Contract!Busy(k) <=> k \in inProgress
<1>1. \A c \in Calls : Contract!Holds(c) <=> Owns(c)
  BY DEF TypeOK, PC, Contract!Holds, Phase, Owns
<1>2. QED
  BY <1>1 DEF MarkIsExact, Contract!Busy

\* A call that goes on moves the contract's phase of that call only.
LEMMA PhaseMoves ==
  ASSUME TypeOK, NEW c \in Calls, NEW from, NEW to, Goes(c, from, to)
  PROVE  /\ [d \in Calls |-> Phase(d)]' =
              [[d \in Calls |-> Phase(d)] EXCEPT ![c] = Phase(c)']
         /\ pc[c] = from /\ pc'[c] = to
<1>1. pc'[c] = to /\ \A d \in Calls : d # c => pc'[d] = pc[d]
  BY DEF TypeOK, Goes
<1>2. \A d \in Calls : d # c => Phase(d)' = Phase(d)
  BY <1>1 DEF Phase
<1>3. QED
  BY <1>1, <1>2 DEF Goes

\* What the contract makes of the coroutine's outcomes.
ResultOf(how) == IF how \in {"nothing", "synced", "vanished"} THEN "done"
                                                              ELSE how

\* The outcome of a call shows in the contract as its result.
LEMMA ResultMoves ==
  ASSUME TypeOK, NEW c \in Calls, NEW how,
         outcome' = [outcome EXCEPT ![c] = how]
  PROVE  [d \in Calls |-> Result(d)]' =
           [[d \in Calls |-> Result(d)] EXCEPT ![c] = ResultOf(how)]
<1>1. outcome'[c] = how /\ \A d \in Calls : d # c => outcome'[d] = outcome[d]
  BY DEF TypeOK
<1>2. Result(c)' = ResultOf(how)
  BY <1>1 DEF Result, ResultOf
<1>3. \A d \in Calls : d # c => Result(d)' = Result(d)
  BY <1>1 DEF Result
<1>4. QED
  BY <1>2, <1>3

LEMMA ResultsStay ==
  ASSUME UNCHANGED outcome
  PROVE  [d \in Calls |-> Result(d)]' = [d \in Calls |-> Result(d)]
BY DEF Result

\* A step from one suspension point of the work to another is invisible.
LEMMA WorkIsHidden ==
  ASSUME TypeOK, NEW c \in Calls, NEW from \in Working, NEW to \in Working,
         Goes(c, from, to), UNCHANGED <<health, outcome>>
  PROVE  UNCHANGED Contract!contractVars
<1>0. pc[c] = from /\ pc'[c] = to
  BY DEF Goes, TypeOK
<1>1. Phase(c)' = Phase(c)
  BY <1>0 DEF Phase, Working
<1>2. [d \in Calls |-> Phase(d)]' = [d \in Calls |-> Phase(d)]
  BY <1>1, PhaseMoves
<1>3. QED
  BY <1>2, ResultsStay DEF Goes, Contract!contractVars, Contract!callStates

\* The outermost frame returns: the contract's call ends.
LEMMA ReturnIsEndCall ==
  ASSUME TypeOK, NEW c \in Calls, NEW from, NEW how, Goes(c, from, "idle"),
         outcome' = [outcome EXCEPT ![c] = how], UNCHANGED health
  PROVE  Contract!EndCall(c, ResultOf(how))
<1>1. Phase(c)' = "idle"
  BY PhaseMoves DEF Phase
<1>2. QED
  BY <1>1, PhaseMoves, ResultMoves DEF Goes, Contract!EndCall

\* The failure of the work is reported.
LEMMA ReportIsReport ==
  ASSUME TypeOK, NEW c \in Calls, Goes(c, "rsync", "log"),
         health' = "Critical", UNCHANGED outcome
  PROVE  Contract!ReportFailure(c)
<1>0. pc[c] = "rsync" /\ pc'[c] = "log"
  BY DEF Goes, TypeOK
<1>1. Phase(c) = "working" /\ Phase(c)' = "reporting"
  BY <1>0 DEF Phase
<1>2. QED
  BY <1>1, PhaseMoves, ResultsStay
     DEF Goes, Contract!ReportFailure, Contract!Move

-----------------------------------------------------------------------------
LEMMA CallStepContract ==
  ASSUME TypeOK, MarkIsExact, NEW c \in Calls, CallStep(c)
  PROVE  Contract!Progress(c) \/ UNCHANGED Contract!contractVars
<1>w. {"rsync", "sleep", "notify", "notifySleep", "notifyLog"} = Working
  BY DEF Working
<1>b. Contract!Busy(key[c]) <=> key[c] \in inProgress
  BY BusyIsMarked
<1>f. ASSUME NEW how, pc[c] \in Working, Goes(c, pc[c], "idle"),
             outcome' = [outcome EXCEPT ![c] = how], UNCHANGED health,
             how \in {"nothing", "synced", "vanished"}
             \/ (how = "refused" /\ disable_sync)
      PROVE  Contract!Progress(c)
  <2>1. Contract!EndCall(c, ResultOf(how))
    BY <1>f, ReturnIsEndCall
  <2>2. [d \in Calls |-> Phase(d)][c] = "working"
    BY <1>f DEF Phase, Working
  <2>3. QED
    BY <1>f, <2>1, <2>2 DEF ResultOf, Contract!Progress, Contract!EndWork
<1>1. ASSUME Refuse(c) PROVE Contract!Progress(c)
  <2>1. CASE pc[c] = "sleep" /\ ReturnFalse(c, "refused")
    <3>1. Finish(c, "refused")
      BY <2>1, FailureEndsCall
    <3>2. /\ Goes(c, pc[c], "idle")
          /\ outcome' = [outcome EXCEPT ![c] = "refused"]
          /\ UNCHANGED health
          /\ disable_sync
      BY <1>1, <2>1, <3>1 DEF Refuse, Finish, Goes
    <3>3. pc[c] \in Working
      BY <2>1 DEF Working
    <3>4. QED
      BY <1>f, <3>2, <3>3
  <2>2. CASE /\ pc[c] = "queued"
             /\ pc' = [pc EXCEPT ![c] = "idle"]
             /\ outcome' = [outcome EXCEPT ![c] = "refused"]
             /\ UNCHANGED health
    <3>1. Contract!EndCall(c, "refused")
      BY <1>1, <2>2, ReturnIsEndCall DEF ResultOf, Refuse, Goes
    <3>2. [d \in Calls |-> Phase(d)][c] = "queued"
      BY <2>2 DEF Phase
    <3>3. QED
      BY <1>1, <3>1, <3>2 DEF Refuse, Contract!Progress, Contract!TurnBack
  <2>3. QED
    BY <1>1, <2>1, <2>2 DEF Refuse
<1>2. ASSUME Skip(c) PROVE Contract!Progress(c)
  <2>1. Contract!EndCall(c, "skipped")
    BY <1>2, ReturnIsEndCall DEF ResultOf, Skip, Goes
  <2>2. [d \in Calls |-> Phase(d)][c] = "queued"
    BY <1>2 DEF Skip, Phase
  <2>3. QED
    BY <1>2, <1>b, <2>1, <2>2
       DEF Skip, Contract!Progress, Contract!TurnBack
<1>3. ASSUME NothingToSync(c) PROVE Contract!Progress(c)
  <2>1. CASE pc[c] = "sleep"
    <3>1. /\ Goes(c, pc[c], "idle")
          /\ outcome' = [outcome EXCEPT ![c] = "nothing"]
          /\ UNCHANGED health
      BY <1>3 DEF NothingToSync, Finish, Goes
    <3>2. pc[c] \in Working
      BY <2>1 DEF Working
    <3>3. QED
      BY <1>f, <3>1, <3>2
  <2>2. CASE pc[c] = "queued" /\ key[c] \notin inProgress
    <3>1. Contract!EndCall(c, "done")
      BY <1>3, <2>2, ReturnIsEndCall DEF ResultOf, NothingToSync, Finish, Goes
    <3>2. [d \in Calls |-> Phase(d)][c] = "queued"
      BY <2>2 DEF Phase
    <3>3. QED
      BY <1>3, <1>b, <2>2, <3>1, <3>2
         DEF NothingToSync, MayRun, Contract!Progress, Contract!TurnBack
  <2>3. QED
    BY <1>3, <2>1, <2>2 DEF NothingToSync, MayRun
<1>4. ASSUME StartRsync(c)
      PROVE  Contract!Progress(c) \/ UNCHANGED Contract!contractVars
  <2>1. CASE pc[c] = "sleep"
    BY <1>4, <1>w, <2>1, WorkIsHidden DEF StartRsync, Goes
  <2>2. CASE pc[c] = "queued" /\ key[c] \notin inProgress
    <3>1. Goes(c, "queued", "rsync") /\ ~disable_sync
      BY <1>4, <2>2 DEF StartRsync, MayRun, Goes
    <3>0. pc[c] = "queued" /\ pc'[c] = "rsync"
      BY <3>1 DEF Goes, TypeOK
    <3>2. [d \in Calls |-> Phase(d)][c] = "queued" /\ Phase(c)' = "working"
      BY <3>0 DEF Phase
    <3>3. Contract!Begin(c)
      BY <1>4, <1>b, <2>2, <3>1, <3>2, PhaseMoves, ResultsStay
         DEF StartRsync, Goes, Contract!Begin, Contract!Move
    <3>4. QED
      BY <3>3 DEF Contract!Progress
  <2>3. QED
    BY <1>4, <2>1, <2>2 DEF StartRsync, MayRun
<1>5. ASSUME NEW f \in Files, ReadFile(c, f) \/ SendFile(c, f)
      PROVE  UNCHANGED Contract!contractVars
  BY <1>5 DEF ReadFile, SendFile, callVars, Phase, Result, Contract!contractVars,
              Contract!callStates
<1>6. ASSUME RsyncSucceeds(c) \/ RsyncVanished(c) \/ NotifyEnds(c)
             \/ NotifyLogWritten(c)
      PROVE  Contract!Progress(c)
  BY <1>6, <1>f DEF RsyncSucceeds, RsyncVanished, NotifyEnds,
                    NotifyLogWritten, Finish, Goes, Working
<1>7. ASSUME RsyncSucceedsAndNotifies(c) \/ NotifyAgain(c)
      PROVE  UNCHANGED Contract!contractVars
  BY <1>7, <1>w, WorkIsHidden DEF RsyncSucceedsAndNotifies, NotifyAgain, Goes
<1>8. ASSUME RsyncFailsForGood(c) PROVE Contract!Progress(c)
  BY <1>8, ReportIsReport
     DEF RsyncFailsForGood, Report, Goes, Contract!Progress
<1>9. ASSUME RsyncFails(c)
      PROVE  Contract!Progress(c) \/ UNCHANGED Contract!contractVars
  <2>1. CASE frame[c] < MaxRetry
    BY <1>9, <1>w, <2>1, WorkIsHidden DEF RsyncFails, RetryOrGiveUp, Goes
  <2>2. CASE ~(frame[c] < MaxRetry)
    BY <1>9, <2>2, ReportIsReport
       DEF RsyncFails, RetryOrGiveUp, Report, Goes, Contract!Progress
  <2>3. QED
    BY <2>1, <2>2
<1>10. ASSUME ErrorLogWritten(c) PROVE Contract!Progress(c)
  <2>1. pc[c] = "log" /\ Finish(c, "failed") /\ UNCHANGED <<disable_sync, key>>
    BY <1>10, FailureEndsCall DEF ErrorLogWritten
  <2>2. Contract!EndCall(c, "failed")
    BY <2>1, ReturnIsEndCall DEF ResultOf, Finish, Goes
  <2>3. [d \in Calls |-> Phase(d)][c] = "reporting"
    BY <2>1 DEF Phase
  <2>4. QED
    BY <2>2, <2>3 DEF Contract!Progress, Contract!EndReport
<1>11. ASSUME NotifyFails(c) PROVE UNCHANGED Contract!contractVars
  <2>1. CASE attempts[c] > MaxRetry
    BY <1>11, <1>w, <2>1, WorkIsHidden DEF NotifyFails, Goes
  <2>2. CASE ~(attempts[c] > MaxRetry)
    BY <1>11, <1>w, <2>2, WorkIsHidden DEF NotifyFails, Goes
  <2>3. QED
    BY <2>1, <2>2
<1>12. QED
  BY <1>1, <1>2, <1>3, <1>4, <1>5, <1>6, <1>7, <1>8, <1>9, <1>10, <1>11
     DEF CallStep

LEMMA NextContract ==
  ASSUME TypeOK, MarkIsExact, [Next]_vars
  PROVE  [Contract!ContractNext]_Contract!contractVars
<1>1. ASSUME NEW c \in Calls, NEW k \in Keys, Request(c, k) \/ ServeEvent(c, k)
      PROVE  Contract!ContractNext
  <2>1. Spawn(c, k)
    BY <1>1 DEF Request, ServeEvent
  <2>2. Phase(c) = "idle" /\ Phase(c)' = "queued"
    BY <2>1 DEF Spawn, TypeOK, Phase
  <2>3. \A d \in Calls : d # c => Phase(d)' = Phase(d)
    BY <2>1 DEF Spawn, TypeOK, Phase
  <2>4. ResultOf("none") = "none"
    BY DEF ResultOf
  <2>5. Contract!Ask(c, k)
    BY <2>1, <2>2, <2>3, <2>4, ResultMoves DEF Spawn, Contract!Ask
  <2>6. QED
    BY <2>5 DEF Contract!ContractNext
<1>2. ASSUME NEW c \in Calls, CallStep(c)
      PROVE  [Contract!ContractNext]_Contract!contractVars
  BY <1>2, CallStepContract DEF Contract!ContractNext
<1>3. ASSUME NEW f \in Files, NEW W, Write(f, W)
      PROVE  UNCHANGED Contract!contractVars
  BY <1>3 DEF Write, callVars, Phase, Result, Contract!contractVars,
              Contract!callStates
<1>4. ASSUME NEW disable \in BOOLEAN, SetDisableSync(disable)
      PROVE  Contract!ContractNext
  BY <1>4 DEF SetDisableSync, callVars, Phase, Result, Contract!ContractNext,
              Contract!SwitchSync, Contract!callStates
<1>5. CASE UNCHANGED vars
  BY <1>5 DEF vars, callVars, Phase, Result, Contract!contractVars,
              Contract!callStates
<1>6. QED
  BY <1>1, <1>2, <1>3, <1>4, <1>5 DEF Next

LEMMA InitContract == Init => Contract!ContractInit
<1> SUFFICES ASSUME Init PROVE Contract!ContractInit
  OBVIOUS
<1>1. (CHOOSE k \in Keys : TRUE) \in Keys
  BY SyncDataAssumption
<1>2. key \in {[c \in Calls |-> k] : k \in Keys}
  BY <1>1, Zenon DEF Init
<1>3. [c \in Calls |-> Phase(c)] = [c \in Calls |-> "idle"]
  BY DEF Init, Phase
<1>4. [c \in Calls |-> Result(c)] = [c \in Calls |-> "none"]
      /\ disable_sync \in BOOLEAN
      /\ health \in {"Ok", "Paused", "Critical"}
  BY DEF Init, Result
<1>5. QED
  BY <1>2, <1>3, <1>4 DEF Contract!ContractInit, Contract!Healths

\* syncData implements its contract: one call at a time works on a path, a
\* call that finds the path busy leaves it alone, a failed call has made the
\* health critical, and DisableSync turns away every call that has not begun.
THEOREM ContractKept == Spec => KeepsContract
<1>1. Spec => [](TypeOK /\ MarkIsExact)
  BY TypeCorrect, MarkExactness, PTL
<1>2. QED
  BY <1>1, InitContract, NextContract, PTL
     DEF Spec, KeepsContract, Contract!ContractSpec
=============================================================================
