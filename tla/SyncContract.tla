---------------------------- MODULE SyncContract ----------------------------
(***************************************************************************)
(* What Manager::syncData (src/manager.cpp) promises its callers: the full *)
(* sync, the monitors, the timers and the deferred syncs.  Each call ends, *)
(* with an outcome, and at most one call at a time works on a key.  The    *)
(* rsync children, the retries and the notification are out of sight;      *)
(* SyncData has them and implements this specification.                    *)
(***************************************************************************)
EXTENDS Naturals, FiniteSets

CONSTANTS
  Calls,   \* slots for simultaneously live syncData calls (bound)
  Keys     \* <<configuration, path>> pairs

VARIABLES
  disable_sync,   \* the DisableSync D-Bus property
  health,         \* the SyncEventsHealth D-Bus property
  phase,          \* how far each call is
  key,            \* the key each call works on
  outcome         \* how the last call in the slot ended

callStates == <<phase, key, outcome>>
contractVars == <<disable_sync, health, callStates>>

Phases == {"idle", "queued", "working", "reporting"}
Healths == {"Ok", "Paused", "Critical"}

\* The outcomes for which the coroutine returns true, and for which false.
Successes == {"skipped", "done"}
Failures == {"refused", "failed"}

Holds(c) == phase[c] \in {"working", "reporting"}
Busy(k) == \E c \in Calls : Holds(c) /\ key[c] = k

ContractInit ==
  /\ disable_sync \in BOOLEAN          \* as restored at start-up
  /\ health \in Healths
  /\ phase = [c \in Calls |-> "idle"]
  /\ key \in {[c \in Calls |-> k] : k \in Keys}
  /\ outcome = [c \in Calls |-> "none"]

\* The call returns to whoever awaits it.
EndCall(c, how) ==
  /\ phase' = [phase EXCEPT ![c] = "idle"]
  /\ outcome' = [outcome EXCEPT ![c] = how]
  /\ UNCHANGED <<disable_sync, health, key>>

Move(c, from, to) ==
  /\ phase[c] = from
  /\ phase' = [phase EXCEPT ![c] = to]
  /\ UNCHANGED <<disable_sync, key, outcome>>

Ask(c, k) ==
  /\ phase[c] = "idle"
  /\ phase' = [phase EXCEPT ![c] = "queued"]
  /\ key' = [key EXCEPT ![c] = k]
  /\ outcome' = [outcome EXCEPT ![c] = "none"]
  /\ UNCHANGED <<disable_sync, health>>

\* The first thing a call does: turn back, or take the key.
TurnBack(c) ==
  /\ phase[c] = "queued"
  /\ \/ disable_sync /\ EndCall(c, "refused")
     \/ ~disable_sync /\ Busy(key[c]) /\ EndCall(c, "skipped")
     \/ ~disable_sync /\ ~Busy(key[c]) /\ EndCall(c, "done")

Begin(c) ==
  /\ ~disable_sync
  /\ ~Busy(key[c])
  /\ Move(c, "queued", "working")
  /\ UNCHANGED health

\* Only a retry looks at DisableSync again: otherwise the work goes on.
EndWork(c) ==
  /\ phase[c] = "working"
  /\ \/ EndCall(c, "done")
     \/ disable_sync /\ EndCall(c, "refused")

ReportFailure(c) ==
  /\ Move(c, "working", "reporting")
  /\ health' = "Critical"

EndReport(c) == phase[c] = "reporting" /\ EndCall(c, "failed")

Progress(c) ==
  TurnBack(c) \/ Begin(c) \/ EndWork(c) \/ ReportFailure(c) \/ EndReport(c)

\* set_property(disable_sync_t) up to the events it starts or stops.
SwitchSync(disable) ==
  /\ disable_sync # disable
  /\ disable_sync' = disable
  /\ health' = IF health = "Critical" THEN health
               ELSE IF disable THEN "Paused" ELSE "Ok"
  /\ UNCHANGED callStates

ContractNext ==
  \/ \E c \in Calls : Progress(c) \/ \E k \in Keys : Ask(c, k)
  \/ \E disable \in BOOLEAN : SwitchSync(disable)

CallsEnd == \A c \in Calls : WF_contractVars(Progress(c))

ContractSpec == ContractInit /\ [][ContractNext]_contractVars
FairContractSpec == ContractSpec /\ CallsEnd
=============================================================================
