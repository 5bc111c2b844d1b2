--------------------------------- MODULE Loop --------------------------------
(***************************************************************************)
(* What else runs on the thread that Command blocks: the role and the      *)
(* redundancy fetched and followed by ExternalDataIFaces, and the dump of  *)
(* the watched paths that datasynctool asks for with SIGUSR1.              *)
(***************************************************************************)
EXTENDS Command, Sequences

CONSTANTS
  Tools,       \* runs of datasynctool
  MaxChanges,  \* changes of the role, and of the watches (bound)
  Absent,      \* no dump
  Empty,       \* a dump of which a part is written, which no parser takes
  Casts        \* who takes part: sets of calls, tools, "role" (bound)

ASSUME LoopAssumption ==
  MaxChanges \in Nat /\ Absent \notin Nat /\ Empty \notin Nat

VARIABLES
  cast,      \* who takes part in this behaviour
  mgr,       \* the role, at the redundancy manager: its n-th value
  fetch,     \* "asked", "answered" or "done"
  answer,    \* the role in the answer
  match,     \* watchRedundancyMgrProps: "none", "spawned" or "on"
  signals,   \* PropertiesChanged signals not handled yet
  cached,    \* _bmcRole
  missed,    \* history: the role changed between the answer and the match,
             \* and not since
  watched,   \* the watches: their n-th state
  sigusr1,   \* the signal is pending: further ones are merged with it
  dump,      \* dumpWatchingPathsToFile: "idle", "collected" or "open"
  file,      \* the dump: Absent, Empty or the state of the watches
  kept,      \* history: the last signal found it and could not remove it
  tool,      \* "idle", "sent" or "done"
  asked,     \* history: the state of the watches when the tool asked
  got        \* what the tool read, [file, excused]; excused: before its signal
             \* was taken, or the old file was kept

roleVars == <<mgr, fetch, answer, match, signals, cached, missed>>
dumpVars == <<watched, sigusr1, dump, file, kept, tool, asked, got>>
loopVars == <<cast, commandVars, roleVars, dumpVars>>

-----------------------------------------------------------------------------
(* External data.                                                           *)

\* The redundancy manager answers the request of init.
Answer ==
  /\ fetch = "asked"
  /\ fetch' = "answered" /\ answer' = mgr
  /\ UNCHANGED <<mgr, match, signals, cached, missed>>

\* MUTANT of Fetched: the answer of the manager is awaited after the match.
Fetched_MatchFirst ==
  /\ Free
  /\ \/ match = "none" /\ match' = "spawned" /\ UNCHANGED <<fetch, cached>>
     \/ /\ match = "on" /\ fetch = "answered"
        /\ fetch' = "done" /\ cached' = answer /\ UNCHANGED match
  /\ UNCHANGED <<mgr, answer, signals, missed>>

\* fetchBMCRedundancyMgrProps takes the answer; init resumes and spawns
\* watchRedundancyMgrProps.
Fetched ==
  /\ Free /\ fetch = "answered"
  /\ fetch' = "done" /\ cached' = answer /\ match' = "spawned"
  /\ UNCHANGED <<mgr, answer, signals, missed>>

Subscribe ==
  /\ Free /\ match = "spawned"
  /\ match' = "on"
  /\ UNCHANGED <<mgr, fetch, answer, signals, cached, missed>>

watchRedundancyMgrProps ==
  /\ Free /\ match = "on" /\ signals # <<>>
  /\ cached' = Head(signals) /\ signals' = Tail(signals)
  /\ UNCHANGED <<mgr, fetch, answer, match, missed>>

RoleChanges ==
  /\ mgr < MaxChanges
  /\ mgr' = mgr + 1
  /\ signals' = IF match = "on" THEN Append(signals, mgr') ELSE signals
  /\ missed' = (match # "on" /\ fetch # "asked")
  /\ UNCHANGED <<fetch, answer, match, cached>>

RoleStep ==
  /\ "role" \in cast
  /\ Answer \/ Fetched \/ Subscribe \/ watchRedundancyMgrProps \/ RoleChanges
  /\ UNCHANGED <<cast, commandVars, dumpVars>>

-----------------------------------------------------------------------------
(* The dump.                                                                *)

\* triggerAndReadWatchingPaths: the tool sends the signal, sleeps and reads.
SendSignal(t) ==
  /\ tool[t] = "idle"
  /\ tool' = [tool EXCEPT ![t] = "sent"]
  /\ asked' = [asked EXCEPT ![t] = watched]
  /\ sigusr1' = TRUE
  /\ UNCHANGED <<watched, dump, file, kept, got, busy>>

ReadFile(t) ==
  /\ tool[t] = "sent"
  /\ tool' = [tool EXCEPT ![t] = "done"]
  /\ got' = [got EXCEPT ![t] = [file |-> file, excused |-> sigusr1 \/ kept]]
  /\ UNCHANGED <<watched, sigusr1, dump, file, kept, asked, busy>>

\* MUTANT of dumpWatchingPathsToFile: the old file stays until it is replaced.
dumpWatchingPathsToFile_NotRemoved ==
  /\ Free /\ sigusr1
  /\ sigusr1' = FALSE /\ busy' = TRUE /\ dump' = "collected" /\ kept' = FALSE
  /\ UNCHANGED <<watched, file, tool, asked, got>>

\* The coroutine of registerSignalHandler reads the signal.  The old file is
\* removed and the watches are collected; the thread awaits nothing until the
\* file is written.  An exception on removing it ends the dump.
dumpWatchingPathsToFile ==
  /\ Free /\ sigusr1
  /\ sigusr1' = FALSE
  /\ \/ file' = Absent /\ kept' = FALSE /\ dump' = "collected" /\ busy' = TRUE
     \/ Failing /\ kept' = TRUE /\ UNCHANGED <<file, dump, busy>>
  /\ UNCHANGED <<watched, tool, asked, got>>

OpenDump ==
  /\ dump = "collected"
  /\ \/ file' = Empty /\ dump' = "open" /\ UNCHANGED busy
     \/ Failing /\ dump' = "idle" /\ busy' = FALSE /\ UNCHANGED file
  /\ UNCHANGED <<watched, sigusr1, kept, tool, asked, got>>

\* The watches have not changed since they were collected: the thread was busy.
WriteDump ==
  /\ dump = "open"
  /\ file' = watched /\ dump' = "idle" /\ busy' = FALSE
  /\ UNCHANGED <<watched, sigusr1, kept, tool, asked, got>>

\* A monitor handles an event.
WatchesChange ==
  /\ Free /\ watched < MaxChanges
  /\ watched' = watched + 1
  /\ UNCHANGED <<sigusr1, dump, file, kept, tool, asked, got, busy>>

DumpStep ==
  /\ cast \cap Tools # {}
  /\ \/ \E t \in Tools \cap cast : SendSignal(t) \/ ReadFile(t)
     \/ dumpWatchingPathsToFile \/ OpenDump \/ WriteDump \/ WatchesChange
  /\ UNCHANGED <<cast, pc, childVars, reader, result, roleVars>>

CallStep(c) ==
  /\ execCmd(c) \/ ChildStep(c)
  /\ UNCHANGED <<cast, roleVars, dumpVars>>

-----------------------------------------------------------------------------
Init ==
  /\ cast \in Casts
  /\ CommandInit
  /\ mgr = 0 /\ fetch = "asked" /\ answer = 0 /\ match = "none"
  /\ signals = <<>> /\ cached = 0 /\ missed = FALSE
  /\ watched = 0 /\ sigusr1 = FALSE /\ dump = "idle" /\ file = Absent
  /\ kept = FALSE
  /\ tool = [t \in Tools |-> "idle"] /\ asked = [t \in Tools |-> 0]
  /\ got = [t \in Tools |-> [file |-> Absent, excused |-> FALSE]]

Next == RoleStep \/ DumpStep \/ \E c \in Calls \cap cast : CallStep(c)

Spec == Init /\ [][Next]_loopVars

\* The run loop resumes every coroutine whose descriptor is ready, children
\* run, and so do the manager and the steps of a dump.  Nothing obliges a
\* command to be started, a tool to run, the role or the watches to change.
FairSpec ==
  /\ Spec
  /\ \A c \in Calls :
       /\ WF_loopVars(CallStep(c) /\ pc[c] # "idle" /\ pc' # pc)
       /\ WF_loopVars(CallStep(c) /\ pipe' # pipe)
       /\ WF_loopVars(CallStep(c) /\ child' # child /\ pc[c] # "idle")
  /\ WF_loopVars(RoleStep /\ mgr' = mgr)
  /\ WF_loopVars(DumpStep /\ dump' # dump)

-----------------------------------------------------------------------------
(* Properties.                                                              *)

RoleType ==
  /\ mgr \in 0..MaxChanges /\ answer \in 0..MaxChanges /\ cached \in 0..MaxChanges
  /\ fetch \in {"asked", "answered", "done"} /\ match \in {"none", "spawned", "on"}
  /\ signals \in Seq(0..MaxChanges) /\ missed \in BOOLEAN

DumpType ==
  /\ watched \in 0..MaxChanges /\ sigusr1 \in BOOLEAN /\ kept \in BOOLEAN
  /\ dump \in {"idle", "collected", "open"}
  /\ file \in {Absent, Empty} \cup 0..MaxChanges
  /\ tool \in [Tools -> {"idle", "sent", "done"}]
  /\ asked \in [Tools -> 0..MaxChanges]
  /\ got \in [Tools -> [file : {Absent, Empty} \cup 0..MaxChanges,
                        excused : BOOLEAN]]

\* The types of the role, of the dump and of the tools.
LoopTypeOK == cast \in Casts /\ CommandTypeOK /\ RoleType /\ DumpType

\* manager.cpp:66-72: once the signals are handled the cached role is that of
\* the manager, except for a change between the answer and the match, which
\* nobody sees until the role changes again.
CacheFollows ==
  match = "on" /\ fetch = "done" /\ signals = <<>> /\ ~missed => cached = mgr

\* A tool never shows the watches as they were before it asked, if its signal
\* was taken within its second and the old dump could be removed: it reads no
\* file, a part of one, or a dump made for it or after it, whatever others do.
DumpIsFresh ==
  \A t \in Tools :
    tool[t] = "done" /\ got[t].file \notin {Absent, Empty} /\ ~got[t].excused
      => got[t].file >= asked[t]

\* The thread comes back to what waits for it, a signal or a change of the
\* role, unless it is Jammed.
ThreadReturns ==
  /\ sigusr1 ~> (~sigusr1 \/ Jammed)
  /\ (match = "on" /\ signals # <<>>) ~> (signals = <<>> \/ Jammed)
=============================================================================
