------------------------------ MODULE LoopProofs ------------------------------
(***************************************************************************)
(* The commands, the followed role and the dump, for any calls and tools,  *)
(* any sizes of pipes and outputs, and any number of changes.              *)
(***************************************************************************)
EXTENDS Loop, SequenceTheorems, TLAPS

-----------------------------------------------------------------------------
(* Commands: types.                                                         *)

LEMMA InitCommandType == CommandInit => CommandTypeOK
<1> SUFFICES ASSUME CommandInit PROVE CommandTypeOK
  OBVIOUS
<1>1. 0 \in 0..MaxOutput /\ 0 \in 0..PipeSize
  BY CommandAssumption
<1>2. /\ left \in [Calls -> 0..MaxOutput]
      /\ pipe \in [Calls -> 0..PipeSize]
  BY <1>1 DEF CommandInit
<1>3. /\ pc \in [Calls -> {"idle", "reading", "waiting", "done"}]
      /\ child \in [Calls -> {"none", "running", "closed", "exited", "reaped"}]
      /\ result \in [Calls -> Calls \cup {"none", "-1"}]
  BY DEF CommandInit
<1>4. /\ reader \in [Calls -> BOOLEAN] /\ inherit \in [Calls -> SUBSET Calls]
      /\ killed \subseteq Calls /\ busy \in BOOLEAN
  BY DEF CommandInit
<1>5. QED
  BY <1>2, <1>3, <1>4 DEF CommandTypeOK

\* What a call returns.
LEMMA CodeType ==
  ASSUME NEW d \in Calls
  PROVE  Code(d) \in Calls \cup {"-1"} /\ (Code(d) \in Calls => Code(d) = d)
BY CommandAssumption DEF Code

LEMMA NextCommandType ==
  CommandTypeOK /\ [CommandNext]_commandVars => CommandTypeOK'
<1> SUFFICES ASSUME CommandTypeOK, [CommandNext]_commandVars
             PROVE  CommandTypeOK'
  OBVIOUS
<1> USE CommandAssumption DEF CommandTypeOK
<1>1. ASSUME NEW c \in Calls, execCmd(c) PROVE CommandTypeOK'
  <2>1. CASE setupPipeFails(c)
    BY <2>1 DEF setupPipeFails, Return, childVars
  <2>2. CASE spawnCommand(c)
    BY <2>2 DEF spawnCommand
  <2>3. CASE Read(c)
    <3>1. pipe[c] - 1 \in 0..PipeSize
      BY <2>3 DEF Read
    <3>2. QED
      BY <2>3, <3>1 DEF Read
  <2>4. CASE EndOfOutput(c)
    BY <2>4 DEF EndOfOutput, childVars
  <2>5. CASE WaitOwn(c)
    BY <2>5, CodeType DEF WaitOwn, Return
  <2>6. CASE WaitAny(c)
    BY <2>6, CodeType DEF WaitAny, Return
  <2>7. QED
    BY <1>1, <2>1, <2>2, <2>3, <2>4, <2>5, <2>6 DEF execCmd
<1>2. ASSUME NEW c \in Calls, ChildStep(c) PROVE CommandTypeOK'
  <2>1. CASE ChildWrites(c)
    <3>1. left[c] - 1 \in 0..MaxOutput /\ pipe[c] + 1 \in 0..PipeSize
      BY <2>1 DEF ChildWrites
    <3>2. QED
      BY <2>1, <3>1 DEF ChildWrites
  <2>2. CASE ChildCloses(c)
    BY <2>2 DEF ChildCloses
  <2>3. CASE ChildExits(c)
    BY <2>3 DEF ChildExits
  <2>4. QED
    BY <1>2, <2>1, <2>2, <2>3 DEF ChildStep
<1>3. CASE busy' \in BOOLEAN /\ UNCHANGED <<pc, childVars, reader, result>>
  BY <1>3 DEF childVars
<1>4. CASE UNCHANGED commandVars
  BY <1>4 DEF commandVars, childVars
<1>5. QED
  BY <1>1, <1>2, <1>3, <1>4 DEF CommandNext

\* Calls, children and pipes have their types, and no pipe holds more than it
\* can.
THEOREM CommandTypeCorrect == CommandSpec => []CommandTypeOK
BY InitCommandType, NextCommandType, PTL DEF CommandSpec

-----------------------------------------------------------------------------
(* Commands: who gets which exit code.                                      *)

\* A call that has not started has neither a child nor a result, one that is not
\* done has no result, and one that is done no child; a code that was returned is
\* that of a child that was reaped.
CodesInv ==
  /\ \A c \in Calls : pc[c] = "idle" => child[c] = "none"
  /\ \A c \in Calls : pc[c] # "done" => result[c] = "none"
  /\ \A c \in Calls : result[c] \in Calls => child[result[c]] = "reaped"
  /\ RanGetsOwn /\ CodeReturnedOnce /\ NoZombies

LEMMA InitCodes == CommandInit => CodesInv
BY CommandAssumption
   DEF CommandInit, CodesInv, RanGetsOwn, CodeReturnedOnce, NoZombies

\* A call that ends with a failure takes no code.
LEMMA ReturnFailure ==
  ASSUME CommandTypeOK, CodesInv, NEW c \in Calls, Return(c, "-1"),
         child[c] \in {"none", "reaped"}, UNCHANGED childVars
  PROVE  CodesInv'
BY CommandAssumption
   DEF CommandTypeOK, CodesInv, Return, childVars,
       RanGetsOwn, CodeReturnedOnce, NoZombies

\* A call that takes the code of a child reaps it, which no other call does.
LEMMA ReturnCode ==
  ASSUME CommandTypeOK, CodesInv, NEW c \in Calls, NEW d \in Calls,
         c = d \/ child[c] = "none", pc[c] = "waiting",
         child[d] = "exited", child' = [child EXCEPT ![d] = "reaped"],
         Return(c, Code(d))
  PROVE  CodesInv'
<1> USE CommandAssumption DEF CommandTypeOK, CodesInv
<1>1. /\ pc' = [pc EXCEPT ![c] = "done"]
      /\ result' = [result EXCEPT ![c] = Code(d)]
  BY DEF Return
<1>2. Code(d) = d \/ Code(d) = "-1"
  BY DEF Code
<1>3. \A o \in Calls : result[o] # d
  BY DEF CodesInv
<1>4. \A o \in Calls : pc'[o] = "idle" => child'[o] = "none"
  BY <1>1
<1>5. \A o \in Calls : pc'[o] # "done" => result'[o] = "none"
  BY <1>1
<1>6. \A o \in Calls : result'[o] \in Calls => child'[result'[o]] = "reaped"
  BY <1>1, <1>2
<1>7. RanGetsOwn'
  BY <1>1, <1>2 DEF RanGetsOwn
<1>8. CodeReturnedOnce'
  BY <1>1, <1>2, <1>3 DEF CodeReturnedOnce
<1>9. NoZombies'
  BY <1>1 DEF NoZombies
<1>10. QED
  BY <1>4, <1>5, <1>6, <1>7, <1>8, <1>9

LEMMA NextCodes ==
  CommandTypeOK /\ CodesInv /\ [CommandNext]_commandVars => CodesInv'
<1> SUFFICES ASSUME CommandTypeOK, CodesInv, [CommandNext]_commandVars
             PROVE  CodesInv'
  OBVIOUS
<1>1. ASSUME NEW c \in Calls, execCmd(c) PROVE CodesInv'
  <2>1. CASE setupPipeFails(c)
    BY <2>1, ReturnFailure DEF setupPipeFails, CodesInv
  <2>2. CASE spawnCommand(c)
    <3>1. /\ UNCHANGED result /\ result[c] = "none" /\ child[c] = "none"
          /\ pc'[c] = "reading" /\ child'[c] \in {"running", "none"}
          /\ \A d \in Calls \ {c} : pc'[d] = pc[d] /\ child'[d] = child[d]
      BY <2>2 DEF spawnCommand, CommandTypeOK, CodesInv
    <3>2. QED
      BY <3>1, CommandAssumption
         DEF CommandTypeOK, CodesInv, RanGetsOwn, CodeReturnedOnce, NoZombies
  <2>3. CASE Read(c)
    BY <2>3 DEF Read, CodesInv, RanGetsOwn, CodeReturnedOnce, NoZombies
  <2>4. CASE EndOfOutput(c)
    <3>1. /\ UNCHANGED <<child, result>>
          /\ \A d \in Calls :
               pc'[d] = pc[d] \/ (pc[d] = "reading" /\ pc'[d] = "waiting")
      BY <2>4 DEF EndOfOutput, childVars, CommandTypeOK
    <3>2. QED
      BY <3>1 DEF CodesInv, RanGetsOwn, CodeReturnedOnce, NoZombies
  <2>5. CASE WaitOwn(c)
    <3>1. CASE child[c] = "exited"
      BY <2>5, <3>1, ReturnCode DEF WaitOwn
    <3>2. CASE child[c] # "exited"
      BY <2>5, <3>2, ReturnFailure DEF WaitOwn, childVars
    <3>3. QED
      BY <3>1, <3>2
  <2>6. CASE WaitAny(c)
    <3>1. ASSUME NEW d \in Calls, child[d] = "exited",
                 child' = [child EXCEPT ![d] = "reaped"], Return(c, Code(d))
          PROVE  CodesInv'
      BY <2>6, <3>1, ReturnCode DEF WaitAny
    <3>2. CASE Return(c, "-1") /\ UNCHANGED child
      BY <2>6, <3>2, ReturnFailure DEF WaitAny, childVars
    <3>3. QED
      BY <2>6, <3>1, <3>2 DEF WaitAny
  <2>7. QED
    BY <1>1, <2>1, <2>2, <2>3, <2>4, <2>5, <2>6 DEF execCmd
<1>2. ASSUME NEW c \in Calls, ChildStep(c) PROVE CodesInv'
  <2>1. /\ UNCHANGED <<pc, result>>
        /\ \A d \in Calls \ {c} : child'[d] = child[d]
        /\ \/ child'[c] = child[c]
           \/ child[c] \in {"running", "closed"}
    BY <1>2 DEF ChildStep, ChildWrites, ChildCloses, ChildExits, CommandTypeOK
  <2>2. child[c] \in {"running", "closed"} => pc[c] \notin {"idle", "done"}
    BY DEF CodesInv, NoZombies
  <2>3. QED
    BY <2>1, <2>2, CommandAssumption
       DEF CommandTypeOK, CodesInv, RanGetsOwn, CodeReturnedOnce, NoZombies
<1>3. CASE UNCHANGED <<pc, childVars, reader, result>>
  BY <1>3 DEF childVars, CodesInv, RanGetsOwn, CodeReturnedOnce, NoZombies
<1>4. QED
  BY <1>1, <1>2, <1>3 DEF CommandNext, commandVars

\* However spawns and reads fail: a call whose command ran returns its code or a
\* failure, no code is returned twice, and no call leaves a child behind.
THEOREM CodesAreExact == CommandSpec => []CodesExact
<1>1. CodesInv => CodesExact
  BY DEF CodesInv, CodesExact
<1>2. QED
  BY <1>1, InitCodes, NextCodes, CommandTypeCorrect, PTL DEF CommandSpec

-----------------------------------------------------------------------------
(* Commands: the jam that is left out of what must end.                     *)

\* One call at most is in waitpid, and one that reads has the read end open.
WaitInv ==
  /\ \A c, d \in Calls : pc[c] = "waiting" /\ pc[d] = "waiting" => c = d
  /\ \A c \in Calls : pc[c] = "reading" => reader[c]

LEMMA NextWait == CommandTypeOK /\ WaitInv /\ [CommandNext]_commandVars => WaitInv'
<1> SUFFICES ASSUME CommandTypeOK, WaitInv, [CommandNext]_commandVars
             PROVE  WaitInv'
  OBVIOUS
<1> USE DEF CommandTypeOK, WaitInv
<1>1. ASSUME NEW c \in Calls, execCmd(c) PROVE WaitInv'
  <2>1. CASE setupPipeFails(c)
    BY <2>1 DEF setupPipeFails, Return, childVars
  <2>2. CASE spawnCommand(c)
    BY <2>2 DEF spawnCommand
  <2>3. CASE Read(c)
    BY <2>3 DEF Read
  <2>4. CASE EndOfOutput(c)
    BY <2>4 DEF EndOfOutput, Free
  <2>5. CASE WaitOwn(c)
    BY <2>5 DEF WaitOwn, Return
  <2>6. CASE WaitAny(c)
    BY <2>6 DEF WaitAny, Return
  <2>7. QED
    BY <1>1, <2>1, <2>2, <2>3, <2>4, <2>5, <2>6 DEF execCmd
<1>2. ASSUME NEW c \in Calls, ChildStep(c) PROVE WaitInv'
  BY <1>2 DEF ChildStep, ChildWrites, ChildCloses, ChildExits
<1>3. CASE UNCHANGED <<pc, childVars, reader, result>>
  BY <1>3
<1>4. QED
  BY <1>1, <1>2, <1>3 DEF CommandNext, commandVars

\* In a jam nothing moves any more but children that are no part of it.
LEMMA JamStays ==
  ASSUME CommandTypeOK, CodesInv, WaitInv, Jammed, [CommandNext]_commandVars
  PROVE  Jammed'
<1> USE CommandAssumption DEF CommandTypeOK
<1>1. PICK c \in Calls :
        /\ pc[c] = "waiting"
        /\ \/ child[c] = "none" /\ Unreaped # {} /\ \A d \in Unreaped : Full(d)
           \/ Full(c) /\ \E d \in Holders(c) \ {c} : Full(d)
  BY DEF Jammed
<1>2. ~Free
  BY <1>1 DEF Free
<1>3. \A d \in Calls \ {c} : Full(d) => reader[d]
  BY <1>1 DEF Full, WaitInv, CodesInv, NoZombies
<1>4. CASE UNCHANGED <<pc, childVars, reader, result>>
  BY <1>1, <1>4 DEF Jammed, Unreaped, Full, Holders, childVars
<1>5. ASSUME NEW o \in Calls, ChildStep(o) PROVE Jammed'
  <2>1. ASSUME NEW d \in Calls, Full(d), reader[d] \/ Holders(d) # {}
        PROVE  o # d
    BY <1>5, <2>1 DEF ChildStep, ChildWrites, ChildCloses, ChildExits, Full
  <2>2. \A d \in Calls : Full(d) /\ o # d => Full(d)' /\ inherit'[d] = inherit[d]
    BY <1>5 DEF ChildStep, ChildWrites, ChildCloses, ChildExits, Full
  <2>3. pc' = pc
    BY <1>5 DEF ChildStep, ChildWrites, ChildCloses, ChildExits
  <2>4. CASE child[c] = "none" /\ Unreaped # {} /\ \A d \in Unreaped : Full(d)
    <3>1. c \notin Unreaped
      BY <2>4 DEF Unreaped
    <3>2. \A d \in Unreaped : o # d
      BY <1>3, <2>1, <2>4, <3>1 DEF Unreaped
    <3>3. FALSE
      BY <1>5, <3>2
         DEF ChildStep, ChildWrites, ChildCloses, ChildExits, Unreaped
    <3>4. QED
      BY <3>3
  <2>5. CASE Full(c) /\ \E d \in Holders(c) \ {c} : Full(d)
    <3>1. PICK d \in Holders(c) \ {c} : Full(d)
      BY <2>5
    <3>2. d \in Calls /\ o # d /\ o # c
      BY <1>3, <2>1, <2>5, <3>1 DEF Holders
    <3>3. Full(c)' /\ Full(d)' /\ d \in Holders(c)'
      BY <2>2, <2>5, <3>1, <3>2 DEF Holders
    <3>4. QED
      BY <1>1, <2>3, <3>1, <3>3 DEF Jammed
  <2>6. QED
    BY <1>1, <2>4, <2>5
<1>6. ASSUME NEW o \in Calls, execCmd(o) PROVE Jammed'
  <2>1. CASE WaitOwn(o)
    <3>1. o = c
      BY <1>1, <2>1 DEF WaitOwn, WaitInv
    <3>2. QED
      BY <1>1, <2>1, <3>1 DEF WaitOwn, Full
  <2>2. CASE WaitAny(o)
    <3>1. o = c /\ child[c] = "none"
      BY <1>1, <2>2 DEF WaitAny, WaitInv
    <3>2. Unreaped # {} /\ \A d \in Unreaped : Full(d)
      BY <1>1, <3>1 DEF Full
    <3>3. QED
      BY <2>2, <3>1, <3>2 DEF WaitAny, Unreaped, Full
  <2>3. QED
    BY <1>2, <1>6, <2>1, <2>2
       DEF execCmd, setupPipeFails, spawnCommand, Read, EndOfOutput
<1>7. QED
  BY <1>4, <1>5, <1>6 DEF CommandNext, commandVars

\* What CallsEnd and ThreadReturns exempt is the deadlock and nothing less: a
\* Jammed thread stays in waitpid for good.
THEOREM JamsAreForGood == CommandSpec => [][Jammed => Jammed']_commandVars
<1>1. CommandInit => WaitInv
  BY CommandAssumption DEF CommandInit, WaitInv
<1>2. CommandTypeOK /\ CodesInv /\ WaitInv /\ [CommandNext]_commandVars
        => [Jammed => Jammed']_commandVars
  BY JamStays
<1>3. QED
  BY <1>1, <1>2, InitCodes, NextCodes, NextWait, CommandTypeCorrect, PTL
     DEF CommandSpec

-----------------------------------------------------------------------------
(* The loop: types.                                                         *)

LEMMA InitLoopType == Init => LoopTypeOK
<1> SUFFICES ASSUME Init PROVE LoopTypeOK
  OBVIOUS
<1>1. CommandTypeOK
  BY InitCommandType DEF Init
<1>2. 0 \in 0..MaxChanges /\ <<>> \in Seq(0..MaxChanges)
  BY LoopAssumption
<1>3. /\ tool \in [Tools -> {"idle", "sent", "done"}]
      /\ asked \in [Tools -> 0..MaxChanges]
      /\ got \in [Tools -> [file : {Absent, Empty} \cup 0..MaxChanges,
                            excused : BOOLEAN]]
  BY <1>2 DEF Init
<1>4. QED
  BY <1>1, <1>2, <1>3 DEF Init, LoopTypeOK, RoleType, DumpType

\* Every step of the loop is one the commands allow.
LEMMA LoopStepIsCommandStep ==
  LoopTypeOK /\ [Next]_loopVars => [CommandNext]_commandVars
<1> SUFFICES ASSUME LoopTypeOK, [Next]_loopVars
             PROVE  [CommandNext]_commandVars
  OBVIOUS
<1>1. CASE RoleStep
  BY <1>1 DEF RoleStep
<1>2. CASE DumpStep
  <2>1. UNCHANGED <<pc, childVars, reader, result>>
    BY <1>2 DEF DumpStep
  <2>2. busy' \in BOOLEAN
    BY <1>2 DEF DumpStep, SendSignal, ReadFile, dumpWatchingPathsToFile,
                OpenDump, WriteDump, WatchesChange, LoopTypeOK,
                CommandTypeOK
  <2>3. QED
    BY <2>1, <2>2 DEF CommandNext
<1>3. ASSUME NEW c \in Calls \cap cast, CallStep(c)
      PROVE  [CommandNext]_commandVars
  BY <1>3 DEF CallStep, CommandNext
<1>4. CASE UNCHANGED loopVars
  BY <1>4 DEF loopVars
<1>5. QED
  BY <1>1, <1>2, <1>3, <1>4 DEF Next

LEMMA NextRoleType ==
  ASSUME RoleType,
         Answer \/ Fetched \/ Subscribe \/ watchRedundancyMgrProps \/ RoleChanges
  PROVE  RoleType'
<1> USE LoopAssumption DEF RoleType
<1>1. CASE Answer
  BY <1>1 DEF Answer
<1>2. CASE Fetched
  BY <1>2 DEF Fetched
<1>3. CASE Subscribe
  BY <1>3 DEF Subscribe
<1>4. CASE watchRedundancyMgrProps
  BY <1>4 DEF watchRedundancyMgrProps
<1>5. CASE RoleChanges
  <2>1. mgr' \in 0..MaxChanges
    BY <1>5 DEF RoleChanges
  <2>2. signals' \in Seq(0..MaxChanges)
    <3>1. Append(signals, mgr') \in Seq(0..MaxChanges)
      BY <2>1, AppendProperties
    <3>2. QED
      BY <1>5, <3>1, Zenon DEF RoleChanges
  <2>3. missed' \in BOOLEAN
    BY <1>5, Zenon DEF RoleChanges
  <2>4. QED
    BY <1>5, <2>1, <2>2, <2>3 DEF RoleChanges
<1>6. QED
  BY <1>1, <1>2, <1>3, <1>4, <1>5

LEMMA NextDumpType ==
  ASSUME DumpType, DumpStep
  PROVE  DumpType'
<1> USE LoopAssumption DEF DumpType
<1>1. ASSUME NEW t \in Tools, SendSignal(t) PROVE DumpType'
  BY <1>1 DEF SendSignal
<1>2. ASSUME NEW t \in Tools, ReadFile(t) PROVE DumpType'
  BY <1>2 DEF ReadFile
<1>3. CASE dumpWatchingPathsToFile
  BY <1>3 DEF dumpWatchingPathsToFile
<1>4. CASE OpenDump
  BY <1>4 DEF OpenDump
<1>5. CASE WriteDump
  BY <1>5 DEF WriteDump
<1>6. CASE WatchesChange
  BY <1>6 DEF WatchesChange
<1>7. QED
  BY <1>1, <1>2, <1>3, <1>4, <1>5, <1>6 DEF DumpStep

LEMMA NextLoopType == LoopTypeOK /\ [Next]_loopVars => LoopTypeOK'
<1> SUFFICES ASSUME LoopTypeOK, [Next]_loopVars
             PROVE  LoopTypeOK'
  OBVIOUS
<1>1. CommandTypeOK'
  BY LoopStepIsCommandStep, NextCommandType DEF LoopTypeOK
<1>2. UNCHANGED dumpVars => (DumpType => DumpType')
  BY DEF dumpVars, DumpType
<1>3. UNCHANGED roleVars => (RoleType => RoleType')
  BY DEF roleVars, RoleType
<1>4. CASE RoleStep
  BY <1>1, <1>2, <1>4, NextRoleType DEF RoleStep, LoopTypeOK
<1>5. CASE DumpStep
  BY <1>1, <1>3, <1>5, NextDumpType DEF DumpStep, LoopTypeOK
<1>6. ASSUME NEW c \in Calls, CallStep(c) PROVE LoopTypeOK'
  BY <1>1, <1>2, <1>3, <1>6 DEF CallStep, LoopTypeOK
<1>7. CASE UNCHANGED loopVars
  BY <1>1, <1>2, <1>3, <1>7 DEF loopVars, LoopTypeOK
<1>8. QED
  BY <1>4, <1>5, <1>6, <1>7 DEF Next

\* The role, the dump and what the tools read have their types.
THEOREM LoopTypeCorrect == Spec => []LoopTypeOK
BY InitLoopType, NextLoopType, PTL DEF Spec

\* With the role, the dump and the tools on the thread, commands are run as
\* Command says.
THEOREM LoopRunsCommands == Spec => CommandSpec
<1>1. Init => CommandInit
  BY DEF Init
<1>2. QED
  BY <1>1, LoopStepIsCommandStep, LoopTypeCorrect, PTL DEF Spec, CommandSpec

\* Hence exit codes are exact next to them.
THEOREM LoopCodesAreExact == Spec => []CodesExact
BY LoopRunsCommands, CodesAreExact, PTL

-----------------------------------------------------------------------------
(* The followed role.                                                       *)

\* Where the last value of the role is, unless a change was missed: in the
\* answer, in the cache or in the last signal.
RoleInv ==
  /\ fetch # "done" => match = "none"
  /\ match # "on" => signals = <<>>
  /\ fetch = "asked" => ~missed
  /\ ~missed =>
       /\ fetch = "answered" => answer = mgr
       /\ fetch = "done" /\ signals = <<>> => cached = mgr
       /\ signals # <<>> => signals[Len(signals)] = mgr

LEMMA NextRole == LoopTypeOK /\ RoleInv /\ [Next]_loopVars => RoleInv'
<1> SUFFICES ASSUME LoopTypeOK, RoleInv, [Next]_loopVars
             PROVE  RoleInv'
  OBVIOUS
<1> RoleType
  BY DEF LoopTypeOK
<1> USE DEF RoleType, RoleInv
<1>1. CASE RoleStep
  <2>1. CASE Answer
    BY <2>1 DEF Answer
  <2>2. CASE Fetched
    BY <2>2 DEF Fetched
  <2>3. CASE Subscribe
    BY <2>3 DEF Subscribe
  <2>4. CASE watchRedundancyMgrProps
    <3>1. CASE Len(signals) = 1
      <4>1. cached' = signals[Len(signals)] /\ signals' = <<>>
        BY <2>4, <3>1 DEF watchRedundancyMgrProps
      <4>2. QED
        BY <2>4, <4>1 DEF watchRedundancyMgrProps
    <3>2. CASE Len(signals) # 1
      <4>1. Len(signals) > 1
        BY <2>4, <3>2 DEF watchRedundancyMgrProps
      <4>2. /\ signals' # <<>>
            /\ signals'[Len(signals')] = signals[Len(signals)]
        <5>1. signals # <<>> /\ signals' = Tail(signals)
          BY <2>4 DEF watchRedundancyMgrProps
        <5>2. /\ Len(Tail(signals)) = Len(signals) - 1
              /\ \A i \in 1..Len(Tail(signals)) : Tail(signals)[i] = signals[i + 1]
          BY <5>1, HeadTailProperties
        <5>3. Len(signals') \in 1..Len(signals') /\ Len(signals') + 1 = Len(signals)
          BY <4>1, <5>1, <5>2
        <5>4. signals'[Len(signals')] = signals[Len(signals)]
          BY <5>1, <5>2, <5>3
        <5>5. QED
          BY <5>3, <5>4
      <4>3. signals # <<>> /\ match = "on" /\ UNCHANGED <<mgr, fetch, match, missed>>
        BY <2>4 DEF watchRedundancyMgrProps
      <4>4. QED
        BY <4>2, <4>3
    <3>3. QED
      BY <3>1, <3>2
  <2>5. CASE RoleChanges
    <3>1. CASE match = "on"
      <4>1. /\ signals' # <<>> /\ signals'[Len(signals')] = mgr'
            /\ fetch = "done" /\ UNCHANGED <<fetch, match>>
        BY <2>5, <3>1 DEF RoleChanges
      <4>2. QED
        BY <3>1, <4>1
    <3>2. CASE match # "on"
      BY <2>5, <3>2 DEF RoleChanges
    <3>3. QED
      BY <3>1, <3>2
  <2>6. QED
    BY <1>1, <2>1, <2>2, <2>3, <2>4, <2>5 DEF RoleStep
<1>2. CASE UNCHANGED roleVars
  BY <1>2 DEF roleVars
<1>3. QED
  BY <1>1, <1>2 DEF Next, DumpStep, CallStep, loopVars

\* However many changes and signals there are: once the signals are handled the
\* cached role is that of the manager, but for a change the match came too late
\* for.
THEOREM RoleIsFollowed == Spec => []CacheFollows
<1>1. Init => RoleInv
  BY DEF Init, RoleInv
<1>2. RoleInv => CacheFollows
  BY DEF RoleInv, CacheFollows
<1>3. QED
  BY <1>1, <1>2, NextRole, LoopTypeCorrect, PTL DEF Spec

-----------------------------------------------------------------------------
(* The dump.                                                                *)

\* A dump that a tool may read is as new as its request, once the signal of the
\* request was taken: the old file goes with the signal, unless it could not be
\* removed, and the new one has the watches as they are then.
FreshInv ==
  /\ \A t \in Tools : asked[t] <= watched
  /\ \A t \in Tools : tool[t] = "sent" /\ ~sigusr1 /\ ~kept
                        /\ file \notin {Absent, Empty} => file >= asked[t]
  /\ DumpIsFresh

LEMMA NextFresh == LoopTypeOK /\ FreshInv /\ [Next]_loopVars => FreshInv'
<1> SUFFICES ASSUME LoopTypeOK, FreshInv, [Next]_loopVars
             PROVE  FreshInv'
  OBVIOUS
<1> DumpType
  BY DEF LoopTypeOK
<1> USE LoopAssumption DEF DumpType, FreshInv, DumpIsFresh
<1>1. CASE DumpStep
  <2>1. ASSUME NEW t \in Tools, SendSignal(t) PROVE FreshInv'
    BY <2>1 DEF SendSignal
  <2>2. ASSUME NEW t \in Tools, ReadFile(t) PROVE FreshInv'
    BY <2>2 DEF ReadFile
  <2>3. CASE dumpWatchingPathsToFile
    BY <2>3 DEF dumpWatchingPathsToFile
  <2>4. CASE OpenDump
    BY <2>4 DEF OpenDump
  <2>5. CASE WriteDump
    BY <2>5 DEF WriteDump
  <2>6. CASE WatchesChange
    BY <2>6 DEF WatchesChange
  <2>7. QED
    BY <1>1, <2>1, <2>2, <2>3, <2>4, <2>5, <2>6 DEF DumpStep
<1>2. CASE UNCHANGED dumpVars
  BY <1>2 DEF dumpVars
<1>3. QED
  BY <1>1, <1>2 DEF Next, RoleStep, CallStep, loopVars

\* Whatever other tools do, and however late each of them reads: what a tool
\* shows is not older than its request, if the signal was taken before and the
\* old dump was removed.
THEOREM DumpsAreFresh == Spec => []DumpIsFresh
<1>1. Init => FreshInv
  BY LoopAssumption DEF Init, FreshInv, DumpIsFresh
<1>2. FreshInv => DumpIsFresh
  BY DEF FreshInv
<1>3. QED
  BY <1>1, <1>2, NextFresh, LoopTypeCorrect, PTL DEF Spec
=============================================================================
