------------------------------- MODULE Command -------------------------------
(***************************************************************************)
(* AsyncCommandExecutor (src/async_command_exec.cpp): execCmd, which runs  *)
(* rsync for every sync, on the one thread of the service.                 *)
(*                                                                         *)
(* A call spawns a child with a pipe for its output and awaits the end of  *)
(* the output; other coroutines run meanwhile.  Then it waits for the      *)
(* child with waitpid, which suspends nothing: it blocks the thread.  That *)
(* posix_spawn failed is logged and ignored, and waitpid(-1) waits for any *)
(* child.  A child closes the read end of its own pipe only: it inherits   *)
(* those that are open when it is spawned, and keeps them until it exits.  *)
(***************************************************************************)
EXTENDS Naturals

CONSTANTS
  Calls,      \* calls of execCmd, each with its child
  PipeSize,   \* what a pipe holds, in buffers of the reader
  MaxOutput,  \* what a child writes, in the same unit (bound)
  Failing     \* pipes, spawns and reads may fail

ASSUME CommandAssumption ==
  /\ PipeSize \in Nat \ {0} /\ MaxOutput \in Nat /\ Failing \in BOOLEAN
  /\ "none" \notin Calls /\ "-1" \notin Calls

VARIABLES
  pc,      \* of each call: "idle", "reading", "waiting", "done"
  child,   \* of each call: "none", "running", "closed", "exited", "reaped"
  left,    \* what the child has not written yet
  pipe,    \* what is in the pipe
  reader,  \* whether the thread has the read end of the pipe open
  inherit, \* the calls whose read end the child has open until it exits
  killed,  \* the children that were ended by a signal
  result,  \* the call whose child's exit code was returned, or "-1"
  busy     \* the thread is in other code that awaits nothing

childVars == <<child, left, pipe, inherit, killed>>
commandVars == <<pc, childVars, reader, result, busy>>

Free == ~busy /\ \A c \in Calls : pc[c] # "waiting"

Unreaped == {d \in Calls : child[d] \notin {"none", "reaped"}}

\* The children that have the read end of c's pipe open.
Holders(c) == {d \in Calls : c \in inherit[d]}

Return(c, value) ==
  /\ pc' = [pc EXCEPT ![c] = "done"]
  /\ result' = [result EXCEPT ![c] = value]

-----------------------------------------------------------------------------
(* execCmd.                                                                 *)

setupPipeFails(c) ==
  /\ Failing /\ Free /\ pc[c] = "idle"
  /\ Return(c, "-1")
  /\ UNCHANGED <<childVars, reader, busy>>

\* MUTANT of spawnCommand: the child keeps the read end of its own pipe.
spawnCommand_OwnEndKept(c) ==
  /\ Free /\ pc[c] = "idle"
  /\ pc' = [pc EXCEPT ![c] = "reading"]
  /\ reader' = [reader EXCEPT ![c] = TRUE]
  /\ child' = [child EXCEPT ![c] = "running"]
  /\ inherit' = [inherit EXCEPT ![c] = {c}]
  /\ \E n \in 0..MaxOutput : left' = [left EXCEPT ![c] = n]
  /\ UNCHANGED <<pipe, killed, result, busy>>

spawnCommand(c) ==
  /\ Free /\ pc[c] = "idle"
  /\ pc' = [pc EXCEPT ![c] = "reading"]
  /\ reader' = [reader EXCEPT ![c] = TRUE]
  /\ \/ /\ child' = [child EXCEPT ![c] = "running"]
        /\ inherit' = [inherit EXCEPT ![c] = {d \in Calls : reader[d]}]
        /\ \E n \in 0..MaxOutput : left' = [left EXCEPT ![c] = n]
     \/ /\ Failing
        /\ UNCHANGED <<child, left, inherit>>
  /\ UNCHANGED <<pipe, killed, result, busy>>

\* MUTANT of Read: the pipe is read before there is anything in it.
Read_Unready(c) ==
  /\ Free /\ pc[c] = "reading"
  /\ pipe' = [pipe EXCEPT ![c] = @ - 1]
  /\ UNCHANGED <<pc, child, left, inherit, killed, reader, result, busy>>

\* waitForCmdCompletion: one buffer at a time.
Read(c) ==
  /\ Free /\ pc[c] = "reading" /\ pipe[c] > 0
  /\ pipe' = [pipe EXCEPT ![c] = @ - 1]
  /\ UNCHANGED <<pc, child, left, inherit, killed, reader, result, busy>>

\* MUTANT of EndOfOutput: the read end is closed after waitpid.
EndOfOutput_ReaderKept(c) ==
  /\ Free /\ pc[c] = "reading"
  /\ Failing \/ (pipe[c] = 0 /\ child[c] # "running")
  /\ pc' = [pc EXCEPT ![c] = "waiting"]
  /\ UNCHANGED <<childVars, reader, result, busy>>

\* The end of the output, or a read that fails; the read end is closed and the
\* thread enters waitpid.
EndOfOutput(c) ==
  /\ Free /\ pc[c] = "reading"
  /\ Failing \/ (pipe[c] = 0 /\ child[c] # "running")
  /\ pc' = [pc EXCEPT ![c] = "waiting"]
  /\ reader' = [reader EXCEPT ![c] = FALSE]
  /\ UNCHANGED <<childVars, result, busy>>

Code(d) == IF d \in killed THEN "-1" ELSE d

\* MUTANT of WaitOwn: waitpid(-1) for every call.
WaitOwn_Any(c) ==
  /\ pc[c] = "waiting" /\ child[c] # "none"
  /\ \E d \in Calls :
       /\ child[d] = "exited"
       /\ child' = [child EXCEPT ![d] = "reaped"]
       /\ Return(c, Code(d))
  /\ UNCHANGED <<left, pipe, inherit, killed, reader, busy>>

\* waitpid returns the status of the call's own child, or fails because another
\* call has taken it.
WaitOwn(c) ==
  /\ pc[c] = "waiting" /\ child[c] # "none"
  /\ \/ /\ child[c] = "exited"
        /\ child' = [child EXCEPT ![c] = "reaped"]
        /\ Return(c, Code(c))
     \/ child[c] = "reaped" /\ Return(c, "-1") /\ UNCHANGED child
  /\ UNCHANGED <<left, pipe, inherit, killed, reader, busy>>

\* Without a child of its own the call takes the status of any child, and fails
\* at once if there is none.
WaitAny(c) ==
  /\ pc[c] = "waiting" /\ child[c] = "none"
  /\ \/ \E d \in Calls :
          /\ child[d] = "exited"
          /\ child' = [child EXCEPT ![d] = "reaped"]
          /\ Return(c, Code(d))
     \/ /\ Unreaped = {}
        /\ Return(c, "-1") /\ UNCHANGED child
  /\ UNCHANGED <<left, pipe, inherit, killed, reader, busy>>

execCmd(c) ==
  setupPipeFails(c) \/ spawnCommand(c) \/ Read(c) \/ EndOfOutput(c)
    \/ WaitOwn(c) \/ WaitAny(c)

-----------------------------------------------------------------------------
(* The children.                                                            *)

ChildWrites(c) ==
  /\ child[c] = "running" /\ left[c] > 0 /\ pipe[c] < PipeSize
  /\ left' = [left EXCEPT ![c] = @ - 1]
  /\ pipe' = [pipe EXCEPT ![c] = @ + 1]
  /\ UNCHANGED <<pc, child, inherit, killed, reader, result, busy>>

\* A child that has more to write ends (SIGPIPE) once nobody has the read end of
\* its pipe open any more, neither the thread nor another child.
ChildCloses(c) ==
  /\ child[c] = "running"
  /\ left[c] = 0 \/ (~reader[c] /\ Holders(c) = {})
  /\ child' = [child EXCEPT ![c] = "closed"]
  /\ UNCHANGED <<pc, left, pipe, inherit, killed, reader, result, busy>>

ChildExits(c) ==
  /\ child[c] = "closed"
  /\ child' = [child EXCEPT ![c] = "exited"]
  /\ inherit' = [inherit EXCEPT ![c] = {}]
  /\ killed' \in {killed, killed \cup {c}}
  /\ UNCHANGED <<pc, left, pipe, reader, result, busy>>

ChildStep(c) == ChildWrites(c) \/ ChildCloses(c) \/ ChildExits(c)

-----------------------------------------------------------------------------
CommandInit ==
  /\ pc = [c \in Calls |-> "idle"] /\ child = [c \in Calls |-> "none"]
  /\ left = [c \in Calls |-> 0] /\ pipe = [c \in Calls |-> 0]
  /\ reader = [c \in Calls |-> FALSE] /\ inherit = [c \in Calls |-> {}]
  /\ killed = {}
  /\ result = [c \in Calls |-> "none"] /\ busy = FALSE

\* The steps of execCmd and of the children; what else the thread does may make
\* it busy and leaves the rest alone.
CommandNext ==
  \/ \E c \in Calls : execCmd(c) \/ ChildStep(c)
  \/ busy' \in BOOLEAN /\ UNCHANGED <<pc, childVars, reader, result>>

CommandSpec == CommandInit /\ [][CommandNext]_commandVars

-----------------------------------------------------------------------------
(* Properties.                                                              *)

\* The types of the calls, their children and the pipes.
CommandTypeOK ==
  /\ pc \in [Calls -> {"idle", "reading", "waiting", "done"}]
  /\ child \in [Calls -> {"none", "running", "closed", "exited", "reaped"}]
  /\ left \in [Calls -> 0..MaxOutput] /\ pipe \in [Calls -> 0..PipeSize]
  /\ reader \in [Calls -> BOOLEAN] /\ inherit \in [Calls -> SUBSET Calls]
  /\ killed \subseteq Calls
  /\ result \in [Calls -> Calls \cup {"none", "-1"}] /\ busy \in BOOLEAN

\* A call whose command ran returns the exit code of that command, or -1,
\* whatever other calls do and however their spawns fail: never success for a
\* command of its own that failed.
RanGetsOwn ==
  \A c \in Calls : result[c] \in Calls /\ child[c] # "none" => result[c] = c

\* An exit code is returned by one call only: a sync that was not run and takes
\* the code of another costs that one its own.
CodeReturnedOnce ==
  \A c, d \in Calls : result[c] \in Calls /\ result[c] = result[d] => c = d

\* A call that is done leaves no child behind.
NoZombies ==
  \A c \in Calls : pc[c] = "done" => child[c] \in {"none", "reaped"}

\* Who returns what: exit codes go to the call they belong to, and to one that
\* takes them in place of it at most, and no child outlives its call.
CodesExact == RanGetsOwn /\ CodeReturnedOnce /\ NoZombies

Full(d) == child[d] = "running" /\ left[d] > 0 /\ pipe[d] = PipeSize

\* The thread is in waitpid for a child that cannot exit before the thread reads:
\* for any child, its own not being born, and each has a full pipe; or for its
\* own, whose pipe is full and stays open in another with a full pipe.
Jammed ==
  \E c \in Calls :
    /\ pc[c] = "waiting"
    /\ \/ child[c] = "none" /\ Unreaped # {} /\ \A d \in Unreaped : Full(d)
       \/ Full(c) /\ \E d \in Holders(c) \ {c} : Full(d)

\* Every call ends, and with it the sync that awaits it, unless the thread is
\* Jammed, which takes a spawn or a read that fails and another child at work.
CallsEnd ==
  \A c \in Calls : (pc[c] = "reading") ~> (pc[c] = "done" \/ Jammed)
=============================================================================
