------------------------------- MODULE Notify -------------------------------
(***************************************************************************)
(* The receiving side of sibling notifications: the watch on               *)
(* NOTIFY_SERVICES_DIR in src/manager.cpp and NotifyService of             *)
(* src/notify_service.cpp.                                                 *)
(*                                                                         *)
(* The sibling sends a request file by rsync, which writes a hidden        *)
(* temporary file and renames it.  The service looks into the directory    *)
(* when it starts, and watches it from then on.  It makes a handler of     *)
(* every file it finds or sees moved in: a coroutine that reads the file,  *)
(* has systemd restart or reload the services it names, one after another, *)
(* and removes it.  A handler that cannot read its file throws: the        *)
(* process ends and systemd starts it again.                               *)
(***************************************************************************)
EXTENDS Naturals

CONSTANTS
  Requests,      \* the request files the sibling sends
  ServiceCount,  \* [Requests -> Nat]: services named; 0 for other Modes
  RetryAttempts, \* DEFAULT_RETRY_ATTEMPTS
  MaxSends,      \* [Requests -> Nat]: rsync runs the sibling may make
  MaxKills       \* times the process is ended from outside (bound)

ASSUME NotifyAssumption ==
  /\ ServiceCount \in [Requests -> Nat]
  /\ MaxSends \in [Requests -> Nat]
  /\ {RetryAttempts, MaxKills} \subseteq Nat

VARIABLES
  entry,    \* what rsync has made of each request in NOTIFY_SERVICES_DIR
  litter,   \* temporary files that a loss of power left there
  sender,   \* the sibling's syncNotifyRequest for each request
  sends,    \* rsync runs it has made
  monitor,  \* how far monitorServiceNotifications is
  scan,     \* whether processPendingNotifications is queued
  events,   \* IN_MOVED_TO events not yet read
  work,     \* the handlers: _notifyReqs
  kills,    \* how often the process was ended from outside
  served,   \* history: requests whose services have all been asked
  slipped   \* history: requests that came after the look and before the watch

directory == <<entry, litter>>
sibling == <<sender, sends>>
service == <<monitor, scan, events, work>>
notifyVars == <<directory, sibling, service, kills, served, slipped>>

\* A handler is named by its request, what it was made for, and the rsync run
\* the file came from.  A file that came from another run is another arrival.
Paths == {"found", "temp", "litter", "moved"}
Handlers == UNION {{r} \X Paths \X (1..MaxSends[r]) : r \in Requests}

None == [at |-> "none", service |-> 0, attempt |-> 0]
Queued == [None EXCEPT !.at = "queued"]
Ask(n, attempt) == [at |-> "asking", service |-> n, attempt |-> attempt]

NotifyInit ==
  /\ entry = [r \in Requests |-> "none"]
  /\ litter = [r \in Requests |-> "none"]
  /\ sender = [r \in Requests |-> "waiting"]
  /\ sends = [r \in Requests |-> 0]
  /\ monitor = "starting"
  /\ scan = FALSE
  /\ events = {}
  /\ work = [h \in Handlers |-> None]
  /\ kills = 0
  /\ served = {}
  /\ slipped = {}

-----------------------------------------------------------------------------
(* The sibling, and its rsync.                                              *)

\* An rsync run.  A file that is there already needs no transfer.
BeginSend(r) ==
  /\ sender[r] = "waiting" /\ sends[r] < MaxSends[r]
  /\ sends' = [sends EXCEPT ![r] = @ + 1]
  /\ IF entry[r] = "file"
       THEN /\ sender' = [sender EXCEPT ![r] = "accepted"]
            /\ UNCHANGED entry
       ELSE /\ sender' = [sender EXCEPT ![r] = "sending"]
            /\ entry' = [entry EXCEPT ![r] = "partial"]
  /\ UNCHANGED <<litter, service, kills, served, slipped>>

WriteTemp(r) ==
  /\ sender[r] = "sending" /\ entry[r] = "partial"
  /\ entry' = [entry EXCEPT ![r] = "temp"]
  /\ UNCHANGED <<litter, sibling, service, kills, served, slipped>>

\* The rename: IN_MOVED_TO, if there is a watch.
MoveIn(r) ==
  /\ sender[r] = "sending" /\ entry[r] = "temp"
  /\ entry' = [entry EXCEPT ![r] = "file"]
  /\ sender' = [sender EXCEPT ![r] = "moved"]
  /\ events' = IF monitor = "watching"
                 THEN events \cup {<<r, "moved", sends[r]>>} ELSE events
  /\ slipped' = IF monitor = "checked" /\ ~scan THEN slipped \cup {r}
                                                ELSE slipped
  /\ UNCHANGED <<litter, sends, monitor, scan, work, kills, served>>

\* rsync fails: it removes its temporary file.  The sibling tries again, or
\* gives up (a permanent error, or no retry left).
SendFails(r) ==
  /\ sender[r] \in {"sending", "moved"}
  /\ entry' = IF sender[r] = "sending" THEN [entry EXCEPT ![r] = "none"]
                                       ELSE entry
  /\ \E s \in {"waiting", "dropped"} :
       /\ s = "waiting" => sends[r] < MaxSends[r]
       /\ sender' = [sender EXCEPT ![r] = s]
  /\ UNCHANGED <<litter, sends, service, kills, served, slipped>>

SendEnds(r) ==
  /\ sender[r] = "moved"
  /\ sender' = [sender EXCEPT ![r] = "accepted"]
  /\ UNCHANGED <<directory, sends, service, kills, served, slipped>>

Transfer(r) == WriteTemp(r) \/ MoveIn(r) \/ SendFails(r) \/ SendEnds(r)

-----------------------------------------------------------------------------
(* The process ends and is started again; files stay.                       *)

Restarted ==
  /\ monitor' = "starting"
  /\ scan' = FALSE
  /\ events' = {}
  /\ work' = [h \in Handlers |-> None]
  /\ slipped' = {}
  /\ UNCHANGED served

Killed ==
  /\ kills < MaxKills
  /\ kills' = kills + 1
  /\ Restarted
  /\ UNCHANGED <<directory, sibling>>

\* The rsync daemon ends too, and its temporary files stay for ever.
LosePower ==
  /\ kills < MaxKills
  /\ kills' = kills + 1
  /\ Restarted
  /\ litter' = [r \in Requests |->
                  IF entry[r] \in {"partial", "temp"} THEN entry[r]
                                                      ELSE litter[r]]
  /\ entry' = [r \in Requests |-> IF entry[r] = "file" THEN "file" ELSE "none"]
  /\ UNCHANGED sibling

-----------------------------------------------------------------------------
(* monitorServiceNotifications and processPendingNotifications.             *)

\* MUTANT of CheckDirectory: only the watch brings handlers about.
CheckDirectory_NeverScans ==
  /\ monitor = "starting"
  /\ monitor' = "checked"
  /\ scan' = FALSE
  /\ UNCHANGED <<directory, sibling, events, work, kills, served, slipped>>

\* is_empty, and the spawn.
CheckDirectory ==
  /\ monitor = "starting"
  /\ monitor' = "checked"
  /\ scan' = \E r \in Requests : entry[r] # "none" \/ litter[r] # "none"
  /\ UNCHANGED <<directory, sibling, events, work, kills, served, slipped>>

\* The watcher is created in the same step of the process, or that fails: the
\* exception is caught and the coroutine ends.
Watch ==
  /\ monitor = "checked"
  /\ monitor' \in {"watching", "ended"}
  /\ UNCHANGED <<directory, sibling, scan, events, work, kills, served,
                 slipped>>

\* The handlers of what a listing of the directory shows.
Listed ==
  {h \in Handlers : h[3] = sends[h[1]] /\
     \/ h[2] = "found" /\ entry[h[1]] = "file"
     \/ h[2] = "temp" /\ entry[h[1]] \in {"partial", "temp"}
     \/ h[2] = "litter" /\ litter[h[1]] # "none"}

Scan ==
  /\ scan /\ monitor # "checked"
  /\ scan' = FALSE
  /\ work' = [h \in Handlers |-> IF h \in Listed THEN Queued ELSE work[h]]
  /\ UNCHANGED <<directory, sibling, monitor, events, kills, served, slipped>>

\* onDataChange returns an event.  The scan was queued before.
ReadEvent(h) ==
  /\ monitor = "watching" /\ ~scan
  /\ h \in events
  /\ events' = events \ {h}
  /\ work' = [work EXCEPT ![h] = Queued]
  /\ UNCHANGED <<directory, sibling, monitor, scan, kills, served, slipped>>

-----------------------------------------------------------------------------
(* NotifyService.                                                           *)

Readable(h) ==
  \/ h[2] \in {"found", "moved"} /\ entry[h[1]] = "file"
  \/ h[2] = "temp" /\ entry[h[1]] = "temp" /\ sends[h[1]] = h[3]
  \/ h[2] = "litter" /\ litter[h[1]] = "temp"

\* fs::remove: that there is no such file any more is not an error.
Remove(h) ==
  /\ entry' =
       IF \/ h[2] \in {"found", "moved"} /\ entry[h[1]] = "file"
          \/ h[2] = "temp" /\ entry[h[1]] = "temp" /\ sends[h[1]] = h[3]
         THEN [entry EXCEPT ![h[1]] = "none"] ELSE entry
  /\ litter' = IF h[2] = "litter" THEN [litter EXCEPT ![h[1]] = "none"]
                                  ELSE litter

\* MUTANT of Proceed: the request is kept.
Proceed_FileKept(h, n) ==
  \/ /\ n <= ServiceCount[h[1]]
     /\ work' = [work EXCEPT ![h] = Ask(n, 1)]
     /\ UNCHANGED <<directory, served>>
  \/ /\ n > ServiceCount[h[1]]
     /\ work' = [work EXCEPT ![h] = None]
     /\ served' = served \cup {h[1]}
     /\ UNCHANGED directory

\* On to the n-th service; after the last, the file is removed.
Proceed(h, n) ==
  \/ /\ n <= ServiceCount[h[1]]
     /\ work' = [work EXCEPT ![h] = Ask(n, 1)]
     /\ UNCHANGED <<directory, served>>
  \/ /\ n > ServiceCount[h[1]]
     /\ work' = [work EXCEPT ![h] = None]
     /\ served' = served \cup {h[1]}
     /\ Remove(h)

\* MUTANT of Start: the file is removed as soon as it has been read.
Start_RemovesFirst(h) ==
  /\ work[h].at = "queued"
  /\ \/ /\ Readable(h)
        /\ work' = [work EXCEPT ![h] =
                      IF ServiceCount[h[1]] = 0 THEN None ELSE Ask(1, 1)]
        /\ Remove(h)
        /\ UNCHANGED <<monitor, scan, events, served, slipped>>
     \/ ~Readable(h) /\ Restarted /\ UNCHANGED directory
  /\ UNCHANGED <<sibling, kills>>

\* init up to its first suspension.  It has none when no service is named.
Start(h) ==
  /\ work[h].at = "queued"
  /\ \/ /\ Readable(h)
        /\ Proceed(h, 1)
        /\ UNCHANGED <<monitor, scan, events, slipped>>
     \/ ~Readable(h) /\ Restarted /\ UNCHANGED directory
  /\ UNCHANGED <<sibling, kills>>

\* systemd accepts the call.
Accepted(h) ==
  /\ work[h].at = "asking"
  /\ Proceed(h, work[h].service + 1)
  /\ UNCHANGED <<sibling, monitor, scan, events, kills, slipped>>

\* MUTANT of Refused: the comparison with the limit is off by one.
Refused_OneTooMany(h) ==
  /\ work[h].at = "asking"
  /\ work' = [work EXCEPT ![h].at =
                IF work[h].attempt > RetryAttempts + 1 THEN "reporting"
                                                       ELSE "sleeping"]
  /\ UNCHANGED <<directory, sibling, monitor, scan, events, kills, served,
                 slipped>>

\* It fails: a retry after an interval, or an error log.
Refused(h) ==
  /\ work[h].at = "asking"
  /\ work' = [work EXCEPT ![h].at =
                IF work[h].attempt > RetryAttempts THEN "reporting"
                                                   ELSE "sleeping"]
  /\ UNCHANGED <<directory, sibling, monitor, scan, events, kills, served,
                 slipped>>

Retry(h) ==
  /\ work[h].at = "sleeping"
  /\ work' = [work EXCEPT ![h] = Ask(@.service, @.attempt + 1)]
  /\ UNCHANGED <<directory, sibling, monitor, scan, events, kills, served,
                 slipped>>

\* createErrorLog returns, whatever became of it.
Reported(h) ==
  /\ work[h].at = "reporting"
  /\ Proceed(h, work[h].service + 1)
  /\ UNCHANGED <<sibling, monitor, scan, events, kills, slipped>>

Handle(h) == Start(h) \/ Accepted(h) \/ Refused(h) \/ Retry(h) \/ Reported(h)

-----------------------------------------------------------------------------
NotifyNext ==
  \/ \E r \in Requests : BeginSend(r) \/ Transfer(r)
  \/ Killed \/ LosePower
  \/ CheckDirectory \/ Watch \/ Scan
  \/ \E h \in Handlers : ReadEvent(h) \/ Handle(h)

NotifySpec == NotifyInit /\ [][NotifyNext]_notifyVars

\* The run loop resumes what is ready, rsync runs end, and systemd and the
\* logging service answer.  Fairness to a request's handlers together is
\* enough: each of them takes finitely many steps.
NotifyFairness ==
  /\ WF_notifyVars(CheckDirectory \/ Watch)
  /\ WF_notifyVars(Scan)
  /\ \A r \in Requests : WF_notifyVars(Transfer(r))
  /\ \A r \in Requests :
       WF_notifyVars(\E h \in Handlers :
                       h[1] = r /\ (ReadEvent(h) \/ Handle(h)))

NotifyFairSpec == NotifySpec /\ NotifyFairness

-----------------------------------------------------------------------------
(* Properties.                                                              *)

\* What a handler may be doing.
States ==
  {s \in [at : {"none", "queued", "asking", "sleeping", "reporting"},
          service : Nat, attempt : 0..(RetryAttempts + 1)] :
     s.at = "sleeping" => s.attempt <= RetryAttempts}

\* Every variable has the values its declaration allows: no service is asked
\* more often than the limit says; and only the watch brings events.
NotifyTypeOK ==
  /\ entry \in [Requests -> {"none", "partial", "temp", "file"}]
  /\ litter \in [Requests -> {"none", "partial", "temp"}]
  /\ sender \in [Requests -> {"waiting", "sending", "moved", "accepted",
                              "dropped"}]
  /\ sends \in [Requests -> Nat]
  /\ \A r \in Requests :
       /\ sends[r] <= MaxSends[r]
       /\ entry[r] # "none" \/ sender[r] # "waiting" => sends[r] > 0
  /\ monitor \in {"starting", "checked", "watching", "ended"}
  /\ scan \in BOOLEAN
  /\ events \subseteq Handlers
  /\ work \in [Handlers -> States]
  /\ kills \in 0..MaxKills
  /\ served \subseteq Requests
  /\ slipped \subseteq Requests
  /\ events # {} => monitor = "watching"

\* A request the sibling no longer has, and that is gone here, was acted on:
\* neither a restart in the middle nor a second handler loses it.
ServedBeforeGone ==
  \A r \in Requests :
    sender[r] = "accepted" /\ entry[r] = "none" => r \in served

\* The service, once it watches, knows of every request in the directory: it
\* has a handler, or will have one, unless it slipped in between the look into
\* the directory and the watch.
NoneForgotten ==
  monitor = "watching" =>
    \A r \in Requests : entry[r] = "file" =>
      \/ scan
      \/ r \in slipped
      \/ \E h \in Handlers :
           /\ h[1] = r /\ h[2] \in {"found", "moved"}
           /\ h \in events \/ work[h].at # "none"

\* Every request that arrives is acted on and removed, unless it slipped in, no
\* watch could be created, or half a temporary file was left behind; services
\* that refuse, second handlers, temporary files that are found and the restarts
\* all this causes included.
RequestsServed ==
  \A r \in Requests :
    entry[r] = "file" ~> \/ entry[r] = "none"
                         \/ r \in slipped
                         \/ monitor = "ended"
                         \/ \E q \in Requests : litter[q] = "partial"

\* manager.hpp:168-169: the service is to "process the unprocessed notify
\* requests if any during startup".
PendingProcessed ==
  \A r \in Requests :
    monitor = "starting" /\ entry[r] = "file" ~>
      entry[r] = "none" \/ monitor = "ended"
=============================================================================
