------------------------------- MODULE Watcher -------------------------------
(***************************************************************************)
(* DataWatcher (src/data_watcher.cpp): inotify watches on a tree that      *)
(* other programs change, and the operations it returns for the events.    *)
(*                                                                         *)
(* The kernel keeps a mark on a file or directory, which follows it when   *)
(* it is renamed and goes when it is deleted; the watcher keeps a map from *)
(* watch descriptors to the paths they were added under, so a descriptor   *)
(* is that path and a number here.  Events name a descriptor and a child.  *)
(*                                                                         *)
(* A handler looks at the tree, adds watches and walks directories in many *)
(* system calls, and other programs run between them: what it still has to *)
(* do is its job, and each step of it is one look or one watch.  stop()    *)
(* does not come in between: the process has one thread.                   *)
(*                                                                         *)
(* A configured path that does not exist is waited for by a watch with     *)
(* another mask, an outer watch, on its nearest existing parent.  A path   *)
(* is the sequence of its names; <<>> is a directory that always exists.   *)
(* The code compares many paths as strings, see Starts.                    *)
(***************************************************************************)
EXTENDS SequencesExt

CONSTANTS
  Paths,        \* the paths other programs use
  Dirs,         \* those that are directories, when they exist
  HiddenNames,  \* names that start with "."
  NamePrefixes, \* pairs of names, the first a strict prefix of the second
  Configs,      \* [path, exclude, include, renames]; {} is no list
  Numbers,      \* of the descriptors one path can have at a time (bound)
  MaxWatches,   \* max_user_watches
  MaxQueue,     \* unread events other programs leave behind (bound)
  Patient,      \* the premise of PatientAbout
  IncludesStay  \* paths of an include list are not removed

Components == {Last(p) : p \in Paths \ {<<>>}}

\* What is on the way to a path is a directory.  A configuration has one list at
\* most, of paths in the configured directory (config/schema/schema.json).
ASSUME WatcherAssumption ==
  /\ <<>> \in Dirs /\ Dirs \subseteq Paths
  /\ Paths \subseteq Seq(Components)
  /\ NamePrefixes \subseteq {n \in Components \X Components : n[1] # n[2]}
  /\ \A p \in Paths : \A i \in 0..(Len(p) - 1) : SubSeq(p, 1, i) \in Dirs
  /\ \A c \in Configs :
       /\ c.path \in Paths \ {<<>>}
       /\ c.exclude \cup c.include \subseteq {p \in Paths : IsStrictPrefix(c.path, p)}
       /\ c.exclude = {} \/ c.include = {}
       /\ c.renames \subseteq {r \in (Paths \ Dirs) \X (Paths \ Dirs) : r[1] # r[2]}

Wds == [path : Paths, number : Numbers]

VARIABLES
  cfg,      \* the configuration: _dataPathToWatch and the two lists
  exists,   \* the paths that exist
  mark,     \* the kernel's marks: path -> [wd, mask]
  watches,  \* _watchDescriptors: the descriptors in the map
  queue,    \* events not read yet
  moved,    \* _movedFromDataOps: the renames, in place of their cookies
  monitor,  \* the constructor, and the coroutine that reads the events
  job,      \* what the constructor or the handler at work has still to do
  dirty,    \* history: data changed and in no operation returned since
  raced     \* history: a handler was overtaken by what it was about

tree == <<cfg, exists>>
watcher == <<mark, watches, moved>>
watcherVars == <<tree, watcher, queue, monitor, job, dirty, raced>>

-----------------------------------------------------------------------------
(* Paths and lists.                                                         *)

Files == Paths \ Dirs
Hidden(p) == p # <<>> /\ Last(p) \in HiddenNames
Existing(q) == {p \in exists : IsStrictPrefix(q, p)}

\* The string of q, without a slash at its end, starts that of p.
NameStarts(q, p) ==
  \/ IsPrefix(q, p)
  \/ /\ q # <<>> /\ Len(q) <= Len(p) /\ IsPrefix(Front(q), p)
     /\ <<Last(q), p[Len(q)]>> \in NamePrefixes

\* starts_with: the string of a directory ends in a slash.
Starts(q, p) == IF q \in Dirs THEN IsPrefix(q, p) ELSE NameStarts(q, p)

Within(p) == Starts(cfg.path, p)

isPathExcluded(p) ==
  \E x \in cfg.exclude :
    IF p \in Dirs THEN p \in exists /\ Starts(x, p) ELSE p = x

isPathIncluded(p) == \E x \in cfg.include : IsPrefix(x, p)

\* fs::equivalent is false for a path that does not exist.
isPathParentOfInclude(p) ==
  \E x \in cfg.include : IsPrefix(p, x) /\ ~(p = x /\ p \in exists)

\* The path of a directory ends in a slash: its parent_path is itself.
getExistingParentPath(p) ==
  CHOOSE q \in exists :
    /\ IsPrefix(q, p) /\ (p \in Dirs \/ q # p)
    /\ \A o \in exists : IsPrefix(o, p) /\ (p \in Dirs \/ o # p) => IsPrefix(o, q)

\* Data that is to be synced.  Hidden files are not.
IsData(p) ==
  /\ IsPrefix(cfg.path, p) /\ ~Hidden(p)
  /\ ~\E x \in cfg.exclude : IsPrefix(x, p)
  /\ cfg.include # {} => isPathIncluded(p)

-----------------------------------------------------------------------------
(* Jobs: what is still to be looked at, listed and watched, in that order    *)
(* from the last to the first, and what is done when nothing is left.       *)

NoJob ==
  [event   |-> <<>>,   \* the event in hand; the constructor has none
   parents |-> {},     \* found to exist: to be watched in place of a child
   open    |-> {},     \* the directory that is about to be listed
   visit   |-> {},     \* listed, and not visited yet
   look    |-> {},     \* of the include list, not looked at yet
   tree    |-> FALSE,  \* the walk is that of FollowTree
   drop    |-> {},     \* the watch that is removed at the end
   tidy    |-> FALSE,  \* removeIncludeParentWatches at the end
   made    |-> {},     \* a directory made: synced, unless a parent of an include
   op      |-> {}]     \* the path of the operation that is returned

Busy == monitor = "starting" \/ job.event # <<>>
Listed == job.parents \cup job.open \cup job.visit
Unhandled == job.event \o queue
Watching(paths) == {wd \in watches : wd.path \in paths}

createWatchers(p) ==
  IF p \notin exists
    THEN [NoJob EXCEPT !.parents = {getExistingParentPath(p)}]
  ELSE IF cfg.include # {} /\ p = cfg.path
    THEN [NoJob EXCEPT !.look = cfg.include]
  ELSE IF cfg.include # {} /\ ~isPathIncluded(p) /\ ~isPathParentOfInclude(p)
    THEN NoJob
  ELSE [NoJob EXCEPT !.visit = {p}]

-----------------------------------------------------------------------------
(* The handlers of processEvent.                                            *)

Base(e) == e.wd.path
Target(e) == Base(e) \o e.name

processCloseWrite(e) ==
  LET done == [NoJob EXCEPT !.op = {Target(e)}] IN
  IF Within(Base(e))
    THEN IF e.name # <<>> /\ cfg.include # {} /\ isPathIncluded(Target(e))
           THEN [done EXCEPT !.visit = {Target(e)}, !.tidy = TRUE]
           ELSE done
  ELSE IF Target(e) = cfg.path /\ cfg.path \in exists
    THEN [done EXCEPT !.visit = {cfg.path}, !.drop = {e.wd}]
  ELSE NoJob

\* The configured path has come nearer, or exists: the watch moves from parent
\* to child along the way, and everything inside is watched.
FollowTree(e) == [NoJob EXCEPT !.open = {Base(e)}, !.tree = TRUE]

CreateJob(e) ==
  LET path == Target(e) IN
  IF Within(path) /\ ~(path = cfg.path /\ path \in exists)
    THEN [createWatchers(path) EXCEPT !.tidy = (cfg.include # {})]
  ELSE IF IsPrefix(path, cfg.path) THEN FollowTree(e)
  ELSE NoJob

\* MUTANT of processCreate: a new directory is watched and not synced.
processCreate_NoSync(e) == CreateJob(e)

processCreate(e) == [CreateJob(e) EXCEPT !.made = {Target(e)}]

processMovedFrom(e) ==
  IF Hidden(Target(e)) THEN NoJob ELSE [NoJob EXCEPT !.op = {Target(e)}]

\* MUTANT of processMovedTo: only what was moved from a watched place is synced.
processMovedTo_KnownOnly(e) ==
  IF Within(Target(e)) /\ e.cookie \in moved /\ ~Hidden(e.cookie[1])
    THEN [NoJob EXCEPT !.op = {Target(e)}] ELSE NoJob

\* A file renamed from a hidden one was updated by rsync.
processMovedTo(e) ==
  IF Within(Target(e)) /\ ~(e.cookie \in moved /\ Hidden(e.cookie[1]))
    THEN [NoJob EXCEPT !.op = {Target(e)}] ELSE NoJob

\* MUTANT of processDeleteSelf: no parent is watched instead.
processDeleteSelf_NoParent(e) ==
  [NoJob EXCEPT !.drop = {e.wd}, !.op = {Base(e)}]

\* MUTANT of processDeleteSelf: the entry of the map stays.
processDeleteSelf_EntryStays(e) ==
  [NoJob EXCEPT
     !.parents = IF Starts(Base(e), cfg.path)
                   THEN {getExistingParentPath(Base(e))} ELSE {},
     !.op = {Base(e)}]

processDeleteSelf(e) ==
  [NoJob EXCEPT
     !.parents = IF Starts(Base(e), cfg.path)
                   THEN {getExistingParentPath(Base(e))} ELSE {},
     !.drop = {e.wd},
     !.op = {Base(e)}]

\* MUTANT of processDelete: the watch of a directory goes with the event of its
\* parent.
processDelete_DropsChild(e) ==
  IF e.kind = "delete_dir" THEN [NoJob EXCEPT !.drop = Watching({Target(e)})]
                           ELSE [NoJob EXCEPT !.op = {Target(e)}]

\* A directory reports itself.
processDelete(e) ==
  IF e.kind = "delete_dir" THEN NoJob ELSE [NoJob EXCEPT !.op = {Target(e)}]

\* Neither list is consulted when there is none.
Unlisted(p) ==
  \/ isPathExcluded(p)
  \/ cfg.include # {} /\ ~isPathIncluded(p) /\ ~isPathParentOfInclude(p)

processEvent(e) ==
  IF Unlisted(Target(e)) THEN NoJob ELSE
  CASE e.kind = "close_write"   -> processCloseWrite(e)
    [] e.kind = "make_dir"      -> processCreate(e)
    [] e.kind = "moved_from"    -> processMovedFrom(e)
    [] e.kind = "moved_to"      -> processMovedTo(e)
    [] e.kind = "delete_self"   -> processDeleteSelf(e)
    [] e.kind \in {"delete", "delete_dir"} -> processDelete(e)
    [] OTHER                    -> NoJob

-----------------------------------------------------------------------------
(* addToWatchList and removeWatch.                                          *)

\* The kernel does not give a descriptor again while events name it.
FreeWds(p) == {wd \in Wds : /\ wd.path = p /\ wd \notin watches
                            /\ \A i \in DOMAIN Unhandled : Unhandled[i].wd # wd}

\* inotify_add_watch fails for a path that is gone, or beyond the limit.
CanAdd(p) ==
  /\ p \in exists
  /\ p \in DOMAIN mark \/ (Cardinality(DOMAIN mark) < MaxWatches /\ FreeWds(p) # {})

\* What has a mark keeps its descriptor, and takes the new mask.
WdFor(p) ==
  IF p \in DOMAIN mark THEN mark[p].wd ELSE CHOOSE wd \in FreeWds(p) : TRUE

\* MUTANT of Unmarked: a watch leaves the map and not the kernel.
Unmarked_KernelKeeps(marks, drop) == marks

Unmarked(marks, drop) ==
  [p \in {q \in DOMAIN marks : marks[q].wd \notin drop} |-> marks[p]]

addToWatchList(p, mask, drop) ==
  LET wd == WdFor(p)
      added == [q \in DOMAIN mark \cup {p} |->
                  IF q = p THEN [wd |-> wd, mask |-> mask] ELSE mark[q]] IN
  /\ mark' = Unmarked(added, drop)
  /\ watches' = (watches \cup {wd}) \ drop

removeWatch(drop) ==
  /\ mark' = Unmarked(mark, drop)
  /\ watches' = watches \ drop

\* Without watches nothing is promised any more.
Release ==
  mark' = <<>> /\ watches' = {} /\ job' = NoJob /\ dirty' = {} /\ raced' = FALSE

-----------------------------------------------------------------------------
(* The coroutine.                                                           *)

\* The exception leaves the constructor or monitorDataToSync, which destroys
\* the watcher.
Fail == monitor' = "failed" /\ Release /\ moved' = {} /\ UNCHANGED tree

Skipped(e) ==
  e.name # <<>> /\ e.name[1] \in HiddenNames /\ e.kind # "moved_from"

Consume == queue' = Tail(queue)

\* MUTANT of MovedAfter: renames are kept by descriptor.
MovedAfter_ByWd(e) ==
  IF e.kind = "moved_from" /\ Within(Target(e)) THEN moved \cup {<<e.wd>>}
                                                ELSE moved

\* _movedFromDataOps; the entry of a rename from a hidden name stays.
MovedAfter(e) ==
  IF e.kind = "moved_from" /\ Within(Target(e)) THEN moved \cup {e.cookie}
  ELSE IF e.kind = "moved_to" /\ Within(Target(e)) /\ ~Hidden(e.cookie[1])
    THEN moved \ {e.cookie}
  ELSE moved

addDataWatcher ==
  /\ monitor = "new"
  /\ monitor' = "starting"
  /\ job' = createWatchers(cfg.path)
  /\ UNCHANGED <<tree, watcher, queue, dirty, raced>>

\* inotify_init1 may fail.
WatcherFails ==
  /\ monitor = "new"
  /\ Fail
  /\ UNCHANGED queue

SkipEvent ==
  /\ monitor = "running" /\ ~Busy /\ queue # <<>> /\ Skipped(Head(queue))
  /\ Consume
  /\ UNCHANGED <<tree, watcher, monitor, job, dirty, raced>>

\* The map's at() throws for a watch that was removed.
ReadEvent ==
  /\ monitor = "running" /\ ~Busy /\ queue # <<>> /\ ~Skipped(Head(queue))
  /\ Consume
  /\ LET e == Head(queue) IN
     IF e.wd \in watches
       THEN /\ job' = [processEvent(e) EXCEPT !.event = <<e>>]
            /\ moved' = IF Unlisted(Target(e)) THEN moved ELSE MovedAfter(e)
            /\ UNCHANGED <<tree, mark, watches, monitor, dirty, raced>>
       ELSE Fail

(* The steps of the job at hand.                                            *)

stepVars == <<tree, moved, queue, monitor, dirty, raced>>

\* The existing parent that was found is watched.
WatchParent ==
  \E p \in job.parents :
    /\ CanAdd(p)
    /\ addToWatchList(p, "outer", {})
    /\ job' = [job EXCEPT !.parents = @ \ {p}]
    /\ UNCHANGED stepVars

\* The watch that is due for what a walk has listed.
MaskFor(p) ==
  IF ~job.tree THEN IF isPathExcluded(p) THEN "none" ELSE "full"
  ELSE IF Unlisted(p) THEN "none"
  ELSE IF p = cfg.path THEN "full"
  ELSE IF NameStarts(p, cfg.path) THEN "outer"
  ELSE IF Within(p) THEN "full" ELSE "none"

\* A directory of the walk is read: what it holds now is to be visited.
ListDirectory ==
  \E d \in job.open \cap exists :
    /\ job' = [job EXCEPT
                 !.open = {},
                 !.visit = @ \cup {p \in exists \ {<<>>} :
                                    Front(p) = d /\ (p \in Dirs \/ job.tree)}]
    /\ UNCHANGED <<stepVars, mark, watches>>

\* FollowTree removes a watch on the parent with what is on the way to the path.
PassedBy(p) ==
  IF job.tree /\ MaskFor(p) # "none" /\ NameStarts(p, cfg.path)
    THEN Watching({Front(p)}) ELSE {}

\* What was listed is watched if that is due, and a directory opened next.
Visit ==
  \E p \in job.visit :
    /\ job.open = {}
    /\ IF MaskFor(p) = "none" THEN UNCHANGED <<mark, watches>>
       ELSE /\ CanAdd(p)
            /\ \E drop \in {{wd} : wd \in PassedBy(p)} \cup
                           {d \in {{}} : PassedBy(p) = {}} :
                 addToWatchList(p, MaskFor(p), drop)
    /\ job' = [job EXCEPT !.visit = @ \ {p}, !.open = {p} \cap Dirs]
    /\ UNCHANGED stepVars

\* On startup, with an include list: each of its paths, or its parent.
LookAtInclude ==
  \E x \in job.look :
    /\ Listed = {}
    /\ job' = [job EXCEPT
                 !.look = @ \ {x},
                 !.visit = {x} \cap exists,
                 !.parents = {getExistingParentPath(x) : o \in {x} \ exists}]
    /\ UNCHANGED <<stepVars, mark, watches>>

\* removeIncludeParentWatches: once every included path exists and is watched,
\* the watches on their parents go.
IncludeParents ==
  IF job.tidy /\ cfg.include \subseteq exists \cap {wd.path : wd \in watches}
    THEN {wd \in watches : isPathParentOfInclude(wd.path)} ELSE {}

\* The constructor or the handler returns; a directory on the way to an included
\* path is in no operation.
Return ==
  LET op == job.op \cup {p \in job.made : ~isPathParentOfInclude(p)} IN
  /\ Busy /\ Listed = {} /\ job.look = {}
  /\ removeWatch(job.drop \cup IncludeParents)
  /\ dirty' = {p \in dirty : ~\E o \in op : IsPrefix(o, p)}
  /\ monitor' = "running"
  /\ job' = NoJob
  /\ UNCHANGED <<tree, moved, queue, raced>>

\* What is to be watched or read next is gone, or cannot be watched.
StepFails ==
  /\ \/ \E p \in job.parents : ~CanAdd(p)
     \/ ~(job.open \subseteq exists)
     \/ job.open = {} /\ \E p \in job.visit : MaskFor(p) # "none" /\ ~CanAdd(p)
  /\ Fail
  /\ UNCHANGED queue

HandlerStep ==
  \/ WatchParent \/ ListDirectory \/ Visit \/ LookAtInclude \/ Return
  \/ StepFails

\* Synchronization is disabled: unread events stay behind.
stop ==
  /\ monitor = "running" /\ ~Busy
  /\ monitor' = "stopped"
  /\ Release
  /\ UNCHANGED <<tree, moved, queue>>

\* The removed watches wake the coroutine, which reads once more: as many of
\* the unread events as its buffer takes.
ReadAfterStop ==
  /\ monitor = "stopped"
  /\ queue' = <<>>
  /\ \E n \in (IF queue = <<>> THEN 0 ELSE 1)..Len(queue) :
       monitor' = IF \E i \in 1..n : ~Skipped(queue[i]) THEN "failed" ELSE "ended"
  /\ moved' = {}
  /\ UNCHANGED <<tree, mark, watches, job, dirty, raced>>

-----------------------------------------------------------------------------
(* Other programs, and the kernel that reports what they do.                *)

Emits(mask, kind) ==
  \/ kind \in {"close_write", "delete_self"}
  \/ kind \in {"moved_from", "moved_to"} /\ mask = "full"
  \/ kind \in {"create", "make_dir", "delete", "delete_dir"}
     /\ (mask = "outer" \/ cfg.path \in Dirs)

OnMark(p, name, kind, cookie) ==
  IF p \in DOMAIN mark /\ Emits(mark[p].mask, kind)
    THEN <<[wd |-> mark[p].wd, name |-> name, kind |-> kind, cookie |-> cookie]>>
    ELSE <<>>
InDir(p, kind, cookie) == OnMark(Front(p), <<Last(p)>>, kind, cookie)
OnSelf(p, kind) == OnMark(p, <<>>, kind, <<>>)

\* The watch on p goes as soon as what was waited for is there.
Passing(p) == mark[p].mask = "outer" \/ isPathParentOfInclude(p)

\* A change of p is too early while the event e is not handled: of a directory
\* or an included file that e is about, or of what e's watch waits for.
TooEarly(p, e) ==
  \/ (p \in Dirs \/ isPathIncluded(p)) /\ Target(e) = p
  \/ Front(p) \in DOMAIN mark /\ Passing(Front(p)) /\ e.wd = mark[Front(p)].wd
  \/ isPathParentOfInclude(Target(e)) /\ IsPrefix(Target(e), p)

\* Other programs leave the watcher time to read the events.
PatientAbout(p) ==
  Patient => \A i \in DOMAIN queue : ~TooEarly(p, queue[i])

\* Patient programs may still overtake the handler at work: with a change that
\* is too early for its event, below a watch that FollowTree may be about to move
\* on, or on the way to a path below a parent that was found and not watched yet.
Overtakes(p) ==
  \/ \E i \in DOMAIN job.event : TooEarly(p, job.event[i])
  \/ job.tree /\ Front(p) \in DOMAIN mark /\ Passing(Front(p))
  \/ /\ \E t \in {cfg.path} \cup cfg.include : IsPrefix(p, t)
     /\ \E q \in job.parents : IsPrefix(q, p)

Changes(paths, events) ==
  /\ monitor \in {"starting", "running"}
  /\ Len(Unhandled) <= MaxQueue
  /\ \A p \in paths : PatientAbout(p)
  /\ queue' = queue \o events
  /\ raced' = (raced \/ \E p \in paths : Overtakes(p))
  /\ UNCHANGED <<cfg, watches, moved, monitor, job>>

\* What changes while the watcher is created counts as changed before.
Change(paths) == dirty \cup {p \in paths : monitor = "running" /\ IsData(p)}

Write(p) ==
  /\ p \in Files /\ Front(p) \in exists
  /\ Changes({p}, (IF p \in exists THEN <<>> ELSE InDir(p, "create", <<>>))
                    \o InDir(p, "close_write", <<>>) \o OnSelf(p, "close_write"))
  /\ exists' = exists \cup {p}
  /\ dirty' = Change({p})
  /\ UNCHANGED mark

MakeDir(p) ==
  /\ p \in Dirs \ exists /\ Front(p) \in exists
  /\ Changes({p}, InDir(p, "make_dir", <<>>))
  /\ exists' = exists \cup {p}
  /\ dirty' = Change({p})
  /\ UNCHANGED mark

\* The kernel drops the mark.
Delete(p) ==
  /\ p \in exists \ {<<>>} /\ Existing(p) = {}
  /\ IncludesStay => p \notin cfg.include
  /\ LET own == OnSelf(p, "delete_self")
         inDir == InDir(p, IF p \in Dirs THEN "delete_dir" ELSE "delete", <<>>) IN
     Changes({p}, own \o inDir) \/ Changes({p}, inDir \o own)
  /\ exists' = exists \ {p}
  /\ mark' = [q \in DOMAIN mark \ {p} |-> mark[q]]
  /\ dirty' = Change({p})

\* The mark goes with what is renamed, and that of what it replaces goes.  A
\* rename from a hidden name is rsync's update from the other BMC.
Rename(p, q) ==
  /\ <<p, q>> \in cfg.renames /\ p \in exists /\ Front(q) \in exists
  /\ Existing(p) \cup Existing(q) = {}
  /\ Changes({p, q}, InDir(p, "moved_from", <<p, q>>)
                        \o InDir(q, "moved_to", <<p, q>>) \o OnSelf(q, "delete_self"))
  /\ exists' = (exists \ {p}) \cup {q}
  /\ mark' = [o \in {o \in exists' : (IF o = q THEN p ELSE o) \in DOMAIN mark} |->
                mark[IF o = q THEN p ELSE o]]
  /\ dirty' = IF Hidden(p) THEN dirty
              ELSE Change({p, q})

-----------------------------------------------------------------------------
Init ==
  /\ cfg \in Configs
  /\ exists \in {s \in SUBSET Paths :
                   <<>> \in s /\ \A p \in s, q \in Paths : IsPrefix(q, p) => q \in s}
  /\ watches = {} /\ mark = <<>> /\ queue = <<>> /\ moved = {}
  /\ monitor = "new" /\ job = NoJob /\ dirty = {} /\ raced = FALSE

Next ==
  \/ addDataWatcher \/ WatcherFails
  \/ SkipEvent \/ ReadEvent \/ HandlerStep
  \/ stop \/ ReadAfterStop
  \/ \E p \in Paths : Write(p) \/ MakeDir(p) \/ Delete(p)
  \/ \E p, q \in Paths : Rename(p, q)

Spec == Init /\ [][Next]_watcherVars

\* The event loop resumes the coroutine when there is something to read.
FairSpec == Spec /\ WF_watcherVars(SkipEvent \/ ReadEvent \/ HandlerStep)

-----------------------------------------------------------------------------
(* Properties.                                                              *)

Kinds == {"close_write", "create", "make_dir", "delete", "delete_dir",
          "delete_self", "moved_from", "moved_to"}
Names == {<<>>} \cup {<<Last(p)>> : p \in Paths \ {<<>>}}

Event ==
  {e \in [wd : Wds, name : Names, kind : Kinds,
          cookie : {<<>>} \cup (Paths \X Paths)] :
     e.kind \in {"moved_from", "moved_to"} => e.cookie # <<>>}

Jobs ==
  [event : Seq(Event), parents : SUBSET Paths, open : SUBSET Paths,
   visit : SUBSET Paths, look : SUBSET Paths, tree : BOOLEAN,
   drop : SUBSET Wds, tidy : BOOLEAN, made : SUBSET Paths, op : SUBSET Paths]

\* The types of the tree, the kernel's marks, the map, the events and the job.
WatcherTypeOK ==
  /\ cfg \in Configs
  /\ exists \subseteq Paths /\ <<>> \in exists
  /\ DOMAIN mark \subseteq exists
  /\ \A p \in DOMAIN mark : mark[p] \in [wd : Wds, mask : {"full", "outer"}]
  /\ watches \subseteq Wds
  /\ queue \in Seq(Event)
  /\ moved \subseteq Paths \X Paths
  /\ monitor \in {"new", "starting", "running", "stopped", "ended", "failed"}
  /\ job \in Jobs
  /\ dirty \subseteq Paths
  /\ raced \in BOOLEAN

\* The map and the kernel agree, whatever was deleted, renamed, added twice or
\* removed: no two objects share a descriptor, and every mark has its entry, else
\* its first event would end the monitor.
MapMatchesKernel ==
  /\ \A p, q \in DOMAIN mark : mark[p].wd = mark[q].wd => p = q
  /\ \A p \in DOMAIN mark : mark[p].wd \in watches

\* No entry outlives what it was for: one without a mark has the event unread
\* that removes it, also when a rename replaced the file, or another was made in
\* its place.  With an include list, a directory made in the parent of an included
\* path while the handler walks that parent has a watch whose events are ignored.
NoStaleEntry ==
  \A wd \in watches :
    \/ \E p \in DOMAIN mark : mark[p].wd = wd
    \/ \E i \in DOMAIN Unhandled :
         Unhandled[i].wd = wd /\ Unhandled[i].kind = "delete_self"
    \/ raced /\ cfg.include # {}

\* Handling an event never ends the monitor, which would leave the path without
\* synchronization: no watch is removed while there are events of it to handle,
\* and what is to be watched is there, unless another program overtook the
\* handler, or removed what it had listed.
NeverFails ==
  [][monitor = "running" /\ ~raced /\ Listed \subseteq exists =>
       monitor' # "failed"]_watcherVars

\* The same with no exception, as the callers expect (src/data_watcher.hpp:319:
\* an event is either to be handled or not).
GoesOn == [][monitor = "running" => monitor' # "failed"]_watcherVars

Settled == monitor = "running" /\ Unhandled = <<>>

\* Once every event is handled, every change of the data is in an operation that
\* was returned: also one made before the watches it needed were there.
NoLostChange == Settled /\ ~raced => dirty = {}

Watched(p, mask) ==
  /\ p \in DOMAIN mark /\ mark[p].mask = mask
  /\ mark[p].wd.path = p

\* A directory with the directories in it that are not excluded.
Subdirs(t) ==
  {p \in exists \cap Dirs :
     IsPrefix(t, p) /\ ~\E x \in cfg.exclude : IsPrefix(x, p)}

Targets == IF cfg.include = {} THEN {cfg.path} ELSE cfg.include

\* Once every event is read the next change will be seen: an existing directory
\* has a full watch on itself and on each directory in it, under its own name,
\* a file on itself or its directory, and what does not exist is waited for on
\* the nearest existing parent.
AllWatched ==
  Settled /\ ~raced =>
    \A t \in Targets :
      IF t \in exists \cap Dirs
        THEN \A p \in Subdirs(t) : Watched(p, "full")
        ELSE \E p \in {t, getExistingParentPath(t)} :
               Watched(p, "full") \/ Watched(p, "outer")

\* A change is in an operation sooner or later, if the monitor goes on.
ChangesReported ==
  \A p \in Paths : (p \in dirty) ~> (p \notin dirty \/ monitor # "running" \/ raced)
=============================================================================
