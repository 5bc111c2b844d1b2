---------------------------- MODULE WatcherProofs -----------------------------
(***************************************************************************)
(* DataWatcher, for any tree, configuration, limit and number of unread    *)
(* events, and with other programs at work between any two steps of a      *)
(* handler: its descriptors, and the entries of its map.                   *)
(***************************************************************************)
EXTENDS Watcher, SequenceTheorems, FiniteSetTheorems, NaturalsInduction,
        WellFoundedInduction, TLAPS

\* The kernel's marks, the map, and that they agree.
MarksInv ==
  /\ <<>> \in exists /\ exists \subseteq Paths
  /\ DOMAIN mark \subseteq exists
  /\ \A p \in DOMAIN mark : mark[p] \in [wd : Wds, mask : {"full", "outer"}]
  /\ watches \subseteq Wds
  /\ MapMatchesKernel

WatcherInv == WatcherTypeOK /\ MarksInv

\* There is no mark before the first watch is added.
LEMMA NoMarks == DOMAIN <<>> = {}
OBVIOUS

\* An empty queue has the type of one.
LEMMA NoEvents == <<>> \in Seq(Event)
BY EmptySeq

-----------------------------------------------------------------------------
(* The map of descriptors.                                                 *)

\* Without watches the map and the kernel agree.
LEMMA ReleaseMarks ==
  ASSUME MarksInv, Release, exists' = exists
  PROVE  MarksInv'
BY NoMarks DEF MarksInv, MapMatchesKernel, Release, Wds

\* An object without a mark gets a descriptor that is in neither the map nor the
\* kernel nor any event; one that has a mark keeps its own.
LEMMA WdForIs ==
  ASSUME NEW p, CanAdd(p)
  PROVE  /\ p \in DOMAIN mark => WdFor(p) = mark[p].wd
         /\ p \notin DOMAIN mark =>
              /\ WdFor(p) \in Wds \ watches /\ WdFor(p).path = p
              /\ \A i \in DOMAIN Unhandled : Unhandled[i].wd # WdFor(p)
<1>1. ASSUME p \notin DOMAIN mark
      PROVE  WdFor(p) \in FreeWds(p)
  <2>1. FreeWds(p) # {} /\ WdFor(p) = CHOOSE wd \in FreeWds(p) : TRUE
    BY <1>1 DEF CanAdd, WdFor
  <2>2. QED
    BY <2>1
<1>2. QED
  BY <1>1 DEF WdFor, FreeWds

\* A watch that is added, with another removed at the same time.
LEMMA AddIs ==
  ASSUME NEW p, NEW mask, NEW drop, addToWatchList(p, mask, drop)
  PROVE  /\ \A q : q \in DOMAIN mark' <=>
              \/ q = p /\ WdFor(p) \notin drop
              \/ q # p /\ q \in DOMAIN mark /\ mark[q].wd \notin drop
         /\ p \in DOMAIN mark' => mark'[p] = [wd |-> WdFor(p), mask |-> mask]
         /\ \A q \in DOMAIN mark' : q # p => mark'[q] = mark[q]
         /\ watches' = (watches \cup {WdFor(p)}) \ drop
<1> DEFINE added == [q \in DOMAIN mark \cup {p} |->
                       IF q = p THEN [wd |-> WdFor(p), mask |-> mask] ELSE mark[q]]
<1>1. mark' = Unmarked(added, drop) /\ watches' = (watches \cup {WdFor(p)}) \ drop
  BY DEF addToWatchList
<1>2. /\ DOMAIN added = DOMAIN mark \cup {p}
      /\ \A q \in DOMAIN added :
           /\ added[q] = IF q = p THEN [wd |-> WdFor(p), mask |-> mask] ELSE mark[q]
           /\ added[q].wd = IF q = p THEN WdFor(p) ELSE mark[q].wd
  OBVIOUS
<1> HIDE DEF added
<1>3. /\ DOMAIN mark' = {q \in DOMAIN added : added[q].wd \notin drop}
      /\ \A q \in DOMAIN mark' : mark'[q] = added[q]
  BY <1>1 DEF Unmarked
<1>4. QED
  BY <1>1, <1>2, <1>3

\* Adding and removing watches keeps the map and the kernel in step.
LEMMA AddMarks ==
  ASSUME MarksInv, NEW p, NEW mask \in {"full", "outer"}, NEW drop, CanAdd(p),
         addToWatchList(p, mask, drop), exists' = exists
  PROVE  MarksInv'
<1>1. p \in exists /\ WdFor(p) \in Wds
  BY WdForIs DEF CanAdd, MarksInv
<1>2. \A q \in DOMAIN mark : q # p => mark[q].wd # WdFor(p)
  BY WdForIs DEF MarksInv, MapMatchesKernel
<1>3. /\ \A q : q \in DOMAIN mark' <=>
           \/ q = p /\ WdFor(p) \notin drop
           \/ q # p /\ q \in DOMAIN mark /\ mark[q].wd \notin drop
      /\ p \in DOMAIN mark' => mark'[p] = [wd |-> WdFor(p), mask |-> mask]
      /\ \A q \in DOMAIN mark' : q # p => mark'[q] = mark[q]
      /\ watches' = (watches \cup {WdFor(p)}) \ drop
  BY AddIs, Zenon
<1>4. /\ DOMAIN mark' \subseteq DOMAIN mark \cup {p} /\ watches' \subseteq Wds
      /\ \A q \in DOMAIN mark' :
           mark'[q].wd = (IF q = p THEN WdFor(p) ELSE mark[q].wd)
      /\ \A q \in DOMAIN mark' : mark'[q] \in [wd : Wds, mask : {"full", "outer"}]
  BY <1>1, <1>3 DEF MarksInv
<1>5. MapMatchesKernel'
  <2>1. \A q, r \in DOMAIN mark' : mark'[q].wd = mark'[r].wd => q = r
    BY <1>2, <1>4 DEF MarksInv, MapMatchesKernel
  <2>2. \A q \in DOMAIN mark' : mark'[q].wd \in watches'
    <3>1. \A q \in DOMAIN mark' : mark'[q].wd \notin drop
      BY <1>3, <1>4
    <3>2. QED
      BY <1>3, <1>4, <3>1 DEF MarksInv, MapMatchesKernel
  <2>3. QED
    BY <2>1, <2>2 DEF MapMatchesKernel
<1>6. QED
  BY <1>1, <1>4, <1>5 DEF MarksInv, Wds

\* What keeps its mark when watches are removed.
LEMMA RemoveIs ==
  ASSUME NEW drop, removeWatch(drop)
  PROVE  /\ DOMAIN mark' = {p \in DOMAIN mark : mark[p].wd \notin drop}
         /\ \A p \in DOMAIN mark' : mark'[p] = mark[p]
         /\ watches' = watches \ drop
<1>1. mark' = [p \in {q \in DOMAIN mark : mark[q].wd \notin drop} |-> mark[p]]
  BY DEF removeWatch, Unmarked
<1>2. QED
  BY <1>1 DEF removeWatch

LEMMA RemoveMarks ==
  ASSUME MarksInv, NEW drop, removeWatch(drop), exists' = exists
  PROVE  MarksInv'
<1>1. /\ DOMAIN mark' = {p \in DOMAIN mark : mark[p].wd \notin drop}
      /\ \A p \in DOMAIN mark' : mark'[p] = mark[p]
      /\ watches' = watches \ drop
  BY RemoveIs, Zenon
<1>2. QED
  BY <1>1 DEF MarksInv, MapMatchesKernel, Wds

\* What is renamed takes its mark along, and what it replaces loses its own.
LEMMA RenameMarks ==
  ASSUME WatcherInv, NEW p \in Paths, NEW q \in Paths, Rename(p, q)
  PROVE  MarksInv'
<1> DEFINE Old(o) == IF o = q THEN p ELSE o
<1>1. p # <<>> /\ q # <<>> /\ p \in exists
  BY WatcherAssumption DEF Rename, WatcherInv, WatcherTypeOK
<1>2. exists' = (exists \ {p}) \cup {q} /\ watches' = watches
  BY DEF Rename, Changes
<1>3. /\ DOMAIN mark' = {o \in exists' : Old(o) \in DOMAIN mark}
      /\ \A o \in DOMAIN mark' : mark'[o] = mark[Old(o)]
  BY DEF Rename
<1>4. \A o1, o2 \in DOMAIN mark' : Old(o1) = Old(o2) => o1 = o2
  BY <1>2, <1>3
<1>5. MapMatchesKernel'
  BY <1>2, <1>3, <1>4 DEF WatcherInv, MarksInv, MapMatchesKernel
<1>6. QED
  BY <1>1, <1>2, <1>3, <1>5 DEF WatcherInv, MarksInv, Wds

\* The mask of what a walk watches.
LEMMA MaskIs ==
  ASSUME NEW p, MaskFor(p) # "none"
  PROVE  MaskFor(p) \in {"full", "outer"}
BY DEF MaskFor

\* Nothing that happens to the tree or to the watches tears the map and the
\* kernel apart.
LEMMA NextMarks == WatcherInv /\ [Next]_watcherVars => MarksInv'
<1> SUFFICES ASSUME WatcherInv, [Next]_watcherVars
             PROVE  MarksInv'
  OBVIOUS
<1>0. MarksInv
  BY DEF WatcherInv
<1>1. ASSUME UNCHANGED <<exists, mark, watches>> PROVE MarksInv'
  BY <1>0, <1>1 DEF MarksInv, MapMatchesKernel, Wds
<1>2. CASE addDataWatcher
  BY <1>1, <1>2 DEF addDataWatcher, tree, watcher
<1>3. CASE WatcherFails \/ StepFails
  BY <1>0, <1>3, ReleaseMarks DEF WatcherFails, StepFails, Fail, tree
<1>4. CASE SkipEvent
  BY <1>1, <1>4 DEF SkipEvent, tree, watcher
<1>5. CASE ReadEvent
  BY <1>0, <1>1, <1>5, ReleaseMarks DEF ReadEvent, Fail, tree
<1>6. CASE WatchParent
  BY <1>0, <1>6, AddMarks DEF WatchParent, stepVars, tree
<1>7. CASE ListDirectory \/ LookAtInclude
  BY <1>1, <1>7 DEF ListDirectory, LookAtInclude, stepVars, tree
<1>8. CASE Visit
  <2>1. exists' = exists
    BY <1>8 DEF Visit, stepVars, tree
  <2>2. PICK p \in job.visit :
          \/ UNCHANGED <<mark, watches>>
          \/ /\ MaskFor(p) # "none" /\ CanAdd(p)
             /\ \E drop : addToWatchList(p, MaskFor(p), drop)
    BY <1>8 DEF Visit
  <2>3. QED
    BY <1>0, <1>1, <2>1, <2>2, MaskIs, AddMarks
<1>9. CASE Return
  BY <1>0, <1>9, RemoveMarks DEF Return, tree
<1>10. CASE stop
  BY <1>0, <1>10, ReleaseMarks DEF stop, tree
<1>11. CASE ReadAfterStop
  BY <1>1, <1>11 DEF ReadAfterStop, tree
<1>12. ASSUME NEW p \in Paths, Write(p) \/ MakeDir(p) PROVE MarksInv'
  BY <1>0, <1>12 DEF Write, MakeDir, Changes, MarksInv, MapMatchesKernel, Wds
<1>13. ASSUME NEW p \in Paths, Delete(p) PROVE MarksInv'
  BY <1>0, <1>13 DEF Delete, Changes, MarksInv, MapMatchesKernel, Wds
<1>14. ASSUME NEW p \in Paths, NEW q \in Paths, Rename(p, q) PROVE MarksInv'
  BY <1>14, RenameMarks
<1>15. CASE UNCHANGED watcherVars
  BY <1>1, <1>15 DEF watcherVars, tree, watcher
<1>16. QED
  BY <1>2, <1>3, <1>4, <1>5, <1>6, <1>7, <1>8, <1>9, <1>10, <1>11, <1>12, <1>13,
     <1>14, <1>15 DEF Next, HandlerStep

-----------------------------------------------------------------------------
(* The events.                                                             *)

\* What the kernel reports about an object with a mark.
LEMMA OnMarkType ==
  ASSUME WatcherInv, NEW p, NEW name \in Names, NEW kind \in Kinds,
         NEW cookie \in {<<>>} \cup (Paths \X Paths),
         kind \in {"moved_from", "moved_to"} => cookie # <<>>
  PROVE  OnMark(p, name, kind, cookie) \in Seq(Event)
<1> DEFINE event == [wd |-> mark[p].wd, name |-> name, kind |-> kind,
                     cookie |-> cookie]
<1>1. CASE p \in DOMAIN mark /\ Emits(mark[p].mask, kind)
  <2>1. mark[p].wd \in Wds
    BY <1>1 DEF WatcherInv, MarksInv
  <2>2. event \in Event
    BY <2>1 DEF Event
  <2>3. <<event>> \in Seq(Event)
    BY <2>2
  <2>4. QED
    BY <1>1, <2>3 DEF OnMark
<1>2. CASE ~(p \in DOMAIN mark /\ Emits(mark[p].mask, kind))
  BY <1>2, NoEvents DEF OnMark
<1>3. QED
  BY <1>1, <1>2

\* What a directory reports of something in it, and an object of itself.
LEMMA InDirType ==
  ASSUME WatcherInv, NEW p \in Paths \ {<<>>}, NEW kind \in Kinds,
         NEW cookie \in {<<>>} \cup (Paths \X Paths),
         kind \in {"moved_from", "moved_to"} => cookie # <<>>
  PROVE  InDir(p, kind, cookie) \in Seq(Event)
<1>1. <<Last(p)>> \in Names
  BY DEF Names
<1>2. QED
  BY <1>1, OnMarkType DEF InDir

LEMMA OnSelfType ==
  ASSUME WatcherInv, NEW p, NEW kind \in {"close_write", "delete_self"}
  PROVE  OnSelf(p, kind) \in Seq(Event)
BY OnMarkType DEF OnSelf, Names, Kinds

\* Reported events are added to those unread.
LEMMA ChangesType ==
  ASSUME WatcherInv, NEW paths, NEW events \in Seq(Event), Changes(paths, events)
  PROVE  /\ queue' \in Seq(Event) /\ raced' \in BOOLEAN
         /\ UNCHANGED <<cfg, moved, monitor, job>>
<1>1. queue \in Seq(Event) /\ raced \in BOOLEAN
  BY DEF WatcherInv, WatcherTypeOK
<1>2. queue' \in Seq(Event)
  BY <1>1, ConcatProperties DEF Changes
<1>3. QED
  BY <1>1, <1>2 DEF Changes

\* What an event names, when there is one.
LEMMA HeadType ==
  ASSUME WatcherInv, queue # <<>>
  PROVE  Head(queue) \in Event /\ Tail(queue) \in Seq(Event)
BY HeadTailProperties DEF WatcherInv, WatcherTypeOK

-----------------------------------------------------------------------------
(* Types.                                                                  *)

\* Every step keeps the types of all but the job.
LEMMA NextTypes ==
  ASSUME WatcherInv, [Next]_watcherVars
  PROVE  /\ cfg' \in Configs
         /\ queue' \in Seq(Event)
         /\ moved' \subseteq Paths \X Paths
         /\ monitor' \in {"new", "starting", "running", "stopped", "ended", "failed"}
         /\ dirty' \subseteq Paths
         /\ raced' \in BOOLEAN
<1> DEFINE Rest == /\ cfg' \in Configs
                   /\ queue' \in Seq(Event)
                   /\ moved' \subseteq Paths \X Paths
                   /\ monitor' \in {"new", "starting", "running", "stopped", "ended",
                                    "failed"}
                   /\ dirty' \subseteq Paths
                   /\ raced' \in BOOLEAN
<1> SUFFICES Rest
  OBVIOUS
<1>1. ASSUME UNCHANGED <<tree, moved, queue, dirty, raced>>,
             monitor' \in {"new", "starting", "running", "stopped", "ended", "failed"}
      PROVE  Rest
  BY <1>1 DEF tree, WatcherInv, WatcherTypeOK
<1>2. ASSUME Fail, queue' \in Seq(Event) PROVE Rest
  BY <1>2 DEF Fail, Release, tree, WatcherInv, WatcherTypeOK
<1>3. CASE addDataWatcher
  BY <1>1, <1>3 DEF addDataWatcher, watcher
<1>4. CASE WatcherFails \/ StepFails
  BY <1>2, <1>4 DEF WatcherFails, StepFails, WatcherInv, WatcherTypeOK
<1>5. CASE SkipEvent
  BY <1>5, HeadType
     DEF SkipEvent, Consume, tree, watcher, WatcherInv, WatcherTypeOK
<1>6. CASE ReadEvent
  <2> DEFINE e == Head(queue)
  <2>1. e \in Event /\ queue' \in Seq(Event)
    BY <1>6, HeadType DEF ReadEvent, Consume
  <2>2. CASE e.wd \notin watches
    BY <1>2, <1>6, <2>1, <2>2 DEF ReadEvent
  <2>3. CASE e.wd \in watches
    <3>1. /\ moved' = IF Unlisted(Target(e)) THEN moved ELSE MovedAfter(e)
          /\ UNCHANGED <<tree, monitor, dirty, raced>>
      BY <1>6, <2>3 DEF ReadEvent
    <3>2. e.kind = "moved_from" => e.cookie \in Paths \X Paths
      BY <2>1 DEF Event
    <3>3. MovedAfter(e) \subseteq Paths \X Paths
      BY <3>2 DEF MovedAfter, WatcherInv, WatcherTypeOK
    <3>4. QED
      BY <2>1, <3>1, <3>3 DEF tree, WatcherInv, WatcherTypeOK
  <2>4. QED
    BY <2>2, <2>3
<1>7. CASE WatchParent \/ ListDirectory \/ Visit \/ LookAtInclude
  <2>1. UNCHANGED stepVars
    BY <1>7 DEF WatchParent, ListDirectory, Visit, LookAtInclude
  <2>2. QED
    BY <1>1, <2>1 DEF stepVars, WatcherInv, WatcherTypeOK
<1>8. ASSUME NEW p \in Paths, Write(p) PROVE Rest
  <2>1. p # <<>>
    BY <1>8, WatcherAssumption DEF Write, Files
  <2>2. /\ InDir(p, "create", <<>>) \in Seq(Event)
        /\ InDir(p, "close_write", <<>>) \in Seq(Event)
        /\ OnSelf(p, "close_write") \in Seq(Event)
    BY <2>1, InDirType, OnSelfType DEF Kinds
  <2> DEFINE created == IF p \in exists THEN <<>> ELSE InDir(p, "create", <<>>)
             events == created \o InDir(p, "close_write", <<>>)
                               \o OnSelf(p, "close_write")
  <2>3. created \in Seq(Event)
    BY <2>2, NoEvents
  <2>4. created \o InDir(p, "close_write", <<>>) \in Seq(Event)
    BY <2>2, <2>3, ConcatProperties
  <2>5. events \in Seq(Event)
    BY <2>2, <2>4, ConcatProperties
  <2>6. Changes({p}, events) /\ dirty' \subseteq Paths
    BY <1>8 DEF Write, Change, WatcherInv, WatcherTypeOK
  <2>7. QED
    BY <2>5, <2>6, ChangesType DEF WatcherInv, WatcherTypeOK
<1>9. ASSUME NEW p \in Paths, MakeDir(p) PROVE Rest
  <2>1. p # <<>>
    BY <1>9 DEF MakeDir, Change, WatcherInv, WatcherTypeOK
  <2>2. InDir(p, "make_dir", <<>>) \in Seq(Event)
    BY <2>1, InDirType DEF Kinds
  <2>3. Changes({p}, InDir(p, "make_dir", <<>>)) /\ dirty' \subseteq Paths
    BY <1>9 DEF MakeDir, Change, WatcherInv, WatcherTypeOK
  <2>4. QED
    BY <2>2, <2>3, ChangesType DEF WatcherInv, WatcherTypeOK
<1>10. ASSUME NEW p \in Paths, Delete(p) PROVE Rest
  <2> DEFINE own == OnSelf(p, "delete_self")
             inDir == InDir(p, IF p \in Dirs THEN "delete_dir" ELSE "delete", <<>>)
  <2>1. own \in Seq(Event) /\ inDir \in Seq(Event)
    BY <1>10, OnSelfType, InDirType DEF Delete, Kinds
  <2>2. own \o inDir \in Seq(Event) /\ inDir \o own \in Seq(Event)
    BY <2>1, ConcatProperties
  <2>3. Changes({p}, own \o inDir) \/ Changes({p}, inDir \o own)
    BY <1>10 DEF Delete
  <2>4. queue' \in Seq(Event) /\ raced' \in BOOLEAN /\ UNCHANGED <<cfg, moved, monitor>>
    BY <2>2, <2>3, ChangesType
  <2>5. QED
    BY <1>10, <2>4 DEF Delete, Change, WatcherInv, WatcherTypeOK
<1>11. ASSUME NEW p \in Paths, NEW q \in Paths, Rename(p, q)
       PROVE  Rest
  <2>1. p # <<>> /\ q # <<>> /\ <<p, q>> \in Paths \X Paths
    BY <1>11, WatcherAssumption DEF Rename, Change, WatcherInv, WatcherTypeOK
  <2>2. /\ InDir(p, "moved_from", <<p, q>>) \in Seq(Event)
        /\ InDir(q, "moved_to", <<p, q>>) \in Seq(Event)
        /\ OnSelf(q, "delete_self") \in Seq(Event)
    BY <2>1, InDirType, OnSelfType DEF Kinds
  <2>3. InDir(p, "moved_from", <<p, q>>) \o InDir(q, "moved_to", <<p, q>>)
          \in Seq(Event)
    BY <2>2, ConcatProperties
  <2> DEFINE events ==
        InDir(p, "moved_from", <<p, q>>) \o InDir(q, "moved_to", <<p, q>>)
          \o OnSelf(q, "delete_self")
  <2>4. events \in Seq(Event)
    BY <2>2, <2>3, ConcatProperties
  <2>5. Changes({p, q}, events) /\ dirty' \subseteq Paths
    BY <1>11 DEF Rename, Change, WatcherInv, WatcherTypeOK
  <2>6. QED
    BY <2>4, <2>5, ChangesType DEF WatcherInv, WatcherTypeOK
<1>12. CASE Return
  BY <1>12 DEF Return, tree, WatcherInv, WatcherTypeOK
<1>13. CASE stop
  BY <1>13 DEF stop, Release, tree, WatcherInv, WatcherTypeOK
<1>14. CASE ReadAfterStop
  BY <1>14, NoEvents DEF ReadAfterStop, tree, WatcherInv, WatcherTypeOK
<1>15. CASE UNCHANGED watcherVars
  BY <1>1, <1>15 DEF watcherVars, tree, watcher, WatcherInv, WatcherTypeOK
<1>16. QED
  BY <1>3, <1>4, <1>5, <1>6, <1>7, <1>8, <1>9, <1>10, <1>11, <1>12, <1>13, <1>14,
     <1>15 DEF Next, HandlerStep

-----------------------------------------------------------------------------
(* Paths.                                                                  *)

\* A path is a sequence of names, and so are the paths it begins with.
LEMMA PathIsSeq ==
  ASSUME NEW p \in Paths
  PROVE  /\ p \in Seq(Components) /\ Len(p) \in Nat
         /\ DOMAIN p = 1..Len(p) /\ (p = <<>> <=> Len(p) = 0)
<1>1. p \in Seq(Components)
  BY WatcherAssumption
<1>2. QED
  BY <1>1, LenProperties, EmptySeq

\* A beginning of a path is a path, and a directory if it is shorter.
LEMMA SubPath ==
  ASSUME NEW p \in Paths, NEW n \in 0..Len(p)
  PROVE  /\ SubSeq(p, 1, n) \in Paths /\ Len(SubSeq(p, 1, n)) = n
         /\ \A i \in 1..n : SubSeq(p, 1, n)[i] = p[i]
         /\ n < Len(p) => SubSeq(p, 1, n) \in Dirs
         /\ n = Len(p) => SubSeq(p, 1, n) = p
<1>1. p \in Seq(Components) /\ Len(p) \in Nat
  BY PathIsSeq
<1>2. \A i \in 1..n : p[i] \in Components
  BY <1>1, ElementOfSeq
<1>3. /\ Len(SubSeq(p, 1, n)) = n
      /\ \A i \in 1..n : SubSeq(p, 1, n)[i] = p[i]
  BY <1>1, <1>2, SubSeqProperties
<1>4. n < Len(p) => SubSeq(p, 1, n) \in Dirs
  BY <1>1, WatcherAssumption
<1>5. n = Len(p) => SubSeq(p, 1, n) = p
  BY <1>1, SubSeqFull
<1>6. SubSeq(p, 1, n) \in Paths
  <2>1. CASE n < Len(p)
    BY <1>4, <2>1, WatcherAssumption
  <2>2. CASE n = Len(p)
    BY <1>5, <2>2
  <2>3. QED
    BY <1>1, <2>1, <2>2
<1>7. QED
  BY <1>3, <1>4, <1>5, <1>6

\* IsPrefix, name by name.
LEMMA PrefixIs ==
  ASSUME NEW p \in Paths, NEW q \in Paths
  PROVE  IsPrefix(p, q) <=>
           Len(p) <= Len(q) /\ \A i \in 1..Len(p) : p[i] = q[i]
<1>1. Len(p) \in Nat /\ Len(q) \in Nat /\ p \in Seq(Components) /\ q \in Seq(Components)
  BY PathIsSeq
<1>2. SubSeq(p, 1, Len(p)) = p
  BY <1>1, SubSeqFull
<1>3. ASSUME Len(p) <= Len(q)
      PROVE  SubSeq(p, 1, Len(p)) = SubSeq(q, 1, Len(p))
               <=> \A i \in 1..Len(p) : p[i] = q[i]
  <2>1. /\ SubSeq(q, 1, Len(p)) \in Paths /\ Len(SubSeq(q, 1, Len(p))) = Len(p)
        /\ \A i \in 1..Len(p) : SubSeq(q, 1, Len(p))[i] = q[i]
    BY <1>1, <1>3, SubPath
  <2>2. ASSUME \A i \in 1..Len(p) : p[i] = q[i]
        PROVE  p = SubSeq(q, 1, Len(p))
    <3>1. SubSeq(q, 1, Len(p)) \in Seq(Components)
      BY <2>1, PathIsSeq
    <3>2. QED
      BY <1>1, <2>1, <2>2, <3>1, SeqEqual
  <2>3. QED
    BY <1>2, <2>1, <2>2
<1>4. QED
  BY <1>3 DEF IsPrefix

LEMMA SamePath ==
  ASSUME NEW p \in Paths, NEW q \in Paths, Len(p) = Len(q),
         \A i \in 1..Len(p) : p[i] = q[i]
  PROVE  p = q
BY PathIsSeq, SeqEqual

\* "Begins with" orders the paths, and those that one path begins with totally.
LEMMA PrefixOrder ==
  /\ \A p \in Paths : IsPrefix(p, p) /\ IsPrefix(<<>>, p)
  /\ \A p, q, r \in Paths : IsPrefix(p, q) /\ IsPrefix(q, r) => IsPrefix(p, r)
  /\ \A p, q \in Paths : IsPrefix(p, q) /\ IsPrefix(q, p) => p = q
  /\ \A p, q, r \in Paths :
       IsPrefix(p, r) /\ IsPrefix(q, r) => IsPrefix(p, q) \/ IsPrefix(q, p)
  /\ \A p, q \in Paths : IsPrefix(p, q) /\ Len(p) = Len(q) => p = q
  /\ \A p, q \in Paths : IsPrefix(p, q) => Len(p) <= Len(q)
<1>0. <<>> \in Paths /\ \A p \in Paths : Len(p) \in Nat
  BY PathIsSeq, WatcherAssumption
<1>1. ASSUME NEW p \in Paths PROVE IsPrefix(p, p) /\ IsPrefix(<<>>, p)
  BY <1>0, PrefixIs, EmptySeq
<1>2. ASSUME NEW p \in Paths, NEW q \in Paths, NEW r \in Paths,
             IsPrefix(p, q), IsPrefix(q, r)
      PROVE  IsPrefix(p, r)
  BY <1>0, <1>2, PrefixIs
<1>3. ASSUME NEW p \in Paths, NEW q \in Paths, IsPrefix(p, q), Len(p) = Len(q)
      PROVE  p = q
  BY <1>3, PrefixIs, SamePath
<1>4. ASSUME NEW p \in Paths, NEW q \in Paths, IsPrefix(p, q), IsPrefix(q, p)
      PROVE  p = q
  BY <1>0, <1>3, <1>4, PrefixIs
<1>5. ASSUME NEW p \in Paths, NEW q \in Paths, NEW r \in Paths,
             IsPrefix(p, r), IsPrefix(q, r)
      PROVE  IsPrefix(p, q) \/ IsPrefix(q, p)
  BY <1>0, <1>5, PrefixIs
<1>6. ASSUME NEW p \in Paths, NEW q \in Paths, IsPrefix(p, q)
      PROVE  Len(p) <= Len(q)
  BY <1>6 DEF IsPrefix
<1>7. QED
  BY <1>1, <1>2, <1>3, <1>4, <1>5, <1>6

\* The directory a path is in.
LEMMA FrontIs ==
  ASSUME NEW p \in Paths \ {<<>>}
  PROVE  /\ Front(p) \in Dirs /\ Front(p) \in Paths
         /\ IsPrefix(Front(p), p) /\ Front(p) # p
         /\ Front(p) \o <<Last(p)>> = p
         /\ \A q \in Paths : IsPrefix(q, p) /\ q # p => IsPrefix(q, Front(p))
<1>0. p \in Seq(Components) /\ Len(p) \in Nat /\ Len(p) # 0
  BY PathIsSeq
<1> DEFINE n == Len(p) - 1
<1>n. n \in 0..Len(p) /\ n < Len(p) /\ n \in Nat
  BY <1>0
<1>1. /\ Front(p) \in Dirs /\ Front(p) \in Paths /\ Len(Front(p)) = n
      /\ \A i \in 1..n : Front(p)[i] = p[i]
  BY <1>n, SubPath DEF Front
<1>2. IsPrefix(Front(p), p) /\ Front(p) # p
  BY <1>n, <1>1, PrefixIs
<1>3. Front(p) \o <<Last(p)>> = p
  <2>1. SubSeq(p, 1, Len(p)) = SubSeq(p, 1, Len(p) - 1) \o <<p[Len(p)]>>
    <3>1. 1 \in 1..Len(p) /\ Len(p) \in 1..Len(p)
      BY <1>0
    <3>2. QED
      BY <1>0, <3>1, SubSeqRecursiveSecond
  <2>2. QED
    BY <1>0, <2>1, SubSeqFull DEF Front, Last
<1>4. ASSUME NEW q \in Paths, IsPrefix(q, p), q # p
      PROVE  IsPrefix(q, Front(p))
  <2>1. Len(q) <= n /\ Len(q) \in Nat
    BY <1>0, <1>4, PrefixOrder, PathIsSeq
  <2>2. \A i \in 1..Len(q) : q[i] = Front(p)[i]
    BY <1>n, <1>1, <1>4, <2>1, PrefixIs
  <2>3. QED
    BY <1>1, <2>1, <2>2, PrefixIs
<1>5. QED
  BY <1>1, <1>2, <1>3, <1>4

\* What contains something else is a directory.
LEMMA ParentIsDir ==
  ASSUME NEW p \in Paths, NEW q \in Paths, IsPrefix(p, q), p # q
  PROVE  p \in Dirs /\ q # <<>>
<1>1. q # <<>>
  BY PrefixOrder, WatcherAssumption
<1>2. Len(p) <= Len(q) /\ Len(p) # Len(q) /\ Len(p) \in Nat /\ Len(q) \in Nat
  BY PrefixOrder, PathIsSeq
<1>3. SubSeq(q, 1, Len(p)) \in Dirs
  BY <1>2, SubPath
<1>4. SubSeq(p, 1, Len(p)) = p
  BY PathIsSeq, SubSeqFull
<1>5. QED
  BY <1>1, <1>3, <1>4 DEF IsPrefix

\* The least number principle, for the length of what is left of a path.
LEMMA LeastNumber ==
  ASSUME NEW T \in SUBSET Nat, T # {}
  PROVE  \E n \in T : \A m \in T : n <= m
<1>1. PICK n \in T : \A m \in T : <<m, n>> \notin OpToRel(<, Nat)
  BY NatLessThanWellFounded, WFMin, Zenon
<1>2. \A m \in T : ~(m < n)
  BY <1>1, Zenon DEF OpToRel
<1>3. QED
  BY <1>2

-----------------------------------------------------------------------------
(* Unread events.                                                          *)

Live == monitor \in {"starting", "running"}

\* The events that are not handled yet, as a set.
Unread == Range(job.event) \cup Range(queue)

LEMMA UnhandledIs ==
  ASSUME NEW r \in Seq(Event), NEW s \in Seq(Event), NEW e
  PROVE  (\E i \in DOMAIN (r \o s) : (r \o s)[i] = e) <=> e \in Range(r) \cup Range(s)
<1>1. Range(r \o s) = Range(r) \cup Range(s)
  BY RangeConcatenation
<1>2. QED
  BY <1>1 DEF Range

\* Reading takes the first event from those that are unread.
LEMMA HeadUnread ==
  ASSUME WatcherInv, queue # <<>>, queue' = Tail(queue)
  PROVE  /\ Head(queue) \in Event /\ queue' \in Seq(Event)
         /\ Range(queue) = {Head(queue)} \cup Range(queue')
<1>1. /\ Head(queue) \in Event /\ queue' \in Seq(Event) /\ Len(queue') = Len(queue) - 1
      /\ \A i \in 1..Len(queue') : queue'[i] = queue[i + 1]
      /\ queue \in Seq(Event)
  BY HeadTailProperties DEF WatcherInv, WatcherTypeOK
<1>2. Head(queue) = queue[1] /\ Len(queue) \in Nat \ {0}
  BY <1>1, EmptySeq, LenProperties
<1>3. /\ Range(queue) = {queue[i] : i \in 1..Len(queue)}
      /\ Range(queue') = {queue'[i] : i \in 1..Len(queue')}
  BY <1>1, LenProperties DEF Range
<1>4. ASSUME NEW e \in Range(queue), e # Head(queue) PROVE e \in Range(queue')
  <2>1. PICK i \in 1..Len(queue) : queue[i] = e
    BY <1>3
  <2>2. i # 1 /\ i - 1 \in 1..Len(queue') /\ (i - 1) + 1 = i
    BY <1>1, <1>2, <1>4, <2>1
  <2>3. queue'[i - 1] = e
    BY <1>1, <2>1, <2>2
  <2>4. QED
    BY <1>3, <2>2, <2>3
<1>5. ASSUME NEW e \in Range(queue') PROVE e \in Range(queue)
  <2>1. PICK i \in 1..Len(queue') : queue'[i] = e
    BY <1>3
  <2>2. i + 1 \in 1..Len(queue)
    BY <1>1, <1>2
  <2>3. QED
    BY <1>1, <1>3, <2>1, <2>2
<1>6. Head(queue) \in Range(queue)
  <2>1. 1 \in 1..Len(queue)
    BY <1>2
  <2>2. QED
    BY <1>2, <1>3, <2>1
<1>7. QED
  BY <1>1, <1>4, <1>5, <1>6

\* The events of a change, put one after the other.
LEMMA ThreeReports ==
  ASSUME NEW r \in Seq(Event), NEW s \in Seq(Event), NEW t \in Seq(Event)
  PROVE  /\ r \o s \o t \in Seq(Event)
         /\ Range(r \o s \o t) = Range(r) \cup Range(s) \cup Range(t)
<1> DEFINE rs == r \o s
<1>1. rs \in Seq(Event) /\ Range(rs) = Range(r) \cup Range(s)
  BY ConcatProperties, RangeConcatenation
<1> HIDE DEF rs
<1>2. rs \o t \in Seq(Event) /\ Range(rs \o t) = Range(rs) \cup Range(t)
  BY <1>1, ConcatProperties, RangeConcatenation
<1>3. QED
  BY <1>1, <1>2 DEF rs

\* The events a change adds.
LEMMA ChangesUnread ==
  ASSUME WatcherInv, NEW paths, NEW events \in Seq(Event), Changes(paths, events)
  PROVE  /\ Unread' = Unread \cup Range(events)
         /\ Unread \subseteq Event /\ Range(events) \subseteq Event
<1>1. queue \in Seq(Event) /\ queue' = queue \o events /\ job' = job
  BY DEF Changes, WatcherInv, WatcherTypeOK
<1>2. job.event \in Seq(Event)
  BY DEF WatcherInv, WatcherTypeOK, Jobs
<1>3. QED
  BY <1>1, <1>2, RangeConcatenation, RangeOfSeq DEF Unread

\* An event about an object with a mark, if its mask asks for it.
Reported(p, name, kind, cookie) ==
  IF p \in DOMAIN mark /\ Emits(mark[p].mask, kind)
    THEN {[wd |-> mark[p].wd, name |-> name, kind |-> kind, cookie |-> cookie]}
    ELSE {}
InDirReported(p, kind, cookie) == Reported(Front(p), <<Last(p)>>, kind, cookie)
SelfReported(p, kind) == Reported(p, <<>>, kind, <<>>)

\* OnMark as a set.
LEMMA OnMarkRange ==
  ASSUME NEW p, NEW name, NEW kind, NEW cookie
  PROVE  Range(OnMark(p, name, kind, cookie)) = Reported(p, name, kind, cookie)
<1>1. ASSUME NEW e PROVE Range(<<e>>) = {e}
  BY DEF Range
<1>2. Range(<<>>) = {}
  BY DEF Range
<1>3. QED
  BY <1>1, <1>2 DEF OnMark, Reported

\* What each kind of change reports.
LEMMA WriteReports ==
  ASSUME WatcherInv, NEW p \in Paths, Write(p)
  PROVE  /\ p # <<>>
         /\ Unread' = Unread \cup
              (IF p \in exists THEN {} ELSE InDirReported(p, "create", <<>>))
              \cup InDirReported(p, "close_write", <<>>)
              \cup SelfReported(p, "close_write")
<1>1. p # <<>>
  BY WatcherAssumption DEF Write, Files
<1>2. /\ InDir(p, "create", <<>>) \in Seq(Event)
      /\ InDir(p, "close_write", <<>>) \in Seq(Event)
      /\ OnSelf(p, "close_write") \in Seq(Event)
  BY <1>1, InDirType, OnSelfType DEF Kinds
<1> DEFINE created == IF p \in exists THEN <<>> ELSE InDir(p, "create", <<>>)
           events == created \o InDir(p, "close_write", <<>>)
                             \o OnSelf(p, "close_write")
<1>3. created \in Seq(Event)
  BY <1>2, NoEvents
<1> HIDE DEF created
<1>4. /\ events \in Seq(Event)
      /\ Range(events) = Range(created) \cup Range(InDir(p, "close_write", <<>>))
                            \cup Range(OnSelf(p, "close_write"))
  BY <1>2, <1>3, ThreeReports
<1>6. Changes({p}, events)
  BY DEF created, Write
<1>7. Unread' = Unread \cup Range(events)
  BY <1>4, <1>6, ChangesUnread
<1>8. Range(created) = IF p \in exists THEN {} ELSE InDirReported(p, "create", <<>>)
  BY OnMarkRange DEF created, Range, InDir, InDirReported
<1>9. QED
  BY <1>1, <1>4, <1>7, <1>8, OnMarkRange
     DEF InDir, InDirReported, OnSelf, SelfReported

LEMMA MakeDirReports ==
  ASSUME WatcherInv, NEW p \in Paths, MakeDir(p)
  PROVE  p # <<>> /\ Unread' = Unread \cup InDirReported(p, "make_dir", <<>>)
<1>1. p # <<>>
  BY DEF MakeDir, WatcherInv, WatcherTypeOK
<1>2. InDir(p, "make_dir", <<>>) \in Seq(Event)
  BY <1>1, InDirType DEF Kinds
<1>3. Changes({p}, InDir(p, "make_dir", <<>>))
  BY DEF MakeDir
<1>4. QED
  BY <1>1, <1>2, <1>3, ChangesUnread, OnMarkRange DEF InDir, InDirReported

LEMMA DeleteReports ==
  ASSUME WatcherInv, NEW p \in Paths, Delete(p)
  PROVE  /\ p # <<>> /\ PatientAbout(p)
         /\ Live /\ UNCHANGED <<cfg, watches, moved, monitor, job>>
         /\ Unread' = Unread \cup SelfReported(p, "delete_self") \cup
              InDirReported(p, IF p \in Dirs THEN "delete_dir" ELSE "delete", <<>>)
<1> DEFINE own == OnSelf(p, "delete_self")
           inDir == InDir(p, IF p \in Dirs THEN "delete_dir" ELSE "delete", <<>>)
<1>1. own \in Seq(Event) /\ inDir \in Seq(Event) /\ p # <<>>
  BY OnSelfType, InDirType DEF Delete, Kinds
<1>2. /\ own \o inDir \in Seq(Event) /\ inDir \o own \in Seq(Event)
      /\ Range(own \o inDir) = Range(own) \cup Range(inDir)
      /\ Range(inDir \o own) = Range(own) \cup Range(inDir)
  BY <1>1, ConcatProperties, RangeConcatenation
<1>3. Changes({p}, own \o inDir) \/ Changes({p}, inDir \o own)
  BY DEF Delete
<1>4. Unread' = Unread \cup Range(own) \cup Range(inDir)
  BY <1>2, <1>3, ChangesUnread
<1>5. QED
  BY <1>1, <1>3, <1>4, OnMarkRange
     DEF Changes, Live, InDir, InDirReported, OnSelf, SelfReported

LEMMA RenameReports ==
  ASSUME WatcherInv, NEW p \in Paths, NEW q \in Paths, Rename(p, q)
  PROVE  /\ p \in Files /\ q \in Files /\ p # q /\ p # <<>> /\ q # <<>>
         /\ Unread' = Unread \cup InDirReported(p, "moved_from", <<p, q>>)
              \cup InDirReported(q, "moved_to", <<p, q>>)
              \cup SelfReported(q, "delete_self")
<1>1. p \in Files /\ q \in Files /\ p # q
  <2>1. /\ <<p, q>> \in (Paths \ Dirs) \X (Paths \ Dirs)
        /\ <<p, q>>[1] # <<p, q>>[2]
    BY WatcherAssumption DEF Rename, WatcherInv, WatcherTypeOK
  <2>2. QED
    BY <2>1 DEF Files
<1>2. p # <<>> /\ q # <<>> /\ <<p, q>> \in Paths \X Paths
  BY <1>1, WatcherAssumption DEF Files
<1> DEFINE from == InDir(p, "moved_from", <<p, q>>)
           to == InDir(q, "moved_to", <<p, q>>)
           own == OnSelf(q, "delete_self")
           events == from \o to \o own
<1>3. from \in Seq(Event) /\ to \in Seq(Event) /\ own \in Seq(Event)
  BY <1>2, InDirType, OnSelfType DEF Kinds
<1>4. /\ events \in Seq(Event)
      /\ Range(events) = Range(from) \cup Range(to) \cup Range(own)
  BY <1>3, ThreeReports
<1>5. Changes({p, q}, events)
  BY DEF Rename
<1>6. Unread' = Unread \cup Range(events)
  BY <1>4, <1>5, ChangesUnread
<1>7. QED
  BY <1>1, <1>2, <1>4, <1>6, OnMarkRange
     DEF InDir, InDirReported, OnSelf, SelfReported

-----------------------------------------------------------------------------
(* What the tree, the marks and the events have in common.                 *)

\* What is on the way to a path exists.
TreeInv == \A p \in exists, q \in Paths : IsPrefix(q, p) => q \in exists

\* A directory has a descriptor of its own name; renamed files do not.
MarkPaths ==
  \A p \in DOMAIN mark :
    /\ p \in Dirs => mark[p].wd.path = p
    /\ p \in Files => mark[p].wd.path \in Files

EventOK(e) ==
  /\ e.name # <<>> => /\ Target(e) \in Paths \ {<<>>}
                      /\ Base(e) = Front(Target(e))
                      /\ e.name = <<Last(Target(e))>>
  /\ e.name = <<>> => Target(e) = Base(e)
  /\ e.kind = "delete_self" <=> e.name = <<>> /\ e.kind # "close_write"
  /\ e.kind \in {"close_write", "delete"} => Target(e) \in Files
  /\ e.kind = "make_dir" => Target(e) \in Dirs

EventsOK == \A e \in Unread : EventOK(e)

\* What is deleted has lost its mark.
DeadWds ==
  \A e \in Unread : e.kind = "delete_self" => \A p \in DOMAIN mark : mark[p].wd # e.wd

Idle ==
  /\ ~Live => mark = <<>> /\ watches = {}
  /\ monitor # "running" => dirty = {} /\ job.event = <<>>
  /\ ~Busy => job = NoJob
  /\ monitor = "new" => queue = <<>> /\ moved = {}

KernelInv ==
  /\ WatcherInv /\ TreeInv /\ Idle
  /\ Live => MarkPaths /\ EventsOK /\ DeadWds

\* The longest beginning of p in a set of paths.
ParentIn(S, p) ==
  CHOOSE q \in S :
    /\ IsPrefix(q, p) /\ (p \in Dirs \/ q # p)
    /\ \A o \in S : IsPrefix(o, p) /\ (p \in Dirs \/ o # p) => IsPrefix(o, q)

LEMMA ParentInIs ==
  ASSUME NEW S \in SUBSET Paths, <<>> \in S, NEW p \in Paths
  PROVE  LET q == ParentIn(S, p) IN
         /\ q \in S /\ IsPrefix(q, p) /\ (p \in Dirs \/ q # p)
         /\ \A o \in S : IsPrefix(o, p) /\ (p \in Dirs \/ o # p) => IsPrefix(o, q)
<1> DEFINE Parents == {o \in S : IsPrefix(o, p) /\ (p \in Dirs \/ o # p)}
           T == {n \in Nat : \E o \in Parents : n = Len(p) - Len(o)}
<1>0. /\ Len(p) \in Nat
      /\ \A o \in Parents : Len(o) \in Nat /\ Len(o) <= Len(p)
  BY PathIsSeq, PrefixOrder
<1>1. <<>> \in Parents
  BY PrefixOrder, WatcherAssumption
<1>2. \A o \in Parents : Len(p) - Len(o) \in T
  BY <1>0
<1>3. T \in SUBSET Nat /\ T # {}
  BY <1>1, <1>2
<1> HIDE DEF T
<1>4. PICK n \in T : \A m \in T : n <= m
  BY <1>3, LeastNumber
<1>5. PICK q \in Parents : n = Len(p) - Len(q)
  BY <1>4 DEF T
<1>6. ASSUME NEW o \in Parents PROVE IsPrefix(o, q)
  <2>1. n <= Len(p) - Len(o)
    BY <1>2, <1>4
  <2>2. Len(o) <= Len(q)
    BY <1>0, <1>5, <2>1
  <2>3. IsPrefix(o, q) \/ IsPrefix(q, o)
    BY PrefixOrder
  <2>4. IsPrefix(q, o) => o = q
    BY <1>0, <2>2, PrefixOrder
  <2>5. QED
    BY <2>3, <2>4, PrefixOrder
<1>7. \E o \in S :
        /\ IsPrefix(o, p) /\ (p \in Dirs \/ o # p)
        /\ \A r \in S : IsPrefix(r, p) /\ (p \in Dirs \/ r # p) => IsPrefix(r, o)
  BY <1>6
<1>8. QED
  BY <1>7 DEF ParentIn

\* The nearest existing parent is there, since <<>> is.
LEMMA NearestIs ==
  ASSUME <<>> \in exists, exists \subseteq Paths, NEW p \in Paths
  PROVE  LET q == getExistingParentPath(p) IN
         /\ q \in exists /\ IsPrefix(q, p) /\ (p \in Dirs \/ q # p)
         /\ \A o \in exists : IsPrefix(o, p) /\ (p \in Dirs \/ o # p) => IsPrefix(o, q)
<1>1. getExistingParentPath(p) = ParentIn(exists, p)
  BY DEF getExistingParentPath, ParentIn
<1>2. QED
  BY <1>1, ParentInIs


-----------------------------------------------------------------------------
(* Jobs.                                                                   *)

LEMMA NoJobIs == NoJob \in Jobs
BY EmptySeq DEF NoJob, Jobs

\* What is put in a job.
LEMMA JobWith ==
  ASSUME NEW j \in Jobs
  PROVE  /\ \A v \in Seq(Event) : [j EXCEPT !.event = v] \in Jobs
         /\ \A v \in SUBSET Paths : [j EXCEPT !.parents = v] \in Jobs
         /\ \A v \in SUBSET Paths : [j EXCEPT !.open = v] \in Jobs
         /\ \A v \in SUBSET Paths : [j EXCEPT !.visit = v] \in Jobs
         /\ \A v \in SUBSET Paths : [j EXCEPT !.look = v] \in Jobs
         /\ \A v \in BOOLEAN : [j EXCEPT !.tree = v] \in Jobs
         /\ \A v \in SUBSET Wds : [j EXCEPT !.drop = v] \in Jobs
         /\ \A v \in BOOLEAN : [j EXCEPT !.tidy = v] \in Jobs
         /\ \A v \in SUBSET Paths : [j EXCEPT !.made = v] \in Jobs
         /\ \A v \in SUBSET Paths : [j EXCEPT !.op = v] \in Jobs
BY DEF Jobs

\* The lists name what is in the configured directory, and one of them is empty.
LEMMA ConfigIs ==
  ASSUME WatcherInv
  PROVE  /\ cfg.path \in Paths \ {<<>>}
         /\ \A x \in cfg.exclude \cup cfg.include :
              x \in Paths /\ IsPrefix(cfg.path, x) /\ x # cfg.path
         /\ cfg.exclude = {} \/ cfg.include = {}
BY WatcherAssumption DEF WatcherInv, WatcherTypeOK, IsStrictPrefix

\* What createWatchers is to do, whether it runs in the constructor or not.
LEMMA CreateIs ==
  ASSUME WatcherInv, NEW p \in Paths
  PROVE  LET j == createWatchers(p) IN
         /\ j \in Jobs
         /\ j.event = <<>> /\ j.open = {} /\ j.drop = {} /\ j.tree = FALSE
         /\ j.parents = {} \/ (p \notin exists /\ j.parents = {getExistingParentPath(p)})
         /\ \/ j.visit = {}
            \/ /\ j.visit = {p} /\ p \in exists
               /\ cfg.include # {} =>
                    p # cfg.path /\ (isPathIncluded(p) \/ isPathParentOfInclude(p))
         /\ j.look \subseteq cfg.include
<1>0. <<>> \in exists /\ exists \subseteq Paths
  BY DEF WatcherInv, MarksInv
<1>1. {getExistingParentPath(p)} \in SUBSET Paths
  BY <1>0, NearestIs
<1>2. {p} \in SUBSET Paths /\ cfg.include \in SUBSET Paths
  BY ConfigIs
<1>3. CASE p \notin exists
  <2>1. createWatchers(p) = [NoJob EXCEPT !.parents = {getExistingParentPath(p)}]
    BY <1>3 DEF createWatchers
  <2>2. QED
    BY <1>1, <1>3, <2>1, NoJobIs, JobWith DEF NoJob
<1>4. CASE p \in exists /\ cfg.include # {} /\ p = cfg.path
  <2>1. createWatchers(p) = [NoJob EXCEPT !.look = cfg.include]
    BY <1>4 DEF createWatchers
  <2>2. QED
    BY <1>2, <2>1, NoJobIs, JobWith DEF NoJob
<1>5. CASE p \in exists /\ ~(cfg.include # {} /\ p = cfg.path)
  <2>1. \/ createWatchers(p) = NoJob
        \/ /\ createWatchers(p) = [NoJob EXCEPT !.visit = {p}]
           /\ cfg.include # {} => isPathIncluded(p) \/ isPathParentOfInclude(p)
    BY <1>5 DEF createWatchers
  <2>2. CASE createWatchers(p) = NoJob
    BY <2>2, NoJobIs DEF NoJob
  <2>3. CASE /\ createWatchers(p) = [NoJob EXCEPT !.visit = {p}]
             /\ cfg.include # {} => isPathIncluded(p) \/ isPathParentOfInclude(p)
    BY <1>2, <1>5, <2>3, NoJobIs DEF NoJob, Jobs
  <2>4. QED
    BY <2>1, <2>2, <2>3
<1>6. QED
  BY <1>3, <1>4, <1>5

\* The job of each event that is not ignored.
LEMMA JobCases ==
  ASSUME NEW e \in Event
  PROVE  \/ processEvent(e) = NoJob
         \/ /\ ~Unlisted(Target(e))
            /\ \/ e.kind = "close_write" /\ processEvent(e) = processCloseWrite(e)
               \/ e.kind = "make_dir" /\ processEvent(e) = processCreate(e)
               \/ e.kind = "moved_from" /\ processEvent(e) = processMovedFrom(e)
               \/ e.kind = "moved_to" /\ processEvent(e) = processMovedTo(e)
               \/ e.kind = "delete_self" /\ processEvent(e) = processDeleteSelf(e)
               \/ e.kind \in {"delete", "delete_dir"} /\ processEvent(e) = processDelete(e)
BY DEF processEvent

LEMMA CloseWriteIs ==
  ASSUME WatcherInv, NEW e, Target(e) \in Paths, e.wd \in Wds
  PROVE  LET j == processCloseWrite(e) IN
         /\ j \in Jobs
         /\ j.parents = {} /\ j.open = {} /\ j.look = {} /\ j.tree = FALSE
         /\ \/ j.visit = {}
            \/ j.visit = {cfg.path} /\ cfg.path \in exists /\ Target(e) = cfg.path
            \/ j.visit = {Target(e)} /\ isPathIncluded(Target(e))
<1> DEFINE done == [NoJob EXCEPT !.op = {Target(e)}]
<1>0. {cfg.path} \in SUBSET Paths /\ {Target(e)} \in SUBSET Paths /\ {e.wd} \in SUBSET Wds
  BY ConfigIs
<1>1. /\ done \in Jobs
      /\ done.parents = {} /\ done.open = {} /\ done.look = {} /\ done.tree = FALSE
      /\ done.visit = {}
  BY <1>0, NoJobIs, JobWith DEF NoJob
<1> HIDE DEF done
<1>2. \/ processCloseWrite(e) \in {done, NoJob}
      \/ /\ processCloseWrite(e) = [done EXCEPT !.visit = {Target(e)}, !.tidy = TRUE]
         /\ isPathIncluded(Target(e))
      \/ /\ processCloseWrite(e) = [done EXCEPT !.visit = {cfg.path}, !.drop = {e.wd}]
         /\ cfg.path \in exists /\ Target(e) = cfg.path
  BY DEF processCloseWrite, done
<1>3. CASE processCloseWrite(e) \in {done, NoJob}
  <2>1. /\ NoJob \in Jobs
        /\ NoJob.parents = {} /\ NoJob.open = {} /\ NoJob.look = {}
        /\ NoJob.tree = FALSE /\ NoJob.visit = {}
    BY NoJobIs DEF NoJob
  <2>2. QED
    BY <1>1, <1>3, <2>1
<1>4. CASE /\ processCloseWrite(e) = [done EXCEPT !.visit = {Target(e)}, !.tidy = TRUE]
           /\ isPathIncluded(Target(e))
  BY <1>0, <1>1, <1>4 DEF Jobs
<1>5. CASE /\ processCloseWrite(e) = [done EXCEPT !.visit = {cfg.path}, !.drop = {e.wd}]
           /\ cfg.path \in exists /\ Target(e) = cfg.path
  BY <1>0, <1>1, <1>5 DEF Jobs
<1>6. QED
  BY <1>2, <1>3, <1>4, <1>5

LEMMA MakeDirIs ==
  ASSUME WatcherInv, NEW e, Target(e) \in Paths, Base(e) \in Paths
  PROVE  LET j == processCreate(e)
             c == createWatchers(Target(e)) IN
         /\ j \in Jobs
         /\ \/ /\ j.parents = {} /\ j.visit = {} /\ j.look = {} /\ j.tree = FALSE
               /\ j.open = {}
            \/ /\ j.parents = {} /\ j.visit = {} /\ j.look = {} /\ j.tree = TRUE
               /\ j.open = {Base(e)} /\ IsPrefix(Target(e), cfg.path)
            \/ /\ ~(Target(e) = cfg.path /\ Target(e) \in exists)
               /\ j.parents = c.parents /\ j.visit = c.visit /\ j.look = c.look
               /\ j.open = {} /\ j.tree = FALSE
<1> DEFINE c == createWatchers(Target(e))
<1>0. {Target(e)} \in SUBSET Paths /\ {Base(e)} \in SUBSET Paths
  OBVIOUS
<1>1. c \in Jobs /\ c.open = {} /\ c.tree = FALSE
  BY CreateIs
<1> HIDE DEF c
<1>2. \/ CreateJob(e) = NoJob
      \/ CreateJob(e) = FollowTree(e) /\ IsPrefix(Target(e), cfg.path)
      \/ /\ CreateJob(e) = [c EXCEPT !.tidy = (cfg.include # {})]
         /\ ~(Target(e) = cfg.path /\ Target(e) \in exists)
  BY DEF CreateJob, c
<1>3. CASE CreateJob(e) = NoJob
  <2>1. processCreate(e) = [NoJob EXCEPT !.made = {Target(e)}]
    BY <1>3 DEF processCreate
  <2>2. QED
    BY <1>0, <2>1, NoJobIs, JobWith DEF NoJob
<1>4. CASE CreateJob(e) = FollowTree(e) /\ IsPrefix(Target(e), cfg.path)
  <2>1. /\ FollowTree(e) \in Jobs
        /\ FollowTree(e).parents = {} /\ FollowTree(e).visit = {}
        /\ FollowTree(e).look = {} /\ FollowTree(e).tree = TRUE
        /\ FollowTree(e).open = {Base(e)}
    BY <1>0, NoJobIs DEF FollowTree, NoJob, Jobs
  <2>2. processCreate(e) = [FollowTree(e) EXCEPT !.made = {Target(e)}]
    BY <1>4 DEF processCreate
  <2>3. QED
    BY <1>0, <1>4, <2>1, <2>2 DEF Jobs
<1>5. CASE /\ CreateJob(e) = [c EXCEPT !.tidy = (cfg.include # {})]
           /\ ~(Target(e) = cfg.path /\ Target(e) \in exists)
  <2>1. processCreate(e) =
          [[c EXCEPT !.tidy = (cfg.include # {})] EXCEPT !.made = {Target(e)}]
    BY <1>5 DEF processCreate
  <2>2. (cfg.include # {}) \in BOOLEAN
    OBVIOUS
  <2>3. QED
    BY <1>0, <1>1, <1>5, <2>1, <2>2 DEF Jobs, c
<1>6. QED
  BY <1>2, <1>3, <1>4, <1>5

LEMMA DeleteSelfIs ==
  ASSUME WatcherInv, NEW e, Base(e) \in Paths, e.wd \in Wds
  PROVE  LET j == processDeleteSelf(e) IN
         /\ j \in Jobs
         /\ \/ j.parents = {}
            \/ /\ j.parents = {getExistingParentPath(Base(e))}
               /\ Starts(Base(e), cfg.path)
         /\ j.open = {} /\ j.visit = {} /\ j.look = {} /\ j.tree = FALSE
         /\ j.drop = {e.wd}
<1> DEFINE up == IF Starts(Base(e), cfg.path)
                   THEN {getExistingParentPath(Base(e))} ELSE {}
<1>0. getExistingParentPath(Base(e)) \in Paths
  BY NearestIs DEF WatcherInv, MarksInv
<1>1. /\ up \in SUBSET Paths
      /\ \/ up = {}
         \/ up = {getExistingParentPath(Base(e))} /\ Starts(Base(e), cfg.path)
      /\ {e.wd} \in SUBSET Wds /\ {Base(e)} \in SUBSET Paths
  BY <1>0
<1>2. processDeleteSelf(e) =
        [NoJob EXCEPT !.parents = up, !.drop = {e.wd}, !.op = {Base(e)}]
  BY DEF processDeleteSelf
<1> HIDE DEF up
<1>3. QED
  BY <1>1, <1>2, NoJobIs DEF NoJob, Jobs

\* The other handlers look at nothing.
LEMMA OthersAre ==
  ASSUME NEW e, Target(e) \in Paths
  PROVE  \A j \in {NoJob, processMovedFrom(e), processMovedTo(e), processDelete(e)} :
           /\ j \in Jobs
           /\ j.parents = {} /\ j.open = {} /\ j.visit = {} /\ j.look = {}
           /\ j.tree = FALSE
<1>1. \A j \in {NoJob, processMovedFrom(e), processMovedTo(e), processDelete(e)} :
        j \in {NoJob, [NoJob EXCEPT !.op = {Target(e)}]}
  BY DEF processMovedFrom, processMovedTo, processDelete
<1>2. {Target(e)} \in SUBSET Paths
  OBVIOUS
<1> DEFINE done == [NoJob EXCEPT !.op = {Target(e)}]
<1>3. /\ NoJob \in Jobs
      /\ NoJob.parents = {} /\ NoJob.open = {} /\ NoJob.visit = {} /\ NoJob.look = {}
      /\ NoJob.tree = FALSE
  BY NoJobIs DEF NoJob
<1>4. /\ done \in Jobs
      /\ done.parents = {} /\ done.open = {} /\ done.visit = {} /\ done.look = {}
      /\ done.tree = FALSE
  BY <1>2, NoJobIs DEF NoJob, Jobs
<1> HIDE DEF done
<1>5. \A j \in {NoJob, processMovedFrom(e), processMovedTo(e), processDelete(e)} :
        j \in {NoJob, done}
  BY <1>1 DEF done
<1>6. QED
  BY <1>3, <1>4, <1>5

\* What an unread event is about.
LEMMA UnreadIs ==
  ASSUME KernelInv, Live, NEW e \in Unread
  PROVE  /\ e \in Event /\ EventOK(e) /\ e.wd \in Wds
         /\ Base(e) \in Paths /\ Target(e) \in Paths
<1>1. e \in Event
  BY RangeOfSeq DEF Unread, KernelInv, WatcherInv, WatcherTypeOK, Jobs
<1>2. EventOK(e)
  BY DEF KernelInv, EventsOK
<1>3. Base(e) \in Paths /\ e.wd \in Wds
  BY <1>1 DEF Event, Wds, Base
<1>4. QED
  BY <1>1, <1>2, <1>3 DEF EventOK

LEMMA ReadType ==
  ASSUME KernelInv, Live, NEW e \in Unread
  PROVE  processEvent(e) \in Jobs
<1>0. WatcherInv
  BY DEF KernelInv
<1>1. e \in Event /\ e.wd \in Wds /\ Base(e) \in Paths /\ Target(e) \in Paths
  BY UnreadIs
<1>2. /\ processCloseWrite(e) \in Jobs /\ processCreate(e) \in Jobs
      /\ processDeleteSelf(e) \in Jobs
  BY <1>0, <1>1, CloseWriteIs, MakeDirIs, DeleteSelfIs
<1>3. QED
  BY <1>1, <1>2, JobCases, OthersAre

\* Each step leaves the job a job.
LEMMA NextJobs == KernelInv /\ [Next]_watcherVars => job' \in Jobs
<1> SUFFICES ASSUME KernelInv, [Next]_watcherVars
             PROVE  job' \in Jobs
  OBVIOUS
<1>0. /\ WatcherInv /\ Idle /\ job \in Jobs /\ <<>> \in exists /\ exists \subseteq Paths
  BY DEF KernelInv, WatcherInv, WatcherTypeOK, MarksInv
<1>f. /\ job.parents \subseteq Paths /\ job.open \subseteq Paths
      /\ job.visit \subseteq Paths /\ job.look \subseteq Paths
  BY <1>0 DEF Jobs
<1>1. CASE addDataWatcher
  <2>1. cfg.path \in Paths
    BY <1>0, ConfigIs
  <2>2. QED
    BY <1>0, <1>1, <2>1, CreateIs DEF addDataWatcher
<1>2. CASE Release
  BY <1>2, NoJobIs DEF Release
<1>3. CASE ReadEvent /\ ~Release
  <2>1. monitor = "running" /\ queue # <<>> /\ queue' = Tail(queue)
    BY <1>3 DEF ReadEvent, Consume
  <2>2. job' = [processEvent(Head(queue)) EXCEPT !.event = <<Head(queue)>>]
    BY <1>3 DEF ReadEvent, Fail
  <2>3. Head(queue) \in Event /\ Head(queue) \in Unread /\ Live
    BY <1>0, <2>1, HeadUnread DEF Unread, Live
  <2>4. processEvent(Head(queue)) \in Jobs /\ <<Head(queue)>> \in Seq(Event)
    BY <2>3, ReadType
  <2>5. QED
    BY <2>2, <2>4, JobWith
<1>4. CASE WatchParent
  <2>1. PICK p : job' = [job EXCEPT !.parents = @ \ {p}]
    BY <1>4 DEF WatchParent
  <2>2. job.parents \ {p} \in SUBSET Paths
    BY <1>f
  <2>3. QED
    BY <1>0, <2>1, <2>2, JobWith
<1>5. CASE ListDirectory
  <2>1. PICK d : job' = [job EXCEPT
                   !.open = {},
                   !.visit = @ \cup {p \in exists \ {<<>>} :
                                      Front(p) = d /\ (p \in Dirs \/ job.tree)}]
    BY <1>5 DEF ListDirectory
  <2> DEFINE in == job.visit \cup {p \in exists \ {<<>>} :
                                    Front(p) = d /\ (p \in Dirs \/ job.tree)}
  <2>2. in \in SUBSET Paths /\ job' = [job EXCEPT !.open = {}, !.visit = in]
    BY <1>0, <1>f, <2>1
  <2> HIDE DEF in
  <2>3. QED
    BY <1>0, <2>2 DEF Jobs
<1>6. CASE Visit
  <2>1. PICK p \in job.visit : job' = [job EXCEPT !.visit = @ \ {p}, !.open = {p} \cap Dirs]
    BY <1>6 DEF Visit
  <2>2. job.visit \ {p} \in SUBSET Paths /\ {p} \cap Dirs \in SUBSET Paths
    BY <1>f
  <2>3. QED
    BY <1>0, <2>1, <2>2 DEF Jobs
<1>7. CASE LookAtInclude
  <2>1. PICK x \in job.look :
          job' = [job EXCEPT
                    !.look = @ \ {x},
                    !.visit = {x} \cap exists,
                    !.parents = {getExistingParentPath(x) : o \in {x} \ exists}]
    BY <1>7 DEF LookAtInclude
  <2>2. getExistingParentPath(x) \in Paths
    BY <1>0, <1>f, NearestIs
  <2> DEFINE up == {getExistingParentPath(x) : o \in {x} \ exists}
             in == {x} \cap exists
             rest == job.look \ {x}
  <2>3. up \in SUBSET Paths /\ in \in SUBSET Paths /\ rest \in SUBSET Paths
    BY <1>0, <1>f, <2>2
  <2>4. job' = [job EXCEPT !.look = rest, !.visit = in, !.parents = up]
    BY <2>1
  <2> HIDE DEF up, in, rest
  <2>5. QED
    BY <1>0, <2>3, <2>4 DEF Jobs
<1>8. CASE Return
  BY <1>8, NoJobIs DEF Return
<1>9. CASE WatcherFails \/ StepFails \/ stop
  BY <1>2, <1>9 DEF WatcherFails, StepFails, stop, Fail
<1>10. CASE SkipEvent \/ ReadAfterStop \/ UNCHANGED watcherVars
  BY <1>0, <1>10 DEF SkipEvent, ReadAfterStop, watcherVars
<1>11. ASSUME NEW p \in Paths, NEW q \in Paths,
              Write(p) \/ MakeDir(p) \/ Delete(p) \/ Rename(p, q)
       PROVE  job' \in Jobs
  BY <1>0, <1>11 DEF Write, MakeDir, Delete, Rename, Changes
<1>12. QED
  BY <1>1, <1>2, <1>3, <1>4, <1>5, <1>6, <1>7, <1>8, <1>9, <1>10, <1>11
     DEF Next, HandlerStep

\* The events about a path say what it is, where it is and what happened.
LEMMA ReportedInDir ==
  ASSUME KernelInv, Live, NEW p \in Paths \ {<<>>}, NEW kind, NEW cookie,
         NEW e \in InDirReported(p, kind, cookie)
  PROVE  /\ Front(p) \in DOMAIN mark /\ Emits(mark[Front(p)].mask, kind)
         /\ e.wd = mark[Front(p)].wd /\ e.kind = kind /\ e.cookie = cookie
         /\ e.name = <<Last(p)>> /\ e.name # <<>>
         /\ Target(e) = p /\ Base(e) = Front(p)
<1>1. /\ Front(p) \in DOMAIN mark /\ Emits(mark[Front(p)].mask, kind)
      /\ e = [wd |-> mark[Front(p)].wd, name |-> <<Last(p)>>, kind |-> kind,
              cookie |-> cookie]
  BY DEF InDirReported, Reported
<1>2. mark[Front(p)].wd.path = Front(p)
  BY <1>1, FrontIs DEF KernelInv, MarkPaths
<1>3. QED
  BY <1>1, <1>2, FrontIs DEF Target, Base

\* A file renamed after its watch was added reports itself under its old name.
LEMMA ReportedSelf ==
  ASSUME KernelInv, Live, NEW p \in Paths, NEW kind,
         NEW e \in SelfReported(p, kind)
  PROVE  /\ p \in DOMAIN mark
         /\ e.wd = mark[p].wd /\ e.kind = kind /\ e.name = <<>>
         /\ Target(e) = Base(e) /\ Base(e) \in Paths
         /\ p \in Dirs => Base(e) = p
         /\ p \in Files => Base(e) \in Files
<1>1. /\ p \in DOMAIN mark
      /\ e = [wd |-> mark[p].wd, name |-> <<>>, kind |-> kind, cookie |-> <<>>]
  BY DEF SelfReported, Reported
<1>2. /\ p \in Dirs => mark[p].wd.path = p
      /\ p \in Files => mark[p].wd.path \in Files
  BY <1>1 DEF KernelInv, MarkPaths
<1>3. mark[p].wd.path \in Paths
  BY <1>1 DEF KernelInv, WatcherInv, MarksInv, Wds
<1>4. mark[p].wd.path \in Seq(Components)
  BY <1>3, PathIsSeq
<1>5. mark[p].wd.path \o <<>> = mark[p].wd.path
  BY <1>4, ConcatEmptySeq
<1>6. QED
  BY <1>1, <1>2, <1>3, <1>5 DEF Target, Base

LEMMA InDirOK ==
  ASSUME KernelInv, Live, NEW p \in Paths \ {<<>>}, NEW kind, NEW cookie,
         NEW e \in InDirReported(p, kind, cookie),
         kind # "delete_self", kind \in {"close_write", "delete"} => p \in Files,
         kind = "make_dir" => p \in Dirs
  PROVE  EventOK(e)
BY ReportedInDir DEF EventOK

LEMMA SelfOK ==
  ASSUME KernelInv, Live, NEW p \in Paths,
         NEW kind \in {"close_write", "delete_self"},
         NEW e \in SelfReported(p, kind), kind = "close_write" => p \in Files
  PROVE  EventOK(e)
BY ReportedSelf DEF EventOK

\* A path is made in a directory that exists, and removed with nothing in it.
LEMMA NextTree == KernelInv /\ [Next]_watcherVars => TreeInv'
<1> SUFFICES ASSUME KernelInv, [Next]_watcherVars
             PROVE  TreeInv'
  OBVIOUS
<1>0. TreeInv /\ WatcherInv /\ exists \subseteq Paths
  BY DEF KernelInv, WatcherInv, MarksInv
<1>1. ASSUME exists' = exists PROVE TreeInv'
  BY <1>0, <1>1 DEF TreeInv
<1>2. CASE addDataWatcher \/ WatcherFails \/ SkipEvent \/ ReadEvent \/ HandlerStep
           \/ stop \/ ReadAfterStop \/ UNCHANGED watcherVars
  <2>1. exists' = exists
    BY <1>2 DEF addDataWatcher, WatcherFails, SkipEvent, ReadEvent, HandlerStep,
                WatchParent, ListDirectory, Visit, LookAtInclude, Return, StepFails,
                stop, ReadAfterStop, Fail, stepVars, watcherVars, tree
  <2>2. QED
    BY <1>1, <2>1
<1>3. ASSUME NEW p \in Paths \ {<<>>}, Front(p) \in exists, NEW q \in Paths, IsPrefix(q, p)
      PROVE  q \in exists \cup {p}
  <2>1. q # p => IsPrefix(q, Front(p))
    BY <1>3, FrontIs
  <2>2. QED
    BY <1>0, <1>3, <2>1 DEF TreeInv
<1>4. ASSUME NEW p \in Paths, Write(p) \/ MakeDir(p) PROVE TreeInv'
  <2>1. p # <<>> /\ Front(p) \in exists /\ exists' = exists \cup {p}
    BY <1>0, <1>4, WriteReports, MakeDirReports DEF Write, MakeDir
  <2>2. QED
    BY <1>0, <1>3, <2>1 DEF TreeInv
<1>5. ASSUME NEW p \in Paths, Delete(p) PROVE TreeInv'
  <2>1. Existing(p) = {} /\ exists' = exists \ {p}
    BY <1>5 DEF Delete
  <2>2. \A q \in exists' : ~IsPrefix(p, q)
    BY <2>1 DEF Existing, IsStrictPrefix
  <2>3. QED
    BY <1>0, <2>1, <2>2 DEF TreeInv
<1>6. ASSUME NEW p \in Paths, NEW q \in Paths, Rename(p, q) PROVE TreeInv'
  <2>1. p # <<>> /\ q # <<>> /\ p \in Files /\ p # q
    BY <1>0, <1>6, RenameReports
  <2>2. /\ Front(q) \in exists /\ exists' = (exists \ {p}) \cup {q}
        /\ Existing(p) = {}
    BY <1>6 DEF Rename
  <2>3. \A o \in exists : IsPrefix(p, o) => o = p
    BY <2>2 DEF Existing, IsStrictPrefix
  <2>4. ~IsPrefix(p, q)
    BY <2>1, ParentIsDir DEF Files
  <2>5. QED
    BY <1>0, <1>3, <2>1, <2>2, <2>3, <2>4 DEF TreeInv
<1>7. QED
  BY <1>2, <1>4, <1>5, <1>6 DEF Next

\* Each step of a handler: what it does to the job.
LEMMA ReadIs ==
  ASSUME KernelInv, ReadEvent, Live'
  PROVE  /\ monitor = "running" /\ monitor' = "running" /\ UNCHANGED <<tree, mark, watches>>
         /\ UNCHANGED <<dirty, raced>>
         /\ job = NoJob /\ ~Skipped(Head(queue)) /\ queue' = Tail(queue)
         /\ Head(queue) \in Unread /\ Head(queue) \in Event /\ Head(queue).wd \in watches
         /\ Unread' = Unread
         /\ processEvent(Head(queue)) \in Jobs
         /\ job' = [processEvent(Head(queue)) EXCEPT !.event = <<Head(queue)>>]
<1>0. /\ WatcherInv /\ Idle /\ monitor = "running" /\ Live /\ ~Busy
      /\ queue # <<>> /\ queue' = Tail(queue) /\ ~Skipped(Head(queue))
  BY DEF ReadEvent, Consume, KernelInv, Live
<1>1. ~Fail
  BY DEF Fail, Live
<1>2. /\ Head(queue).wd \in watches
      /\ UNCHANGED <<tree, mark, watches, monitor, dirty, raced>>
      /\ job' = [processEvent(Head(queue)) EXCEPT !.event = <<Head(queue)>>]
  BY <1>1 DEF ReadEvent
<1>3. /\ Head(queue) \in Event
      /\ Range(queue) = {Head(queue)} \cup Range(queue')
  BY <1>0, HeadUnread
<1>4. job = NoJob /\ job.event = <<>>
  BY <1>0 DEF Idle, NoJob
<1>5. Unread = Range(queue) /\ Head(queue) \in Unread
  BY <1>3, <1>4 DEF Unread, Range
<1>6. processEvent(Head(queue)) \in Jobs
  BY <1>0, <1>5, ReadType
<1>7. job'.event = <<Head(queue)>>
  BY <1>2, <1>6 DEF Jobs
<1>8. Range(<<Head(queue)>>) = {Head(queue)}
  BY DEF Range
<1>9. Unread' = Unread
  BY <1>3, <1>5, <1>7, <1>8 DEF Unread
<1>10. QED
  BY <1>0, <1>2, <1>3, <1>4, <1>5, <1>6, <1>9

\* The job keeps its event, and what it will do at the end.
LEMMA WalkIs ==
  ASSUME KernelInv, WatchParent \/ ListDirectory \/ Visit \/ LookAtInclude
  PROVE  /\ UNCHANGED stepVars /\ Unread' = Unread
         /\ UNCHANGED <<job.event, job.drop, job.tree>>
<1>1. job \in Jobs /\ UNCHANGED stepVars
  BY DEF KernelInv, WatcherInv, WatcherTypeOK, WatchParent, ListDirectory, Visit,
         LookAtInclude
<1>2. UNCHANGED <<job.event, job.drop, job.tree>>
  BY <1>1 DEF WatchParent, ListDirectory, Visit, LookAtInclude, Jobs
<1>3. QED
  BY <1>1, <1>2 DEF Unread, stepVars

\* What Visit does to the watches.
LEMMA VisitIs ==
  ASSUME Visit
  PROVE  \E p \in job.visit :
           /\ \/ MaskFor(p) = "none" /\ UNCHANGED <<mark, watches>>
              \/ /\ MaskFor(p) \in {"full", "outer"} /\ CanAdd(p)
                 /\ \E drop : /\ addToWatchList(p, MaskFor(p), drop)
                              /\ drop = {} \/ \E wd \in PassedBy(p) : drop = {wd}
           /\ job' = [job EXCEPT !.visit = @ \ {p}, !.open = {p} \cap Dirs]
           /\ job.open = {}
<1>1. PICK p \in job.visit :
        /\ job.open = {}
        /\ IF MaskFor(p) = "none" THEN UNCHANGED <<mark, watches>>
           ELSE /\ CanAdd(p)
                /\ \E drop \in {{wd} : wd \in PassedBy(p)} \cup
                               {d \in {{}} : PassedBy(p) = {}} :
                     addToWatchList(p, MaskFor(p), drop)
        /\ job' = [job EXCEPT !.visit = @ \ {p}, !.open = {p} \cap Dirs]
  BY DEF Visit
<1>2. QED
  BY <1>1, MaskIs

\* What keeps a mark keeps its descriptor, and no unread event has a new one.
LEMMA AddKeeps ==
  ASSUME WatcherInv, NEW p, NEW mask, NEW drop, CanAdd(p), addToWatchList(p, mask, drop)
  PROVE  \A q \in DOMAIN mark' :
           \/ q \in DOMAIN mark /\ mark'[q].wd = mark[q].wd
           \/ /\ q \in exists /\ mark'[q].wd.path = q
              /\ \A e \in Unread : e.wd # mark'[q].wd
<1>0. job.event \in Seq(Event) /\ queue \in Seq(Event) /\ p \in exists
  BY DEF WatcherInv, WatcherTypeOK, Jobs, CanAdd
<1>1. \A q \in DOMAIN mark' :
        \/ q = p /\ mark'[q].wd = WdFor(p)
        \/ q # p /\ q \in DOMAIN mark /\ mark'[q] = mark[q]
  <2>1. /\ \A q : q \in DOMAIN mark' <=>
             \/ q = p /\ WdFor(p) \notin drop
             \/ q # p /\ q \in DOMAIN mark /\ mark[q].wd \notin drop
        /\ p \in DOMAIN mark' => mark'[p] = [wd |-> WdFor(p), mask |-> mask]
        /\ \A q \in DOMAIN mark' : q # p => mark'[q] = mark[q]
        /\ watches' = (watches \cup {WdFor(p)}) \ drop
    BY AddIs, Zenon
  <2>2. [wd |-> WdFor(p), mask |-> mask].wd = WdFor(p)
    OBVIOUS
  <2>3. QED
    BY <2>1, <2>2, Zenon
<1>2. p \in DOMAIN mark => WdFor(p) = mark[p].wd
  BY WdForIs
<1>3. p \notin DOMAIN mark =>
        /\ WdFor(p).path = p
        /\ \A i \in DOMAIN Unhandled : Unhandled[i].wd # WdFor(p)
  BY WdForIs
<1>4. ASSUME p \notin DOMAIN mark, NEW e \in Unread PROVE e.wd # WdFor(p)
  <2>1. \E i \in DOMAIN Unhandled : Unhandled[i] = e
    BY <1>0, UnhandledIs DEF Unread, Unhandled
  <2>2. QED
    BY <1>3, <1>4, <2>1
<1>5. QED
  BY <1>0, <1>1, <1>2, <1>3, <1>4

\* While nothing new happens, the marks and the events go on to agree.
LEMMA QuietKernel ==
  ASSUME KernelInv, Live, UNCHANGED tree, Unread' \subseteq Unread,
         \A p \in DOMAIN mark' :
           \/ p \in DOMAIN mark /\ mark'[p].wd = mark[p].wd
           \/ /\ p \in exists /\ mark'[p].wd.path = p
              /\ \A e \in Unread : e.wd # mark'[p].wd
  PROVE  (MarkPaths /\ EventsOK /\ DeadWds)'
<1>0. MarkPaths /\ EventsOK /\ DeadWds /\ exists \subseteq Paths
  BY DEF KernelInv, WatcherInv, MarksInv
<1>1. MarkPaths'
  BY <1>0 DEF MarkPaths, Files
<1>2. EventsOK'
  BY <1>0 DEF EventsOK, EventOK, Target, Base, Files
<1>3. DeadWds'
  BY <1>0 DEF DeadWds
<1>4. QED
  BY <1>1, <1>2, <1>3

\* A watcher that does not live has neither marks nor entries, and there is no
\* job without a handler at work.
LEMMA NextIdle == KernelInv /\ [Next]_watcherVars => Idle'
<1> SUFFICES ASSUME KernelInv, [Next]_watcherVars
             PROVE  Idle'
  OBVIOUS
<1>0. Idle /\ WatcherInv /\ job \in Jobs
  BY DEF KernelInv, WatcherInv, WatcherTypeOK
<1>n. NoJob.event = <<>>
  BY DEF NoJob
<1>1. CASE addDataWatcher
  <2>1. job'.event = <<>> /\ monitor' = "starting" /\ dirty' = dirty /\ dirty = {}
    BY <1>0, <1>1, ConfigIs, CreateIs DEF addDataWatcher, Idle
  <2>2. QED
    BY <2>1 DEF Idle, Live, Busy
<1>2. ASSUME Release, monitor' \notin {"new", "starting", "running"} PROVE Idle'
  BY <1>n, <1>2 DEF Release, Idle, Live, Busy
<1>3. CASE WatcherFails \/ StepFails \/ stop
  BY <1>2, <1>3 DEF WatcherFails, StepFails, stop, Fail
<1>4. CASE SkipEvent
  BY <1>0, <1>4 DEF SkipEvent, watcher, Idle, Live, Busy
<1>5. CASE ReadEvent
  <2>1. CASE Fail
    BY <1>2, <2>1 DEF Fail
  <2>2. CASE ~Fail
    <3>1. monitor' = "running"
      BY <1>5, <2>2 DEF ReadEvent
    <3>2. job'.event = <<Head(queue)>>
      BY <1>5, <3>1, ReadIs DEF Live, Jobs
    <3>3. job'.event # <<>>
      BY <3>2
    <3>4. QED
      BY <3>1, <3>3 DEF Idle, Live, Busy
  <2>3. QED
    BY <2>1, <2>2
<1>6. CASE WatchParent \/ ListDirectory \/ Visit \/ LookAtInclude
  <2>1. UNCHANGED <<monitor, dirty, job.event>>
    BY <1>6, WalkIs DEF stepVars
  <2>2. Busy
    <3>1. /\ NoJob.parents = {} /\ NoJob.open = {} /\ NoJob.visit = {}
          /\ NoJob.look = {}
      BY DEF NoJob
    <3>2. ~(/\ job.parents = {} /\ job.open = {} /\ job.visit = {}
            /\ job.look = {})
      BY <1>6 DEF WatchParent, ListDirectory, Visit, LookAtInclude
    <3>3. QED
      BY <1>0, <3>1, <3>2 DEF Idle
  <2>3. QED
    BY <1>0, <2>1, <2>2 DEF Idle, Live, Busy
<1>7. CASE Return
  BY <1>n, <1>7 DEF Return, Idle, Live, Busy
<1>8. CASE ReadAfterStop
  BY <1>0, <1>8 DEF ReadAfterStop, Idle, Live, Busy
<1>9. ASSUME NEW p \in Paths, NEW q \in Paths,
             Write(p) \/ MakeDir(p) \/ Delete(p) \/ Rename(p, q)
      PROVE  Idle'
  <2>1. UNCHANGED <<monitor, job>> /\ monitor \in {"starting", "running"}
    BY <1>9 DEF Write, MakeDir, Delete, Rename, Changes
  <2>2. monitor # "running" => dirty' = dirty
    BY <1>9 DEF Write, MakeDir, Delete, Rename, Change
  <2>3. QED
    BY <1>0, <2>1, <2>2 DEF Idle, Live, Busy
<1>10. CASE UNCHANGED watcherVars
  BY <1>0, <1>10 DEF watcherVars, watcher, Idle, Live, Busy
<1>11. QED
  BY <1>1, <1>3, <1>4, <1>5, <1>6, <1>7, <1>8, <1>9, <1>10 DEF Next, HandlerStep

\* Whatever other programs do, the marks keep their paths and the events say
\* what happened; what a delete or a rename takes a mark from reports it.
LEMMA WriteKernel ==
  ASSUME KernelInv, NEW p \in Paths, Write(p) \/ MakeDir(p)
  PROVE  (MarkPaths /\ EventsOK /\ DeadWds)'
<1>0. WatcherInv /\ MarkPaths /\ EventsOK /\ DeadWds /\ Live
  BY DEF KernelInv, Write, MakeDir, Changes, Live
<1>1. mark' = mark /\ p # <<>>
  BY <1>0, WriteReports, MakeDirReports DEF Write, MakeDir
<1>2. MarkPaths'
  BY <1>0, <1>1 DEF MarkPaths, Files
<1>3. \A e \in Unread' : e \in Unread \/ (EventOK(e) /\ e.kind # "delete_self")
  <2>1. CASE Write(p)
    <3>1. p \in Files
      BY <2>1 DEF Write
    <3>2. \A e \in InDirReported(p, "create", <<>>) \cup InDirReported(p, "close_write", <<>>) :
            EventOK(e) /\ e.kind # "delete_self"
      BY <1>0, <1>1, <3>1, InDirOK, ReportedInDir
    <3>3. \A e \in SelfReported(p, "close_write") : EventOK(e) /\ e.kind # "delete_self"
      BY <1>0, <3>1, SelfOK, ReportedSelf
    <3>4. QED
      BY <1>0, <2>1, <3>2, <3>3, WriteReports
  <2>2. CASE MakeDir(p)
    <3>1. p \in Dirs
      BY <2>2 DEF MakeDir
    <3>2. \A e \in InDirReported(p, "make_dir", <<>>) : EventOK(e) /\ e.kind # "delete_self"
      BY <1>0, <1>1, <3>1, InDirOK, ReportedInDir
    <3>3. QED
      BY <1>0, <2>2, <3>2, MakeDirReports
  <2>3. QED
    BY <2>1, <2>2
<1>4. EventsOK'
  BY <1>0, <1>3 DEF EventsOK, EventOK, Target, Base, Files
<1>5. DeadWds'
  BY <1>0, <1>1, <1>3 DEF DeadWds
<1>6. QED
  BY <1>2, <1>4, <1>5

LEMMA DeleteKernel ==
  ASSUME KernelInv, NEW p \in Paths, Delete(p)
  PROVE  (MarkPaths /\ EventsOK /\ DeadWds)'
<1>0. /\ WatcherInv /\ MarkPaths /\ EventsOK /\ DeadWds /\ Live
      /\ MapMatchesKernel /\ p # <<>>
  BY DeleteReports DEF KernelInv, WatcherInv, MarksInv
<1>1. DOMAIN mark' = DOMAIN mark \ {p} /\ \A o \in DOMAIN mark' : mark'[o] = mark[o]
  BY DEF Delete
<1>2. MarkPaths'
  BY <1>0, <1>1 DEF MarkPaths, Files
<1> DEFINE kind == IF p \in Dirs THEN "delete_dir" ELSE "delete"
<1>3. \A e \in SelfReported(p, "delete_self") :
        EventOK(e) /\ p \in DOMAIN mark /\ e.wd = mark[p].wd
  BY <1>0, SelfOK, ReportedSelf
<1>4. \A e \in InDirReported(p, kind, <<>>) : EventOK(e) /\ e.kind # "delete_self"
  <2>1. kind # "delete_self" /\ kind \notin {"close_write", "make_dir"}
        /\ (kind = "delete" => p \in Files)
    BY DEF Files
  <2>2. QED
    BY <1>0, <2>1, InDirOK, ReportedInDir
<1>5. Unread' = Unread \cup SelfReported(p, "delete_self") \cup InDirReported(p, kind, <<>>)
  BY <1>0, DeleteReports
<1> HIDE DEF kind
<1>6. EventsOK'
  BY <1>0, <1>3, <1>4, <1>5 DEF EventsOK, EventOK, Target, Base, Files
<1>7. DeadWds'
  BY <1>0, <1>1, <1>3, <1>4, <1>5 DEF DeadWds, MapMatchesKernel
<1>8. QED
  BY <1>2, <1>6, <1>7

LEMMA RenameKernel ==
  ASSUME KernelInv, NEW p \in Paths, NEW q \in Paths, Rename(p, q)
  PROVE  (MarkPaths /\ EventsOK /\ DeadWds)'
<1>0. /\ WatcherInv /\ MarkPaths /\ EventsOK /\ DeadWds /\ Live
      /\ MapMatchesKernel
      /\ p \in Files /\ q \in Files /\ p # q /\ p # <<>> /\ q # <<>>
  BY RenameReports DEF KernelInv, WatcherInv, MarksInv, Rename, Changes, Live
<1> DEFINE Old(o) == IF o = q THEN p ELSE o
<1>1. /\ \A o \in DOMAIN mark' : Old(o) \in DOMAIN mark /\ mark'[o] = mark[Old(o)]
      /\ DOMAIN mark' \subseteq exists' /\ exists' = (exists \ {p}) \cup {q}
  BY DEF Rename
<1>2. MarkPaths'
  BY <1>0, <1>1 DEF MarkPaths, Files
<1>3. \A e \in SelfReported(q, "delete_self") :
        EventOK(e) /\ q \in DOMAIN mark /\ e.wd = mark[q].wd
  BY <1>0, SelfOK, ReportedSelf
<1>4. \A e \in InDirReported(p, "moved_from", <<p, q>>)
                 \cup InDirReported(q, "moved_to", <<p, q>>) :
        EventOK(e) /\ e.kind # "delete_self"
  BY <1>0, InDirOK, ReportedInDir
<1>5. Unread' = Unread \cup InDirReported(p, "moved_from", <<p, q>>)
              \cup InDirReported(q, "moved_to", <<p, q>>)
              \cup SelfReported(q, "delete_self")
  BY <1>0, RenameReports
<1>6. EventsOK'
  BY <1>0, <1>3, <1>4, <1>5 DEF EventsOK, EventOK, Target, Base, Files
<1>7. DeadWds'
  <2>1. \A o \in DOMAIN mark' : Old(o) # q /\ Old(o) \in DOMAIN mark
    BY <1>0, <1>1
  <2>2. QED
    BY <1>0, <1>1, <1>3, <1>4, <1>5, <2>1 DEF DeadWds, MapMatchesKernel
<1>8. QED
  BY <1>2, <1>6, <1>7

\* Every step keeps them.
LEMMA NextKernel == KernelInv /\ [Next]_watcherVars => KernelInv'
<1> SUFFICES ASSUME KernelInv, [Next]_watcherVars
             PROVE  KernelInv'
  OBVIOUS
<1>0. WatcherInv /\ job \in Jobs /\ MarksInv'
  BY NextMarks DEF KernelInv, WatcherInv, WatcherTypeOK
<1>1. TreeInv' /\ Idle' /\ job' \in Jobs
  BY NextTree, NextIdle, NextJobs
<1>2. WatcherInv'
  <2>1. /\ cfg' \in Configs /\ queue' \in Seq(Event) /\ moved' \subseteq Paths \X Paths
        /\ monitor' \in {"new", "starting", "running", "stopped", "ended", "failed"}
        /\ dirty' \subseteq Paths /\ raced' \in BOOLEAN
    BY <1>0, NextTypes
  <2>2. (job \in Jobs)' /\ (queue \in Seq(Event))'
    BY <1>1, <2>1 DEF Jobs, Event, Wds, Names, Kinds
  <2>3. WatcherTypeOK'
    BY <1>0, <2>1, <2>2 DEF MarksInv, WatcherTypeOK, Event, Wds, Names, Kinds
  <2>4. QED
    BY <1>0, <2>3 DEF WatcherInv
<1> SUFFICES ASSUME Live'
             PROVE  (MarkPaths /\ EventsOK /\ DeadWds)'
  BY <1>1, <1>2 DEF KernelInv
<1>k. ASSUME Live, UNCHANGED <<tree, mark>>, Unread' \subseteq Unread
      PROVE  (MarkPaths /\ EventsOK /\ DeadWds)'
  BY <1>k, QuietKernel
<1>3. CASE addDataWatcher
  <2>1. mark' = <<>> /\ queue' = <<>> /\ job'.event = <<>>
    BY <1>0, <1>3, ConfigIs, CreateIs
       DEF addDataWatcher, watcher, KernelInv, Idle, Live
  <2>2. Unread' = {}
    BY <2>1 DEF Unread, Range
  <2>3. QED
    BY <2>1, <2>2, NoMarks DEF MarkPaths, EventsOK, DeadWds
<1>4. CASE SkipEvent
  <2>1. /\ Live /\ UNCHANGED <<tree, mark, job>> /\ queue # <<>> /\ queue' = Tail(queue)
    BY <1>4 DEF SkipEvent, Consume, watcher, Live
  <2>2. Unread' \subseteq Unread
    BY <1>0, <2>1, HeadUnread DEF Unread
  <2>3. QED
    BY <1>k, <2>1, <2>2
<1>5. CASE ReadEvent
  <2>1. Live /\ UNCHANGED <<tree, mark>> /\ Unread' = Unread
    BY <1>5, ReadIs DEF Live
  <2>2. QED
    BY <1>k, <2>1
<1>6. CASE WatchParent \/ ListDirectory \/ Visit \/ LookAtInclude
  <2>1. Live /\ UNCHANGED tree /\ Unread' = Unread
    BY <1>6, WalkIs DEF stepVars, Live
  <2>2. \/ mark' = mark
        \/ \E p, mask, drop : CanAdd(p) /\ addToWatchList(p, mask, drop)
    <3>1. CASE WatchParent
      BY <3>1 DEF WatchParent
    <3>2. CASE Visit
      BY <3>2, VisitIs
    <3>3. CASE ListDirectory \/ LookAtInclude
      BY <3>3 DEF ListDirectory, LookAtInclude
    <3>4. QED
      BY <1>6, <3>1, <3>2, <3>3
  <2>3. CASE mark' = mark
    BY <1>k, <2>1, <2>3
  <2>4. ASSUME NEW p, NEW mask, NEW drop, CanAdd(p), addToWatchList(p, mask, drop)
        PROVE  (MarkPaths /\ EventsOK /\ DeadWds)'
    <3>1. \A q \in DOMAIN mark' :
            \/ q \in DOMAIN mark /\ mark'[q].wd = mark[q].wd
            \/ /\ q \in exists /\ mark'[q].wd.path = q
               /\ \A e \in Unread : e.wd # mark'[q].wd
      BY <1>0, <2>4, AddKeeps
    <3>2. QED
      BY <2>1, <3>1, QuietKernel
  <2>5. QED
    BY <2>2, <2>3, <2>4
<1>7. CASE Return
  <2>1. Live /\ UNCHANGED tree /\ queue' = queue /\ job' = NoJob
    <3>1. Busy => Live
      BY DEF Busy, Live, KernelInv, Idle
    <3>2. QED
      BY <1>7, <3>1 DEF Return
  <2>2. Unread' \subseteq Unread
    <3>1. NoJob.event = <<>> /\ Range(<<>>) = {}
      BY DEF NoJob, Range
    <3>2. QED
      BY <2>1, <3>1 DEF Unread
  <2>3. \A p \in DOMAIN mark' : p \in DOMAIN mark /\ mark'[p] = mark[p]
    <3>1. PICK drop : removeWatch(drop)
      BY <1>7 DEF Return
    <3>2. /\ DOMAIN mark' = {p \in DOMAIN mark : mark[p].wd \notin drop}
          /\ \A p \in DOMAIN mark' : mark'[p] = mark[p]
          /\ watches' = watches \ drop
      BY <3>1, RemoveIs, Zenon
    <3>3. QED
      BY <3>2
  <2>4. \A p \in DOMAIN mark' : p \in DOMAIN mark /\ mark'[p].wd = mark[p].wd
    BY <2>3
  <2>5. QED
    BY <2>1, <2>2, <2>4, QuietKernel
<1>8. ASSUME NEW p \in Paths, Write(p) \/ MakeDir(p)
      PROVE  (MarkPaths /\ EventsOK /\ DeadWds)'
  BY <1>8, WriteKernel
<1>9. ASSUME NEW p \in Paths, Delete(p) PROVE (MarkPaths /\ EventsOK /\ DeadWds)'
  BY <1>9, DeleteKernel
<1>10. ASSUME NEW p \in Paths, NEW q \in Paths, Rename(p, q)
       PROVE  (MarkPaths /\ EventsOK /\ DeadWds)'
  BY <1>10, RenameKernel
<1>11. CASE WatcherFails \/ StepFails \/ stop \/ ReadAfterStop
  BY <1>11 DEF WatcherFails, StepFails, Fail, stop, ReadAfterStop, Live
<1>12. CASE UNCHANGED watcherVars
  <2>1. Live /\ UNCHANGED <<tree, mark>> /\ Unread' = Unread
    BY <1>12 DEF watcherVars, watcher, tree, Live, Unread
  <2>2. QED
    BY <1>k, <2>1
<1>13. QED
  BY <1>3, <1>4, <1>5, <1>6, <1>7, <1>8, <1>9, <1>10, <1>11, <1>12
     DEF Next, HandlerStep

LEMMA InitKernel == Init => KernelInv
<1> SUFFICES ASSUME Init PROVE KernelInv
  OBVIOUS
<1>1. WatcherInv
  BY NoMarks, NoEvents, NoJobIs
     DEF Init, WatcherInv, WatcherTypeOK, MarksInv, MapMatchesKernel
<1>2. TreeInv
  BY DEF Init, TreeInv
<1>3. Idle /\ ~Live
  BY DEF Init, Idle, Live, Busy, NoJob
<1>4. QED
  BY <1>1, <1>2, <1>3 DEF KernelInv

LEMMA KernelInvariant == Spec => []KernelInv
BY InitKernel, NextKernel, PTL DEF Spec

\* The tree, the marks, the map, the events and the job have their types: every
\* mark is on something that exists, and a handler looks only at paths.
THEOREM WatcherTypeCorrect == Spec => []WatcherTypeOK
BY KernelInvariant, PTL DEF KernelInv, WatcherInv

\* Whatever is made, renamed, replaced and removed between any two steps of a
\* handler, and however late the watcher reads of it, no two objects share a
\* descriptor and none with a mark is unknown to the map: only an event that
\* outlives its mark finds no entry.
THEOREM MapIsExact == Spec => []MapMatchesKernel
BY KernelInvariant, PTL DEF KernelInv, WatcherInv, MarksInv

-----------------------------------------------------------------------------
(* The lists.                                                              *)

NotExcluded(p) ==
  \A x \in cfg.exclude : IF p \in Dirs THEN ~Starts(x, p) ELSE p # x
OnInclude(p) ==
  cfg.include # {} => \E x \in cfg.include : IsPrefix(x, p) \/ IsPrefix(p, x)

\* What events are not ignored of, whether it exists or not.
Fit(p) == NotExcluded(p) /\ OnInclude(p)

\* The string of a path is not shorter than one it starts with, and what goes on
\* from it starts with that one too.
LEMMA StartsIs ==
  ASSUME NEW x \in Paths, NEW q \in Paths, Starts(x, q)
  PROVE  /\ Len(x) <= Len(q)
         /\ \A p \in Paths : IsPrefix(q, p) => Starts(x, p)
<1>1. CASE IsPrefix(x, q)
  <2>1. \A p \in Paths : IsPrefix(q, p) => IsPrefix(x, p)
    BY <1>1, PrefixOrder
  <2>2. Len(x) <= Len(q)
    BY <1>1, PrefixOrder
  <2>3. QED
    BY <2>1, <2>2 DEF Starts, NameStarts
<1>2. CASE /\ x # <<>> /\ Len(x) <= Len(q) /\ IsPrefix(Front(x), q)
           /\ <<Last(x), q[Len(x)]>> \in NamePrefixes /\ x \notin Dirs
  <2> SUFFICES ASSUME NEW p \in Paths, IsPrefix(q, p)
               PROVE  NameStarts(x, p)
    BY <1>2 DEF Starts
  <2>1. IsPrefix(Front(x), p)
    BY <1>2, FrontIs, PrefixOrder
  <2>2. Len(x) \in 1..Len(q)
    BY <1>2, PathIsSeq
  <2>3. p[Len(x)] = q[Len(x)] /\ Len(q) <= Len(p)
    BY <2>2, PrefixIs
  <2>4. Len(x) <= Len(p)
    BY <1>2, <2>3, PathIsSeq
  <2>5. QED
    BY <1>2, <2>1, <2>3, <2>4 DEF NameStarts
<1>3. QED
  BY <1>1, <1>2 DEF Starts, NameStarts

\* The event of what is on no list is handled.
LEMMA FitIsListed ==
  ASSUME NEW p, Fit(p)
  PROVE  ~Unlisted(p)
BY DEF Fit, NotExcluded, OnInclude, Unlisted, isPathExcluded, isPathIncluded,
       isPathParentOfInclude

\* What a directory on no list is in, is on none.
LEMMA FitParent ==
  ASSUME WatcherInv, NEW p \in Dirs, Fit(p), NEW q \in Paths, IsPrefix(q, p)
  PROVE  Fit(q)
<1>0. p \in Paths /\ \A x \in cfg.exclude \cup cfg.include : x \in Paths
  BY ConfigIs, WatcherAssumption
<1>1. NotExcluded(q)
  <2> SUFFICES ASSUME NEW x \in cfg.exclude, Starts(x, q)
               PROVE  FALSE
    BY <1>0, PrefixOrder DEF NotExcluded, Starts, NameStarts
  <2>1. Starts(x, p)
    BY <1>0, StartsIs
  <2>2. QED
    BY <1>0, <2>1 DEF Fit, NotExcluded
<1>2. OnInclude(q)
  <2> SUFFICES ASSUME cfg.include # {}
               PROVE  \E x \in cfg.include : IsPrefix(x, q) \/ IsPrefix(q, x)
    BY DEF OnInclude
  <2>1. PICK x \in cfg.include : IsPrefix(x, p) \/ IsPrefix(p, x)
    BY DEF Fit, OnInclude
  <2>2. IsPrefix(x, q) \/ IsPrefix(q, x)
    BY <1>0, <2>1, PrefixOrder
  <2>3. QED
    BY <2>2
<1>3. QED
  BY <1>1, <1>2 DEF Fit

\* The lists are about what is in the configured directory.
LEMMA FitPath ==
  ASSUME WatcherInv, NEW q \in Paths, IsPrefix(q, cfg.path)
  PROVE  Fit(q)
<1>0. \A x \in cfg.exclude \cup cfg.include :
        x \in Paths /\ IsPrefix(cfg.path, x) /\ x # cfg.path
  BY ConfigIs
<1>1. NotExcluded(q)
  <2> SUFFICES ASSUME NEW x \in cfg.exclude, Starts(x, q)
               PROVE  FALSE
    BY <1>0, PrefixOrder DEF NotExcluded, Starts, NameStarts
  <2>1. /\ cfg.path \in Paths /\ x \in Paths /\ IsPrefix(cfg.path, x) /\ x # cfg.path
    BY <1>0, ConfigIs
  <2>2. Len(x) <= Len(q) /\ Len(q) <= Len(cfg.path) /\ Len(cfg.path) <= Len(x)
    BY <2>1, StartsIs, PrefixOrder
  <2>3. Len(x) = Len(cfg.path)
    BY <2>1, <2>2, PathIsSeq
  <2>4. QED
    BY <2>1, <2>3, PrefixOrder
<1>2. OnInclude(q)
  BY <1>0, ConfigIs, PrefixOrder DEF OnInclude
<1>3. QED
  BY <1>1, <1>2 DEF Fit

\* What is on the way to an included path, or in it, is on no list.
LEMMA FitInclude ==
  ASSUME WatcherInv, NEW x \in cfg.include, NEW q \in Paths,
         IsPrefix(q, x) \/ IsPrefix(x, q)
  PROVE  Fit(q)
BY ConfigIs DEF Fit, NotExcluded, OnInclude

\* Reading the lists for what exists.
LEMMA FitExisting ==
  ASSUME WatcherInv, NEW q \in exists, ~isPathExcluded(q),
         cfg.include # {} => isPathIncluded(q) \/ isPathParentOfInclude(q)
  PROVE  Fit(q)
BY DEF Fit, NotExcluded, OnInclude, isPathExcluded, isPathIncluded, isPathParentOfInclude

\* The parent that is watched in place of what was deleted is on the way to the
\* configured path.
LEMMA NearestOnWay ==
  ASSUME WatcherInv, NEW b \in Paths, Starts(b, cfg.path)
  PROVE  /\ getExistingParentPath(b) \in Paths
         /\ IsPrefix(getExistingParentPath(b), cfg.path)
<1> DEFINE q == getExistingParentPath(b)
<1>0. /\ q \in Paths /\ IsPrefix(q, b) /\ (b \in Dirs \/ q # b)
      /\ cfg.path \in Paths
  BY NearestIs, ConfigIs DEF WatcherInv, MarksInv
<1>1. CASE IsPrefix(b, cfg.path)
  BY <1>0, <1>1, PrefixOrder
<1>2. CASE b \notin Dirs /\ b # <<>> /\ IsPrefix(Front(b), cfg.path)
  <2>1. Front(b) \in Paths /\ IsPrefix(q, Front(b))
    BY <1>0, <1>2, FrontIs
  <2>2. QED
    BY <1>0, <1>2, <2>1, PrefixOrder
<1>3. QED
  BY <1>0, <1>1, <1>2 DEF Starts, NameStarts

-----------------------------------------------------------------------------
(* The entries of the map.                                                 *)

\* Other programs have not overtaken a handler where that matters.
Quiet == cfg.include = {} \/ (Patient /\ ~raced)

WdsOK == \A wd \in watches : Fit(wd.path)

\* A directory made on the way to an included path is empty while that is not
\* handled.
EmptyParents ==
  \A e \in Unread :
    e.kind = "make_dir" /\ (\E x \in cfg.include : IsStrictPrefix(Target(e), x))
      => Existing(Target(e)) = {}

\* The handler walks what is in an included path, or the directory just made on
\* the way to one.
OnWalk(p) ==
  \/ isPathIncluded(p)
  \/ \E e \in Range(job.event) :
       /\ e.kind = "make_dir" /\ Target(e) = p
       /\ \E x \in cfg.include : IsStrictPrefix(p, x)

\* What the handler will watch is on no list, and the entry of what was deleted
\* goes when it is done.
WalkOK ==
  /\ \A p \in job.parents : Fit(p)
  /\ job.look \subseteq cfg.include
  /\ ~job.tree /\ cfg.include # {} => \A p \in job.open \cup job.visit : OnWalk(p)
  /\ \A e \in Range(job.event) : e.kind = "delete_self" => e.wd \in job.drop

\* NoStaleEntry without its exception, with the unread events as a set.
Fresh ==
  \A wd \in watches :
    \/ \E p \in DOMAIN mark : mark[p].wd = wd
    \/ \E e \in Unread : e.wd = wd /\ e.kind = "delete_self"

EntriesInv ==
  /\ KernelInv
  /\ Live /\ Quiet => WdsOK /\ EmptyParents /\ WalkOK /\ Fresh

\* The premise of the theorem: other programs leave the watcher time to read the
\* events, or there is no include list.
ListsPremise == Patient \/ \A g \in Configs : g.include = {}

LEMMA FreshIs ==
  ASSUME WatcherInv, Fresh
  PROVE  NoStaleEntry
<1>0. job.event \in Seq(Event) /\ queue \in Seq(Event)
  BY DEF WatcherInv, WatcherTypeOK, Jobs
<1>1. ASSUME NEW e \in Unread
      PROVE  \E i \in DOMAIN Unhandled : Unhandled[i] = e
  BY <1>0, UnhandledIs DEF Unread, Unhandled
<1>2. QED
  BY <1>1 DEF Fresh, NoStaleEntry

\* A watch is added with its entry, and another goes with its own.
LEMMA AddFresh ==
  ASSUME EntriesInv, Live, Quiet, NEW p \in exists, Fit(p), NEW mask, NEW drop,
         CanAdd(p), addToWatchList(p, mask, drop), UNCHANGED tree, Unread' = Unread
  PROVE  (WdsOK /\ Fresh)'
<1>0. WatcherInv /\ MarksInv /\ WdsOK /\ Fresh
  BY DEF EntriesInv, KernelInv, WatcherInv
<1>1. /\ \A q : q \in DOMAIN mark' <=>
           \/ q = p /\ WdFor(p) \notin drop
           \/ q # p /\ q \in DOMAIN mark /\ mark[q].wd \notin drop
      /\ p \in DOMAIN mark' => mark'[p] = [wd |-> WdFor(p), mask |-> mask]
      /\ \A q \in DOMAIN mark' : q # p => mark'[q] = mark[q]
      /\ watches' = (watches \cup {WdFor(p)}) \ drop
  BY AddIs, Zenon
<1>2. p \in DOMAIN mark => WdFor(p) = mark[p].wd /\ mark[p].wd \in watches
  BY <1>0, WdForIs DEF MarksInv, MapMatchesKernel
<1>3. p \notin DOMAIN mark => WdFor(p).path = p
  BY WdForIs
<1>4. \A wd \in watches' : Fit(wd.path)
  BY <1>0, <1>1, <1>2, <1>3 DEF WdsOK
<1>5. WdsOK'
  BY <1>4
     DEF WdsOK, Fit, NotExcluded, OnInclude, Starts, NameStarts, tree
<1>6. p \in DOMAIN mark' => mark'[p].wd = WdFor(p)
  BY <1>1
<1>7. ASSUME NEW wd \in watches'
      PROVE  \/ \E q \in DOMAIN mark' : mark'[q].wd = wd
             \/ \E e \in Unread : e.wd = wd /\ e.kind = "delete_self"
  <2>1. CASE wd = WdFor(p)
    <3>1. p \in DOMAIN mark' /\ mark'[p].wd = wd
      BY <1>1, <1>6, <1>7, <2>1
    <3>2. QED
      BY <3>1
  <2>2. CASE wd # WdFor(p)
    <3>1. wd \in watches /\ wd \notin drop
      BY <1>1, <1>7, <2>2
    <3>2. ASSUME NEW q \in DOMAIN mark, mark[q].wd = wd
          PROVE  \E r \in DOMAIN mark' : mark'[r].wd = wd
      <4>1. q # p
        BY <1>2, <2>2, <3>2
      <4>2. q \in DOMAIN mark' /\ mark'[q] = mark[q]
        BY <1>1, <3>1, <3>2, <4>1
      <4>3. QED
        BY <3>2, <4>2
    <3>3. QED
      BY <1>0, <3>1, <3>2 DEF Fresh
  <2>3. QED
    BY <2>1, <2>2
<1>8. Fresh'
  BY <1>7 DEF Fresh
<1>9. QED
  BY <1>5, <1>8

\* Each job does what is allowed of it, from the event on.
LEMMA ReadWalk ==
  ASSUME EntriesInv, Live, Quiet, NEW e \in Unread, e.wd \in watches
  PROVE  LET j == processEvent(e) IN
         /\ \A p \in j.parents : Fit(p)
         /\ j.look \subseteq cfg.include
         /\ ~j.tree /\ cfg.include # {} =>
              \A p \in j.open \cup j.visit :
                \/ isPathIncluded(p)
                \/ /\ e.kind = "make_dir" /\ Target(e) = p
                   /\ \E x \in cfg.include : IsStrictPrefix(p, x)
         /\ e.kind = "delete_self" => e.wd \in j.drop
<1>0. /\ WatcherInv /\ <<>> \in exists /\ exists \subseteq Paths
      /\ e \in Event /\ EventOK(e) /\ e.wd \in Wds
      /\ Base(e) \in Paths /\ Target(e) \in Paths /\ Fit(Base(e))
  BY UnreadIs DEF EntriesInv, KernelInv, WatcherInv, MarksInv, WdsOK, Base
<1>n. \A j \in {NoJob, processMovedFrom(e), processMovedTo(e), processDelete(e)} :
        j.parents = {} /\ j.open = {} /\ j.visit = {} /\ j.look = {}
  BY <1>0, OthersAre
<1>s. e.kind = "delete_self" => processEvent(e) = processDeleteSelf(e)
  <2>1. e.kind = "delete_self" => Target(e) = Base(e)
    BY <1>0 DEF EventOK
  <2>2. QED
    BY <1>0, <2>1, FitIsListed DEF processEvent
<1>1. CASE e.kind = "delete_self"
  <2> DEFINE j == processDeleteSelf(e)
  <2>1. /\ \/ j.parents = {}
           \/ /\ j.parents = {getExistingParentPath(Base(e))}
              /\ Starts(Base(e), cfg.path)
        /\ j.open = {} /\ j.visit = {} /\ j.look = {} /\ j.drop = {e.wd}
    BY <1>0, DeleteSelfIs
  <2>2. Starts(Base(e), cfg.path) => Fit(getExistingParentPath(Base(e)))
    BY <1>0, NearestOnWay, FitPath
  <2> HIDE DEF j
  <2>3. processEvent(e) = j
    BY <1>s, <1>1 DEF j
  <2>4. QED
    BY <2>1, <2>2, <2>3
<1>2. CASE e.kind = "close_write" /\ processEvent(e) = processCloseWrite(e)
  <2> DEFINE j == processCloseWrite(e)
  <2>1. /\ j.parents = {} /\ j.open = {} /\ j.look = {}
        /\ \/ j.visit = {}
           \/ j.visit = {cfg.path} /\ cfg.path \in exists /\ Target(e) = cfg.path
           \/ j.visit = {Target(e)} /\ isPathIncluded(Target(e))
    BY <1>0, CloseWriteIs
  <2>2. cfg.include # {} => Target(e) # cfg.path
    <3>1. Target(e) \in Files
      BY <1>0, <1>2 DEF EventOK
    <3>2. cfg.include # {} => cfg.path \in Dirs
      BY <1>0, ConfigIs, ParentIsDir
    <3>3. QED
      BY <3>1, <3>2 DEF Files
  <2> HIDE DEF j
  <2>3. processEvent(e) = j
    BY <1>2 DEF j
  <2>4. QED
    BY <1>2, <2>1, <2>2, <2>3
<1>3. CASE e.kind = "make_dir" /\ processEvent(e) = processCreate(e)
  <2> DEFINE j == processCreate(e)
             c == createWatchers(Target(e))
             p == Target(e)
  <2>1. /\ p \in Dirs \ {<<>>} /\ Base(e) = Front(p)
    BY <1>0, <1>3 DEF EventOK
  <2>2. \/ j.parents = {} /\ j.visit = {} /\ j.look = {} /\ j.open = {}
        \/ j.parents = {} /\ j.visit = {} /\ j.look = {} /\ j.tree = TRUE
        \/ /\ j.parents = c.parents /\ j.visit = c.visit /\ j.look = c.look
           /\ j.open = {}
    BY <1>0, MakeDirIs
  <2>3. /\ c.parents = {}
           \/ (p \notin exists /\ c.parents = {getExistingParentPath(p)})
        /\ \/ c.visit = {}
           \/ /\ c.visit = {p} /\ p \in exists
              /\ cfg.include # {} => isPathIncluded(p) \/ isPathParentOfInclude(p)
        /\ c.look \subseteq cfg.include
    BY <1>0, CreateIs
  <2>4. p \notin exists => Fit(getExistingParentPath(p))
    <3> SUFFICES ASSUME p \notin exists PROVE Fit(getExistingParentPath(p))
      OBVIOUS
    <3>1. /\ getExistingParentPath(p) \in Paths
          /\ IsPrefix(getExistingParentPath(p), p) /\ getExistingParentPath(p) # p
      BY <1>0, NearestIs
    <3>2. IsPrefix(getExistingParentPath(p), Front(p)) /\ Front(p) \in Dirs
      BY <1>0, <2>1, <3>1, FrontIs
    <3>3. QED
      BY <1>0, <2>1, <3>1, <3>2, FitParent
  <2>5. p \in exists /\ isPathParentOfInclude(p) =>
          \E x \in cfg.include : IsStrictPrefix(p, x)
    BY DEF isPathParentOfInclude, IsStrictPrefix
  <2> HIDE DEF j, c, p
  <2>6. processEvent(e) = j /\ Target(e) = p
    BY <1>3 DEF j, p
  <2>7. QED
    BY <1>3, <2>2, <2>3, <2>4, <2>5, <2>6
<1>4. CASE processEvent(e) \in
             {NoJob, processMovedFrom(e), processMovedTo(e), processDelete(e)}
           /\ e.kind # "delete_self"
  <2> DEFINE j == processEvent(e)
  <2>1. j.parents = {} /\ j.open = {} /\ j.visit = {} /\ j.look = {}
    BY <1>n, <1>4
  <2> HIDE DEF j
  <2>2. QED
    BY <1>4, <2>1 DEF j
<1>5. QED
  BY <1>0, <1>1, <1>2, <1>3, <1>4, JobCases

\* What stays true of the walk while the lists, the events and the includes stay.
LEMMA WalkStep ==
  ASSUME EntriesInv, Live, Quiet,
         WatchParent \/ ListDirectory \/ Visit \/ LookAtInclude
  PROVE  (WdsOK /\ EmptyParents /\ WalkOK /\ Fresh)'
<1>0. /\ KernelInv /\ WatcherInv /\ WdsOK /\ EmptyParents /\ WalkOK /\ Fresh
      /\ job \in Jobs /\ <<>> \in exists /\ exists \subseteq Paths
  BY DEF EntriesInv, KernelInv, WatcherInv, WatcherTypeOK, MarksInv
<1>1. /\ UNCHANGED <<tree, queue, raced>> /\ Unread' = Unread
      /\ job'.event = job.event /\ job'.drop = job.drop /\ job'.tree = job.tree
  BY <1>0, WalkIs DEF stepVars
<1>2. EmptyParents'
  BY <1>0, <1>1 DEF EmptyParents, Existing, Target, Base, tree
<1>k. ASSUME UNCHANGED <<mark, watches>> PROVE (WdsOK /\ Fresh)'
  BY <1>0, <1>1, <1>k
     DEF WdsOK, Fit, NotExcluded, OnInclude, Starts, NameStarts, tree, Fresh
<1> DEFINE Looks == /\ \A p \in job'.parents : Fit(p)
                    /\ job'.look \subseteq cfg.include
                    /\ ~job.tree /\ cfg.include # {} =>
                         \A p \in job'.open \cup job'.visit : OnWalk(p)
<1>3. ASSUME Looks PROVE WalkOK'
  <2>1. \A p : Fit(p) => Fit(p)'
    BY <1>1 DEF Fit, NotExcluded, OnInclude, Starts, NameStarts, tree
  <2>2. \A p : OnWalk(p) => OnWalk(p)'
    BY <1>1 DEF OnWalk, isPathIncluded, Target, Base, tree
  <2>3. \A e \in Range(job'.event) : e.kind = "delete_self" => e.wd \in job'.drop
    BY <1>0, <1>1 DEF WalkOK
  <2>4. QED
    BY <1>1, <1>3, <2>1, <2>2, <2>3 DEF WalkOK, tree
<1>4. CASE WatchParent
  <2>1. PICK p \in job.parents :
          /\ CanAdd(p) /\ addToWatchList(p, "outer", {})
          /\ job' = [job EXCEPT !.parents = @ \ {p}]
    BY <1>4 DEF WatchParent
  <2>2. /\ job'.parents \subseteq job.parents /\ job'.open = job.open
        /\ job'.visit = job.visit /\ job'.look = job.look
    BY <1>0, <2>1 DEF Jobs
  <2>3. Looks
    BY <1>0, <2>2 DEF WalkOK
  <2>4. p \in exists /\ Fit(p)
    BY <1>0, <2>1 DEF CanAdd, WalkOK
  <2>5. QED
    BY <1>1, <1>2, <1>3, <2>1, <2>3, <2>4, AddFresh
<1>5. CASE ListDirectory
  <2>1. PICK d \in job.open \cap exists :
          job' = [job EXCEPT
                    !.open = {},
                    !.visit = @ \cup {p \in exists \ {<<>>} :
                                       Front(p) = d /\ (p \in Dirs \/ job.tree)}]
    BY <1>5 DEF ListDirectory
  <2> DEFINE in == {p \in exists \ {<<>>} : Front(p) = d /\ (p \in Dirs \/ job.tree)}
  <2>2. job' = [job EXCEPT !.open = {}, !.visit = @ \cup in]
    BY <2>1
  <2> HIDE DEF in
  <2>3. /\ job'.parents = job.parents /\ job'.open = {}
        /\ job'.visit = job.visit \cup in /\ job'.look = job.look
    BY <1>0, <2>2 DEF Jobs
  <2>4. ASSUME ~job.tree, cfg.include # {}, NEW p \in in
        PROVE  OnWalk(p)
    <3>1. p \in exists /\ p # <<>> /\ Front(p) = d /\ p \in Paths
      BY <1>0, <2>4 DEF in
    <3>2. IsPrefix(d, p) /\ d # p /\ d \in Paths
      BY <3>1, FrontIs
    <3>3. CASE isPathIncluded(d)
      <4>1. isPathIncluded(p)
        BY <1>0, <3>1, <3>2, <3>3, ConfigIs, PrefixOrder DEF isPathIncluded
      <4>2. QED
        BY <4>1 DEF OnWalk
    <3>4. CASE \E e \in Range(job.event) :
                 /\ e.kind = "make_dir" /\ Target(e) = d
                 /\ \E x \in cfg.include : IsStrictPrefix(d, x)
      <4>1. Existing(d) = {}
        BY <1>0, <3>4 DEF EmptyParents, Unread
      <4>2. p \in Existing(d)
        BY <3>1, <3>2 DEF Existing, IsStrictPrefix
      <4>3. QED
        BY <4>1, <4>2
    <3>5. QED
      BY <1>0, <2>1, <2>4, <3>3, <3>4 DEF WalkOK, OnWalk
  <2>5. Looks
    BY <1>0, <2>3, <2>4 DEF WalkOK
  <2>6. UNCHANGED <<mark, watches>>
    BY <1>5 DEF ListDirectory
  <2>7. QED
    BY <1>2, <1>3, <1>k, <2>5, <2>6
<1>6. CASE Visit
  <2>1. PICK p \in job.visit :
          /\ \/ MaskFor(p) = "none" /\ UNCHANGED <<mark, watches>>
             \/ /\ MaskFor(p) \in {"full", "outer"} /\ CanAdd(p)
                /\ \E drop : addToWatchList(p, MaskFor(p), drop)
          /\ job' = [job EXCEPT !.visit = @ \ {p}, !.open = {p} \cap Dirs]
    BY <1>6, VisitIs
  <2>2. /\ job'.parents = job.parents /\ job'.open \subseteq {p}
        /\ job'.visit \subseteq job.visit /\ job'.look = job.look
    BY <1>0, <2>1 DEF Jobs
  <2>3. Looks
    BY <1>0, <2>1, <2>2 DEF WalkOK
  <2>4. CASE MaskFor(p) = "none" /\ UNCHANGED <<mark, watches>>
    BY <1>2, <1>3, <1>k, <2>3, <2>4
  <2>5. ASSUME MaskFor(p) \in {"full", "outer"}, CanAdd(p),
               NEW drop, addToWatchList(p, MaskFor(p), drop)
        PROVE  (WdsOK /\ Fresh)'
    <3>1. p \in exists
      BY <2>5 DEF CanAdd
    <3>2. CASE job.tree
      <4>1. ~Unlisted(p)
        BY <2>5, <3>2 DEF MaskFor
      <4>2. Fit(p)
        BY <1>0, <3>1, <4>1, FitExisting DEF Unlisted
      <4>3. QED
        BY <1>1, <2>5, <3>1, <4>2, AddFresh
    <3>3. CASE ~job.tree
      <4>1. ~isPathExcluded(p)
        BY <2>5, <3>3 DEF MaskFor
      <4>2. NotExcluded(p)
        BY <3>1, <4>1 DEF NotExcluded, isPathExcluded
      <4>3. OnInclude(p)
        <5>1. cfg.include # {} => OnWalk(p)
          BY <1>0, <2>1, <3>3 DEF WalkOK
        <5>2. QED
          BY <5>1 DEF OnInclude, OnWalk, isPathIncluded, IsStrictPrefix
      <4>4. QED
        BY <1>1, <2>5, <3>1, <4>2, <4>3, AddFresh DEF Fit
    <3>4. QED
      BY <3>2, <3>3
  <2>6. QED
    BY <1>2, <1>3, <2>1, <2>3, <2>4, <2>5
<1>7. CASE LookAtInclude
  <2>1. PICK x \in job.look :
          /\ Listed = {}
          /\ job' = [job EXCEPT
                       !.look = @ \ {x},
                       !.visit = {x} \cap exists,
                       !.parents = {getExistingParentPath(x) : o \in {x} \ exists}]
    BY <1>7 DEF LookAtInclude
  <2>2. x \in cfg.include /\ x \in Paths
    BY <1>0, <2>1, ConfigIs DEF WalkOK
  <2> DEFINE up == {getExistingParentPath(x) : o \in {x} \ exists}
             in == {x} \cap exists
  <2>3. \A p \in up : Fit(p)
    <3>1. /\ getExistingParentPath(x) \in Paths
          /\ IsPrefix(getExistingParentPath(x), x)
      BY <1>0, <2>2, NearestIs
    <3>2. Fit(getExistingParentPath(x))
      BY <1>0, <2>2, <3>1, FitInclude
    <3>3. QED
      BY <3>2
  <2>4. \A p \in in : OnWalk(p)
    BY <2>2, PrefixOrder DEF OnWalk, isPathIncluded
  <2>5. job' = [job EXCEPT !.look = @ \ {x}, !.visit = in, !.parents = up]
    BY <2>1
  <2> HIDE DEF up, in
  <2>6. /\ job'.parents = up /\ job'.visit = in /\ job'.open = job.open
        /\ job'.look \subseteq job.look
    BY <1>0, <2>5 DEF Jobs
  <2>7. Looks
    BY <1>0, <2>3, <2>4, <2>6 DEF WalkOK
  <2>8. UNCHANGED <<mark, watches>>
    BY <1>7 DEF LookAtInclude
  <2>9. QED
    BY <1>2, <1>3, <1>k, <2>7, <2>8
<1>8. QED
  BY <1>4, <1>5, <1>6, <1>7

\* An event is taken in hand.
LEMMA ReadStep ==
  ASSUME EntriesInv, Quiet, ReadEvent, Live'
  PROVE  (WdsOK /\ EmptyParents /\ WalkOK /\ Fresh)'
<1> DEFINE e == Head(queue)
           j == processEvent(e)
<1>0. /\ KernelInv /\ Live
      /\ UNCHANGED <<tree, mark, watches>> /\ Unread' = Unread
      /\ e \in Unread /\ e.wd \in watches /\ j \in Jobs
      /\ job' = [j EXCEPT !.event = <<e>>]
  BY ReadIs DEF EntriesInv, Live
<1>1. WdsOK /\ EmptyParents /\ WalkOK /\ Fresh
  BY <1>0 DEF EntriesInv
<1>2. (WdsOK /\ Fresh /\ EmptyParents)'
  BY <1>0, <1>1
     DEF WdsOK, Fit, NotExcluded, OnInclude, Starts, NameStarts, tree, Fresh,
         EmptyParents, Existing, Target, Base
<1>3. /\ \A p \in j.parents : Fit(p)
      /\ j.look \subseteq cfg.include
      /\ ~j.tree /\ cfg.include # {} =>
           \A p \in j.open \cup j.visit :
             \/ isPathIncluded(p)
             \/ /\ e.kind = "make_dir" /\ Target(e) = p
                /\ \E x \in cfg.include : IsStrictPrefix(p, x)
      /\ e.kind = "delete_self" => e.wd \in j.drop
  BY <1>0, ReadWalk
<1> HIDE DEF j, e
<1>4. /\ job'.event = <<e>> /\ job'.parents = j.parents /\ job'.look = j.look
      /\ job'.open = j.open /\ job'.visit = j.visit /\ job'.tree = j.tree
      /\ job'.drop = j.drop
  BY <1>0 DEF Jobs
<1>5. Range(job'.event) = {e}
  BY <1>4 DEF Range
<1>6. \A p : Fit(p) => Fit(p)'
  BY <1>0 DEF Fit, NotExcluded, OnInclude, Starts, NameStarts, tree
<1>7. ~job'.tree /\ cfg.include # {} =>
        \A p \in job'.open \cup job'.visit : OnWalk(p)'
  BY <1>0, <1>3, <1>4, <1>5 DEF OnWalk, isPathIncluded, Target, Base, tree
<1>8. WalkOK'
  BY <1>0, <1>3, <1>4, <1>5, <1>6, <1>7 DEF WalkOK, tree
<1>9. QED
  BY <1>2, <1>8

\* The handler returns, and what it drops has no event any more.
LEMMA ReturnStep ==
  ASSUME EntriesInv, Quiet, Live, Return
  PROVE  (WdsOK /\ EmptyParents /\ WalkOK /\ Fresh)'
<1>0. WatcherInv /\ WdsOK /\ EmptyParents /\ WalkOK /\ Fresh
  BY DEF EntriesInv, KernelInv
<1>1. PICK drop : removeWatch(drop) /\ job.drop \subseteq drop
  BY DEF Return
<1>2. /\ DOMAIN mark' = {p \in DOMAIN mark : mark[p].wd \notin drop}
      /\ \A p \in DOMAIN mark' : mark'[p] = mark[p]
      /\ watches' = watches \ drop
  BY <1>1, RemoveIs, Zenon
<1>3. UNCHANGED <<tree, queue>> /\ job' = NoJob
  BY DEF Return
<1>4. /\ NoJob.event = <<>> /\ NoJob.parents = {} /\ NoJob.open = {}
      /\ NoJob.visit = {} /\ NoJob.look = {} /\ Range(<<>>) = {}
  BY DEF NoJob, Range
<1>5. Unread' = Range(queue) /\ Unread = Range(job.event) \cup Range(queue)
  BY <1>3, <1>4 DEF Unread
<1>6. WalkOK'
  BY <1>3, <1>4 DEF WalkOK
<1>7. EmptyParents'
  BY <1>0, <1>3, <1>5 DEF EmptyParents, Existing, Target, Base, tree
<1>8. WdsOK'
  BY <1>0, <1>2, <1>3
     DEF WdsOK, Fit, NotExcluded, OnInclude, Starts, NameStarts, tree
<1>9. ASSUME NEW wd \in watches'
      PROVE  \/ \E p \in DOMAIN mark' : mark'[p].wd = wd
             \/ \E e \in Unread' : e.wd = wd /\ e.kind = "delete_self"
  <2>1. wd \in watches /\ wd \notin drop
    BY <1>2, <1>9
  <2>2. ASSUME NEW p \in DOMAIN mark, mark[p].wd = wd
        PROVE  p \in DOMAIN mark' /\ mark'[p].wd = wd
    BY <1>2, <2>1, <2>2
  <2>3. ASSUME NEW e \in Unread, e.wd = wd, e.kind = "delete_self"
        PROVE  e \in Unread'
    BY <1>0, <1>1, <1>5, <2>1, <2>3 DEF WalkOK
  <2>4. QED
    BY <1>0, <2>1, <2>2, <2>3 DEF Fresh
<1>10. Fresh'
  BY <1>9 DEF Fresh
<1>11. QED
  BY <1>6, <1>7, <1>8, <1>10

\* What the premise says of each event that is not handled.
LEMMA PatientIs ==
  ASSUME KernelInv, Patient, ~raced', NEW paths, NEW events, Changes(paths, events),
         NEW p \in paths, NEW e \in Unread
  PROVE  isPathParentOfInclude(Target(e)) => ~IsPrefix(Target(e), p)
<1>1. PatientAbout(p) /\ ~Overtakes(p)
  BY DEF Changes
<1>2. \/ \E i \in DOMAIN queue : queue[i] = e
      \/ \E i \in DOMAIN job.event : job.event[i] = e
  BY DEF Unread, Range
<1>3. ~TooEarly(p, e)
  BY <1>1, <1>2 DEF PatientAbout, Overtakes
<1>4. QED
  BY <1>3 DEF TooEarly

\* Nothing is made in a parent of an included path before it is known.
LEMMA ChangeEmptyParents ==
  ASSUME KernelInv, EmptyParents, Patient, ~raced', NEW p \in Paths,
         NEW paths, NEW events, Changes(paths, events), p \in paths,
         exists' \subseteq exists \cup {p}, cfg' = cfg,
         \A e \in Unread' : e.kind = "make_dir" =>
           e \in Unread \/ (Target(e) = p /\ p \notin exists)
  PROVE  EmptyParents'
<1>0. EmptyParents /\ KernelInv /\ exists \subseteq Paths /\ TreeInv
  BY DEF KernelInv, WatcherInv, MarksInv
<1> SUFFICES ASSUME NEW e \in Unread', e.kind = "make_dir",
                    NEW x \in cfg.include, IsStrictPrefix(Target(e), x),
                    NEW o \in exists', IsStrictPrefix(Target(e), o)
             PROVE  FALSE
  BY DEF EmptyParents, Existing, Target, Base
<1>1. CASE e \in Unread
  <2>1. isPathParentOfInclude(Target(e))
    BY DEF isPathParentOfInclude, IsStrictPrefix
  <2>2. o # p
    BY <1>1, <2>1, PatientIs DEF IsStrictPrefix
  <2>3. o \in Existing(Target(e))
    BY <2>2 DEF Existing
  <2>4. QED
    BY <1>0, <1>1, <2>3 DEF EmptyParents
<1>2. CASE Target(e) = p /\ p \notin exists
  <2>1. o \in exists /\ IsPrefix(p, o)
    BY <1>2 DEF IsStrictPrefix
  <2>2. QED
    BY <1>0, <1>2, <2>1 DEF TreeInv
<1>3. QED
  BY <1>1, <1>2

\* Other programs leave the entries fresh.
LEMMA ChangeStep ==
  ASSUME EntriesInv, Quiet, Quiet', NEW p \in Paths, NEW q \in Paths,
         Write(p) \/ MakeDir(p) \/ Delete(p) \/ Rename(p, q)
  PROVE  (WdsOK /\ EmptyParents /\ WalkOK /\ Fresh)'
<1>0. /\ WatcherInv /\ KernelInv /\ Live /\ UNCHANGED <<cfg, watches, job>>
  BY DEF EntriesInv, KernelInv, Write, MakeDir, Delete, Rename, Changes, Live
<1>1. WdsOK /\ EmptyParents /\ WalkOK /\ Fresh
  BY <1>0 DEF EntriesInv
<1>w. (WdsOK /\ WalkOK)'
  BY <1>0, <1>1
     DEF WdsOK, WalkOK, OnWalk, Fit, NotExcluded, OnInclude, Starts, NameStarts,
         isPathIncluded, Target, Base
<1>i. ASSUME Patient /\ ~raced' => EmptyParents'
      PROVE  EmptyParents'
  BY <1>0, <1>i DEF Quiet, EmptyParents
<1> DEFINE Goal == (WdsOK /\ EmptyParents /\ WalkOK /\ Fresh)'
           Stale == \A wd \in watches :
                      \/ \E o \in DOMAIN mark' : mark'[o].wd = wd
                      \/ \E e \in Unread' : e.wd = wd /\ e.kind = "delete_self"
<1>s. ASSUME Patient /\ ~raced' => EmptyParents', Stale
      PROVE  Goal
  BY <1>0, <1>i, <1>s, <1>w DEF Fresh
<1>2. CASE Write(p)
  <2>1. /\ p # <<>> /\ exists' = exists \cup {p} /\ mark' = mark
        /\ Unread \subseteq Unread'
    BY <1>0, <1>2, WriteReports DEF Write, Changes
  <2>c. PICK events : Changes({p}, events)
    BY <1>2 DEF Write
  <2>2. \A e \in Unread' : e.kind = "make_dir" => e \in Unread
    BY <1>0, <1>2, <2>1, WriteReports, ReportedInDir, ReportedSelf
  <2>3. Patient /\ ~raced' => EmptyParents'
    BY <1>0, <1>1, <2>c, <2>1, <2>2, ChangeEmptyParents
  <2>4. QED
    BY <1>1, <1>s, <2>1, <2>3 DEF Fresh
<1>3. CASE MakeDir(p)
  <2>1. /\ p # <<>> /\ exists' = exists \cup {p} /\ mark' = mark
        /\ p \notin exists /\ Unread \subseteq Unread'
    BY <1>0, <1>3, MakeDirReports DEF MakeDir, Changes
  <2>c. PICK events : Changes({p}, events)
    BY <1>3 DEF MakeDir
  <2>2. \A e \in Unread' : e.kind = "make_dir" => e \in Unread \/ Target(e) = p
    BY <1>0, <1>3, <2>1, MakeDirReports, ReportedInDir
  <2>3. Patient /\ ~raced' => EmptyParents'
    BY <1>0, <1>1, <2>c, <2>1, <2>2, ChangeEmptyParents
  <2>4. QED
    BY <1>1, <1>s, <2>1, <2>3 DEF Fresh
<1>4. CASE Delete(p)
  <2>1. /\ p # <<>> /\ exists' \subseteq exists
        /\ DOMAIN mark' = DOMAIN mark \ {p}
        /\ \A o \in DOMAIN mark' : mark'[o] = mark[o]
        /\ Unread \subseteq Unread' /\ SelfReported(p, "delete_self") \subseteq Unread'
    BY <1>0, <1>4, DeleteReports DEF Delete
  <2>c. PICK events : Changes({p}, events)
    BY <1>4 DEF Delete
  <2>2. \A e \in Unread' : e.kind = "make_dir" => e \in Unread
    BY <1>0, <1>4, <2>1, DeleteReports, ReportedInDir, ReportedSelf
  <2>3. Patient /\ ~raced' => EmptyParents'
    BY <1>0, <1>1, <2>c, <2>1, <2>2, ChangeEmptyParents
  <2>4. p \in DOMAIN mark =>
          \E e \in Unread' : e.wd = mark[p].wd /\ e.kind = "delete_self"
    BY <2>1 DEF SelfReported, Reported, Emits
  <2>5. Stale
    BY <1>1, <2>1, <2>4 DEF Fresh
  <2>6. QED
    BY <1>1, <1>s, <2>3, <2>5
<1>5. CASE Rename(p, q)
  <2> DEFINE Old(o) == IF o = q THEN p ELSE o
  <2>1. /\ p \in Paths \ {<<>>} /\ q \in Paths \ {<<>>} /\ p # q
        /\ Unread' = Unread \cup InDirReported(p, "moved_from", <<p, q>>)
              \cup InDirReported(q, "moved_to", <<p, q>>)
              \cup SelfReported(q, "delete_self")
    BY <1>0, <1>5, RenameReports
  <2>2. /\ exists' = (exists \ {p}) \cup {q}
        /\ DOMAIN mark \subseteq exists
    BY <1>0, <1>5 DEF Rename, Changes, WatcherInv, MarksInv
  <2>3. /\ DOMAIN mark' = {o \in exists' : Old(o) \in DOMAIN mark}
        /\ \A o \in DOMAIN mark' : mark'[o] = mark[Old(o)]
    BY <1>5 DEF Rename
  <2>c. PICK events : Changes({p, q}, events)
    BY <1>5 DEF Rename
  <2>4. ASSUME NEW e \in Unread', e.kind = "make_dir"
        PROVE  e \in Unread
    <3>1. e \notin InDirReported(p, "moved_from", <<p, q>>)
      BY <1>0, <2>1, <2>4, ReportedInDir
    <3>2. e \notin InDirReported(q, "moved_to", <<p, q>>)
      BY <1>0, <2>1, <2>4, ReportedInDir
    <3>3. e \notin SelfReported(q, "delete_self")
      BY <1>0, <2>4, ReportedSelf
    <3>4. QED
      BY <2>1, <2>4, <3>1, <3>2, <3>3
  <2>5. Patient /\ ~raced' => EmptyParents'
    BY <1>0, <1>1, <2>c, <2>2, <2>4, ChangeEmptyParents
  <2>6. q \in DOMAIN mark =>
          \E e \in Unread' : e.wd = mark[q].wd /\ e.kind = "delete_self"
    <3>1. SelfReported(q, "delete_self") \subseteq Unread'
      BY <2>1
    <3>2. QED
      BY <3>1 DEF SelfReported, Reported, Emits
  <2>7. ASSUME NEW o \in DOMAIN mark, o # q
        PROVE  \E r \in DOMAIN mark' : mark'[r].wd = mark[o].wd
    <3>1. CASE o = p
      BY <2>1, <2>2, <2>3, <2>7, <3>1
    <3>2. CASE o # p
      <4>1. o \in exists' /\ Old(o) = o
        <5>1. o \in exists
          BY <2>2
        <5>2. QED
          BY <2>2, <2>7, <3>2, <5>1
      <4>2. o \in DOMAIN mark' /\ mark'[o] = mark[o]
        BY <2>3, <4>1
      <4>3. QED
        BY <4>2
    <3>3. QED
      BY <3>1, <3>2
  <2>8. Stale
    BY <1>1, <2>1, <2>6, <2>7 DEF Fresh
  <2>9. QED
    BY <1>1, <1>s, <2>5, <2>8
<1>6. QED
  BY <1>2, <1>3, <1>4, <1>5

LEMMA NextEntries == ListsPremise /\ EntriesInv /\ [Next]_watcherVars => EntriesInv'
<1> SUFFICES ASSUME ListsPremise, EntriesInv, [Next]_watcherVars
             PROVE  EntriesInv'
  OBVIOUS
<1>0. KernelInv /\ KernelInv' /\ WatcherInv /\ Idle
  BY NextKernel DEF EntriesInv, KernelInv
<1> SUFFICES ASSUME Live', Quiet'
             PROVE  (WdsOK /\ EmptyParents /\ WalkOK /\ Fresh)'
  BY <1>0 DEF EntriesInv
<1>1. CASE addDataWatcher
  <2> DEFINE j == createWatchers(cfg.path)
  <2>1. /\ job' = j /\ UNCHANGED <<cfg, exists>> /\ watches' = {} /\ queue' = <<>>
    BY <1>0, <1>1 DEF addDataWatcher, tree, watcher, Idle, Live
  <2>2. /\ cfg.path \in Paths
        /\ j.event = <<>> /\ j.open = {} /\ j.drop = {} /\ j.tree = FALSE
        /\ j.parents = {} \/ j.parents = {getExistingParentPath(cfg.path)}
        /\ j.visit = {} \/ cfg.include = {}
        /\ j.look \subseteq cfg.include
    BY <1>0, ConfigIs, CreateIs
  <2>3. Fit(getExistingParentPath(cfg.path))
    <3>1. Starts(cfg.path, cfg.path)
      BY <2>2, PrefixOrder DEF Starts, NameStarts
    <3>2. QED
      BY <1>0, <2>2, <3>1, NearestOnWay, FitPath
  <2> HIDE DEF j
  <2>4. Range(<<>>) = {} /\ Unread' = {}
    BY <2>1, <2>2 DEF Unread, Range
  <2>5. WdsOK' /\ EmptyParents' /\ Fresh'
    BY <2>1, <2>4 DEF WdsOK, EmptyParents, Fresh
  <2>6. \A p \in job'.parents : Fit(p)'
    BY <2>1, <2>2, <2>3
       DEF Fit, NotExcluded, OnInclude, Starts, NameStarts
  <2>7. WalkOK'
    BY <2>1, <2>2, <2>4, <2>6 DEF WalkOK
  <2>8. QED
    BY <2>5, <2>7
<1>q. ASSUME Live, UNCHANGED cfg, raced => raced'
      PROVE  Quiet /\ WdsOK /\ EmptyParents /\ WalkOK /\ Fresh
  BY <1>q DEF Quiet, EntriesInv
<1>k. ASSUME Live, UNCHANGED <<tree, mark, watches, job, raced>>, Unread' \subseteq Unread,
             \A e \in Unread : e \in Unread' \/ e.kind # "delete_self"
      PROVE  (WdsOK /\ EmptyParents /\ WalkOK /\ Fresh)'
  <2>1. WdsOK /\ EmptyParents /\ WalkOK /\ Fresh /\ UNCHANGED <<cfg, exists>>
    BY <1>k, <1>q DEF tree
  <2>2. WdsOK' /\ EmptyParents' /\ Fresh'
    BY <1>k, <2>1
       DEF WdsOK, Fit, NotExcluded, OnInclude, Starts, NameStarts, Fresh,
           EmptyParents, Existing, Target, Base
  <2>3. WalkOK'
    BY <1>k, <2>1
       DEF WalkOK, OnWalk, Fit, NotExcluded, OnInclude, Starts, NameStarts,
           isPathIncluded, Target, Base
  <2>4. QED
    BY <2>2, <2>3
<1>2. CASE SkipEvent
  <2>1. /\ UNCHANGED <<tree, watcher, job, raced>> /\ queue # <<>>
        /\ queue' = Tail(queue) /\ Live /\ Skipped(Head(queue))
    BY <1>2 DEF SkipEvent, Consume, Live
  <2>2. Range(queue) = {Head(queue)} \cup Range(queue')
    BY <1>0, <2>1, HeadUnread
  <2>3. Unread = {Head(queue)} \cup Unread' /\ Head(queue) \in Unread
    BY <2>1, <2>2 DEF Unread
  <2>4. Head(queue).kind # "delete_self"
    BY <1>0, <2>1, <2>3 DEF KernelInv, EventsOK, EventOK, Skipped
  <2>5. QED
    BY <1>k, <2>1, <2>3, <2>4 DEF watcher
<1>3. CASE ReadEvent
  <2>1. Live /\ UNCHANGED <<cfg, raced>>
    BY <1>0, <1>3, ReadIs DEF Live, tree
  <2>2. QED
    BY <1>3, <1>q, <2>1, ReadStep
<1>4. CASE WatchParent \/ ListDirectory \/ Visit \/ LookAtInclude
  <2>1. Live /\ UNCHANGED <<cfg, raced>>
    BY <1>0, <1>4, WalkIs DEF Live, tree, stepVars
  <2>2. QED
    BY <1>4, <1>q, <2>1, WalkStep
<1>5. CASE Return
  <2>1. Live /\ UNCHANGED <<cfg, raced>>
    BY <1>0, <1>5 DEF Return, Busy, Idle, Live, tree
  <2>2. QED
    BY <1>5, <1>q, <2>1, ReturnStep
<1>6. ASSUME NEW p \in Paths, NEW q \in Paths,
             Write(p) \/ MakeDir(p) \/ Delete(p) \/ Rename(p, q)
      PROVE  (WdsOK /\ EmptyParents /\ WalkOK /\ Fresh)'
  <2>1. Live /\ UNCHANGED cfg /\ (raced => raced')
    BY <1>6 DEF Write, MakeDir, Delete, Rename, Changes, Live
  <2>2. QED
    BY <1>6, <1>q, <2>1, ChangeStep
<1>7. CASE WatcherFails \/ StepFails \/ stop \/ ReadAfterStop
  BY <1>7 DEF WatcherFails, StepFails, Fail, stop, ReadAfterStop, Live
<1>8. CASE UNCHANGED watcherVars
  <2>1. Live /\ UNCHANGED <<tree, mark, watches, job, raced>> /\ Unread' = Unread
    BY <1>8 DEF watcherVars, watcher, tree, Live, Unread
  <2>2. QED
    BY <1>k, <2>1
<1>9. QED
  BY <1>1, <1>2, <1>3, <1>4, <1>5, <1>6, <1>7, <1>8 DEF Next, HandlerStep

\* No entry of the map outlives its watch, except while the event that removes it
\* is not handled: if other programs leave the watcher time to read the events, or
\* there is no include list.  They may delete, replace and rename files between any
\* two steps of a handler, except as NoStaleEntry says.
THEOREM EntriesAreLive == ListsPremise => (Spec => []NoStaleEntry)
<1> SUFFICES ASSUME ListsPremise
             PROVE  Spec => []NoStaleEntry
  OBVIOUS
<1>1. Init => EntriesInv
  <2>1. Init => ~Live
    BY DEF Init, Live
  <2>2. QED
    BY <2>1, InitKernel DEF EntriesInv
<1>2. EntriesInv /\ [Next]_watcherVars => EntriesInv'
  BY NextEntries
<1>3. EntriesInv => NoStaleEntry
  <2> SUFFICES ASSUME EntriesInv
               PROVE  NoStaleEntry
    OBVIOUS
  <2>1. WatcherInv /\ Idle /\ cfg \in Configs /\ raced \in BOOLEAN
    BY DEF EntriesInv, KernelInv, WatcherInv, WatcherTypeOK
  <2>2. CASE ~Live
    BY <2>1, <2>2 DEF Idle, NoStaleEntry
  <2>3. CASE Live /\ Quiet
    BY <2>1, <2>3, FreshIs DEF EntriesInv
  <2>4. CASE ~Quiet
    BY <2>1, <2>4 DEF ListsPremise, Quiet, NoStaleEntry
  <2>5. QED
    BY <2>2, <2>3, <2>4
<1>4. QED
  BY <1>1, <1>2, <1>3, PTL DEF Spec

=============================================================================
