-------------------------- MODULE PersistenceProofs --------------------------
(***************************************************************************)
(* What survives restarts and failing writes, for any configurations,      *)
(* requests and call slots.                                                *)
(***************************************************************************)
EXTENDS Persistence, FullSyncProofs

\* A step of Persistence that is one of FullSync.
LEMMA StepIsNext == Step => Next
BY DEF Step, Next

\* The fields of a file's contents.
LEMMA ContentsFields ==
  ASSUME NEW f \in Contents
  PROVE  /\ f["FullSyncStatus"] \in Statuses
         /\ f["SyncEventsHealth"] \in Healths
         /\ f["Disable"] \in BOOLEAN
BY DEF Contents

\* What is published is a file's contents.
LEMMA PublishedType == TypeOK => Published \in Contents
BY DEF TypeOK, Published, Contents

\* Setting one key to what is published changes that key only.
LEMMA SetKey ==
  ASSUME TypeOK, NEW f \in Contents, NEW k \in PropertyKeys
  PROVE  /\ [f EXCEPT ![k] = Published[k]] \in Contents
         /\ [f EXCEPT ![k] = Published[k]][k] = Published[k]
         /\ \A j \in PropertyKeys \ {k} :
              [f EXCEPT ![k] = Published[k]][j] = f[j]
<1>1. CASE k = "FullSyncStatus"
  BY <1>1 DEF TypeOK, Published, Contents, PropertyKeys
<1>2. CASE k = "SyncEventsHealth"
  BY <1>2 DEF TypeOK, Published, Contents, PropertyKeys
<1>3. CASE k = "Disable"
  BY <1>3 DEF TypeOK, Published, Contents, PropertyKeys
<1>4. QED
  BY <1>1, <1>2, <1>3 DEF PropertyKeys

LEMMA FirstKeyIn == FirstKey \in PropertyKeys
BY DEF FirstKey, PropertyKeys

\* FirstKey is one of the keys to be written, when there is one.
LEMMA FirstKeyTodo ==
  ASSUME todo \subseteq PropertyKeys, todo # {}
  PROVE  FirstKey \in todo
BY DEF FirstKey, PropertyKeys

-----------------------------------------------------------------------------
(* Types.                                                                   *)

\* The types, and that only a handler that has keys to write empties the file.
FileType ==
  /\ TypeOK
  /\ PersistenceTypeOK
  /\ writing # {} => todo # {}

LEMMA InitFileType == PersistenceInit => FileType
BY InitTypeOK, PublishedType DEF PersistenceInit, FileType, PersistenceTypeOK

LEMMA NextFileType == FileType /\ [PersistenceNext]_persistenceVars => FileType'
<1> SUFFICES ASSUME FileType, [PersistenceNext]_persistenceVars
             PROVE  FileType'
  OBVIOUS
<1>0. ASSUME UNCHANGED vars PROVE TypeOK'
  BY <1>0, NextTypeOK DEF FileType
<1>1. CASE Step
  <2>1. TypeOK'
    BY <1>1, StepIsNext, NextTypeOK DEF FileType
  <2>2. todo' \subseteq PropertyKeys
    BY <1>1 DEF Step, Changed
  <2>3. QED
    BY <1>1, <2>1, <2>2 DEF Step, FileType, PersistenceTypeOK, Contents
<1>2. CASE Truncate
  <2>1. writing' \subseteq Contents
    BY <1>2, FirstKeyIn, SetKey DEF Truncate, FileType, PersistenceTypeOK
  <2>2. Defaults \in Contents
    BY DEF Defaults, Contents, Statuses, Healths
  <2>3. Contents' = Contents
    BY DEF Contents
  <2>4. QED
    BY <1>0, <1>2, <2>1, <2>2, <2>3 DEF Truncate, FileType, PersistenceTypeOK
<1>3. CASE WriteFile
  BY <1>0, <1>3 DEF WriteFile, FileType, PersistenceTypeOK, Contents
<1>4. CASE WriteFails
  BY <1>0, <1>4, FirstKeyIn
     DEF WriteFails, FileType, PersistenceTypeOK, Contents
<1>5. CASE Restart
  <2>1. /\ fullSyncStatus' \in Statuses
        /\ health' \in Healths
        /\ disable_sync' \in BOOLEAN
    BY <1>5, ContentsFields DEF Restart, FileType, PersistenceTypeOK
  <2>2. TypeOK'
    BY <1>5, <2>1
       DEF Restart, FileType, TypeOK, Phases, Roles
  <2>3. QED
    BY <1>5, <2>2 DEF Restart, FileType, PersistenceTypeOK, Contents
<1>6. CASE UNCHANGED persistenceVars
  BY <1>0, <1>6
     DEF persistenceVars, fileVars, FileType, PersistenceTypeOK, Contents
<1>7. QED
  BY <1>1, <1>2, <1>3, <1>4, <1>5, <1>6 DEF PersistenceNext

LEMMA FileTypes == PersistenceSpec => []FileType
BY InitFileType, NextFileType, PTL DEF PersistenceSpec

\* The file, and what is about to be written to it, is always one the setters
\* can have written; restarts and failing writes included.
THEOREM PersistenceTypeCorrect == PersistenceSpec => []PersistenceTypeOK
BY FileTypes, PTL DEF FileType

-----------------------------------------------------------------------------
(* A restart does not lock full syncs out.                                  *)

\* InProgress is neither in the file nor about to be.
NeverPersisted ==
  /\ file["FullSyncStatus"] # "InProgress"
  /\ \A f \in writing : f["FullSyncStatus"] # "InProgress"
  /\ "FullSyncStatus" \in todo => fullSyncStatus # "InProgress"
  /\ NeverLockedOut

LEMMA NextNeverPersisted ==
  FileType /\ NeverPersisted /\ [PersistenceNext]_persistenceVars
    => NeverPersisted'
<1> SUFFICES ASSUME FileType, NeverPersisted,
                    [PersistenceNext]_persistenceVars
             PROVE  NeverPersisted'
  OBVIOUS
<1>1. CASE Step
  <2>1. [Next]_vars /\ TypeOK
    BY <1>1, StepIsNext DEF FileType
  <2>2. NeverLockedOut'
    BY <2>1, StatusStep DEF NeverPersisted, NeverLockedOut, Starts, Ends, Passes
  <2>3. "FullSyncStatus" \in todo' => fullSyncStatus' # "InProgress"
    BY <1>1 DEF Step, Changed
  <2>4. QED
    BY <1>1, <2>2, <2>3 DEF Step, NeverPersisted
<1>2. CASE Truncate
  <2>1. file'["FullSyncStatus"] # "InProgress"
    BY <1>2 DEF Truncate, Defaults
  <2>2. ASSUME NEW f \in writing'
        PROVE  f["FullSyncStatus"] # "InProgress"
    <3>1. f = [file EXCEPT ![FirstKey] = Published[FirstKey]]
      BY <1>2, <2>2 DEF Truncate
    <3>2. CASE FirstKey = "FullSyncStatus"
      <4>1. f["FullSyncStatus"] = Published["FullSyncStatus"]
        BY <3>1, <3>2, SetKey DEF FileType, PersistenceTypeOK, PropertyKeys
      <4>2. FirstKey \in todo
        BY <1>2, FirstKeyTodo DEF Truncate, FileType, PersistenceTypeOK
      <4>3. QED
        BY <3>2, <4>1, <4>2 DEF Published, NeverPersisted
    <3>3. CASE FirstKey # "FullSyncStatus"
      <4>1. f["FullSyncStatus"] = file["FullSyncStatus"]
        BY <3>1, <3>3, SetKey, FirstKeyIn
           DEF FileType, PersistenceTypeOK, PropertyKeys
      <4>2. QED
        BY <4>1 DEF NeverPersisted
    <3>4. QED
      BY <3>2, <3>3
  <2>3. QED
    BY <1>2, <2>1, <2>2
       DEF Truncate, NeverPersisted, NeverLockedOut, vars, fullSyncVars
<1>3. CASE WriteFile
  BY <1>3 DEF WriteFile, NeverPersisted, NeverLockedOut, vars, fullSyncVars
<1>4. CASE WriteFails
  BY <1>4 DEF WriteFails, NeverPersisted, NeverLockedOut, vars, fullSyncVars
<1>5. CASE Restart
  BY <1>5 DEF Restart, NeverPersisted, NeverLockedOut
<1>6. CASE UNCHANGED persistenceVars
  BY <1>6 DEF persistenceVars, fileVars, NeverPersisted, NeverLockedOut, vars,
              fullSyncVars
<1>7. QED
  BY <1>1, <1>2, <1>3, <1>4, <1>5, <1>6 DEF PersistenceNext

\* However often the process ends, in the middle of a full sync or of a write,
\* the status it restores does not refuse full syncs for ever.
THEOREM NeverLockedByRestart == PersistenceSpec => []NeverLockedOut
<1>1. PersistenceInit => NeverPersisted
  BY DEF PersistenceInit, Init, Published, NeverPersisted, NeverLockedOut
<1>2. QED
  BY <1>1, FileTypes, NextNeverPersisted, PTL
     DEF PersistenceSpec, NeverPersisted

-----------------------------------------------------------------------------
(* The file follows the properties.                                         *)

\* A step of FullSync hands every key it changed to the setters.
LEMMA ChangedAll ==
  ASSUME Step, NEW f, NEW k \in PropertyKeys, k \notin todo', Follows(f, k)
  PROVE  Follows(f, k)'
<1>1. PICK anew \in BOOLEAN : todo' = Changed(anew)
  <2>1. ASSUME NEW bmcRole \in Roles, NEW redundancy \in BOOLEAN,
               todo' = Changed(redundancy /\ ~disable_sync)
        PROVE  \E anew \in BOOLEAN : todo' = Changed(anew)
    BY <2>1
  <2>2. QED
    BY <2>1 DEF Step
<1>2. \/ Published'[k] = Published[k]
      \/ k = "FullSyncStatus" /\ fullSyncStatus' = "InProgress"
  BY <1>1 DEF Changed
<1>3. CASE Published'[k] = Published[k]
  BY <1>3 DEF Follows, Published
<1>4. QED
  BY <1>2, <1>3 DEF Follows

LEMMA NextFollows ==
  FileType /\ FileFollows /\ [PersistenceNext]_persistenceVars => FileFollows'
<1> SUFFICES ASSUME FileType, FileFollows, [PersistenceNext]_persistenceVars
             PROVE  FileFollows'
  OBVIOUS
<1>0. ASSUME UNCHANGED vars, NEW f, NEW k, Follows(f, k)
      PROVE  Follows(f, k)'
  BY <1>0 DEF Follows, Published, vars, contractVars, fullSyncVars
<1>1. CASE Step
  <2>1. writing = {} /\ writing' = {} /\ file' = file /\ lost' = lost
        /\ todo = {}
    BY <1>1 DEF Step, FileType
  <2>2. ASSUME NEW k \in PropertyKeys, k \notin todo' \cup lost
        PROVE  Follows(file, k)'
    BY <1>1, <2>1, <2>2, ChangedAll DEF FileFollows
  <2>3. QED
    BY <2>1, <2>2 DEF FileFollows
<1>2. CASE Truncate
  <2>1. /\ writing' = {[file EXCEPT ![FirstKey] = Published[FirstKey]]}
        /\ UNCHANGED <<vars, todo, lost>>
        /\ FirstKey' = FirstKey
    BY <1>2 DEF Truncate, FirstKey
  <2>2. ASSUME NEW f \in writing', NEW k \in PropertyKeys,
               k = FirstKey \/ k \notin todo \cup lost
        PROVE  Follows(f, k)
    <3>1. CASE k = FirstKey
      BY <2>1, <2>2, <3>1, SetKey DEF Follows, FileType, PersistenceTypeOK
    <3>2. CASE k # FirstKey
      <4>1. f[k] = file[k]
        <5>1. f = [file EXCEPT ![FirstKey] = Published[FirstKey]]
          BY <2>1, <2>2
        <5>2. \A j \in PropertyKeys \ {FirstKey} :
                [file EXCEPT ![FirstKey] = Published[FirstKey]][j] = file[j]
          BY FirstKeyIn, SetKey DEF FileType, PersistenceTypeOK
        <5>3. QED
          BY <3>2, <5>1, <5>2
      <4>2. Follows(file, k)
        BY <1>2, <2>2, <3>2 DEF Truncate, FileFollows
      <4>3. QED
        BY <4>1, <4>2 DEF Follows
    <3>3. QED
      BY <3>1, <3>2
  <2>3. ASSUME NEW f \in writing', NEW k \in PropertyKeys,
               k = FirstKey' \/ k \notin todo' \cup lost'
        PROVE  Follows(f, k)'
    BY <1>0, <2>1, <2>2, <2>3
  <2>4. QED
    BY <2>1, <2>3 DEF FileFollows
<1>3. CASE WriteFile
  <2>1. ASSUME NEW k \in PropertyKeys, k \notin todo' \cup lost'
        PROVE  Follows(file', k)
    BY <1>3, <2>1 DEF WriteFile, FileFollows
  <2>2. QED
    BY <1>0, <1>3, <2>1 DEF WriteFile, FileFollows
<1>4. CASE WriteFails
  <2>1. ASSUME NEW k \in PropertyKeys, k \notin todo' \cup lost'
        PROVE  Follows(file, k)
    BY <1>4, <2>1 DEF WriteFails, FileFollows
  <2>2. QED
    BY <1>0, <1>4, <2>1 DEF WriteFails, FileFollows
<1>5. CASE Restart
  <2>1. ASSUME NEW k \in PropertyKeys PROVE Follows(file, k)'
    BY <1>5 DEF Restart, Follows, Published, PropertyKeys
  <2>2. QED
    BY <1>5, <2>1 DEF Restart, FileFollows
<1>6. CASE UNCHANGED persistenceVars
  <2>1. UNCHANGED <<vars, file, todo, writing, lost>> /\ FirstKey' = FirstKey
    BY <1>6 DEF persistenceVars, fileVars, FirstKey
  <2>2. QED
    BY <1>0, <2>1 DEF FileFollows
<1>7. QED
  BY <1>1, <1>2, <1>3, <1>4, <1>5, <1>6 DEF PersistenceNext

\* Between handlers the file holds every property, or the status of the last
\* full sync that ended, except those it could not be written for.
THEOREM FileIsCurrent == PersistenceSpec => []FileFollows
<1>1. PersistenceInit => FileFollows
  BY DEF PersistenceInit, FileFollows, Follows
<1>2. QED
  BY <1>1, FileTypes, NextFollows, PTL DEF PersistenceSpec

\* So a restart between handlers loses no property.
THEOREM RestartsRestore == PersistenceSpec => RestartRestores
<1>1. FileType /\ FileFollows /\ [PersistenceNext]_persistenceVars =>
        (Restart /\ todo = {} =>
           \A k \in PropertyKeys \ lost :
             \/ Published'[k] = Published[k]
             \/ k = "FullSyncStatus" /\ fullSyncStatus = "InProgress")
  <2> SUFFICES ASSUME FileType, FileFollows, Restart, todo = {},
                      NEW k \in PropertyKeys \ lost
               PROVE  \/ Published'[k] = Published[k]
                      \/ k = "FullSyncStatus" /\ fullSyncStatus = "InProgress"
    OBVIOUS
  <2>1. Follows(file, k)
    BY DEF FileType, FileFollows
  <2>2. Published'[k] = file[k]
    BY DEF Restart, Published, PropertyKeys
  <2>3. QED
    BY <2>1, <2>2 DEF Follows
<1>2. QED
  BY <1>1, FileTypes, FileIsCurrent, PTL DEF PersistenceSpec, RestartRestores
=============================================================================
