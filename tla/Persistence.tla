---------------------------- MODULE Persistence -----------------------------
(***************************************************************************)
(* The property file of src/persistent.cpp under the full syncs of         *)
(* FullSync, and a process that may end at any moment and is started again *)
(* by systemd (Restart=always).                                            *)
(*                                                                         *)
(* A handler sets a property and rewrites the file before it goes on: it   *)
(* reads the JSON, opens the file for writing, which empties it, and       *)
(* writes the JSON with the new value.  A file that does not parse is read *)
(* as one without keys, and a key that is missing means the default value: *)
(* an empty file is one with Defaults.                                     *)
(***************************************************************************)
EXTENDS FullSync

VARIABLES
  file,      \* dbus_props.json: the value under each key
  todo,      \* the keys the running handler has yet to write
  writing,   \* what is to be written to the file just emptied, or {}
  lost       \* history: the keys the file lacks because a write has failed

fileVars == <<file, todo, writing, lost>>
persistenceVars == <<vars, fileVars>>

\* In the order in which a handler writes them.
PropertyKeys == {"FullSyncStatus", "SyncEventsHealth", "Disable"}

Contents == [FullSyncStatus : Statuses, SyncEventsHealth : Healths,
             Disable : BOOLEAN]

\* MUTANT of Published: the health is written under the key of the status.
Published_UnderWrongKey ==
  [FullSyncStatus |-> health, SyncEventsHealth |-> health,
   Disable |-> disable_sync]

\* The values of the D-Bus properties.
Published == [FullSyncStatus |-> fullSyncStatus, SyncEventsHealth |-> health,
              Disable |-> disable_sync]

\* The values the interface declares (external).
Defaults == [FullSyncStatus |-> "NotStarted", SyncEventsHealth |-> "Ok",
             Disable |-> FALSE]

FirstKey ==
  IF "FullSyncStatus" \in todo THEN "FullSyncStatus"
  ELSE IF "SyncEventsHealth" \in todo THEN "SyncEventsHealth"
  ELSE "Disable"

PersistenceInit ==
  /\ Init
  /\ file = Published
  /\ todo = {}
  /\ writing = {}
  /\ lost = {}

-----------------------------------------------------------------------------
\* MUTANT of Changed: InProgress is persisted like any other status.
Changed_InProgressToo(anew) ==
  {k \in PropertyKeys :
     Published'[k] # Published[k] \/ (k = "FullSyncStatus" /\ anew)}

\* MUTANT of Changed: the health is not persisted.
Changed_HealthForgotten(anew) ==
  {k \in {"FullSyncStatus", "Disable"} :
     /\ Published'[k] # Published[k] \/ (k = "FullSyncStatus" /\ anew)
     /\ k = "FullSyncStatus" => fullSyncStatus' # "InProgress"}

\* The setters write what has changed, and the status anew when it has been
\* InProgress for a moment.
Changed(anew) ==
  {k \in PropertyKeys :
     /\ Published'[k] # Published[k] \/ (k = "FullSyncStatus" /\ anew)
     /\ k = "FullSyncStatus" => fullSyncStatus' # "InProgress"}

\* A step of FullSync.  It runs once the handler before it has written all.
Step ==
  /\ todo = {}
  /\ \/ \E bmcRole \in Roles, redundancy \in BOOLEAN :
          /\ FetchDone(bmcRole, redundancy)
          /\ todo' = Changed(redundancy /\ ~disable_sync)
     \/ \E fs \in Requests : StartFullSync(fs) /\ todo' = Changed(TRUE)
     \/ /\ \/ \E fs \in FullSyncs : EndFullSync(fs)
           \/ \E bmcRole \in Roles : RoleChanges(bmcRole)
           \/ \E c \in Calls : CallStep(c)
           \/ \E c \in OtherCalls, k \in Keys :
                Ask(c, k) /\ UNCHANGED fullSyncVars
           \/ \E disable \in BOOLEAN : SetDisableSync(disable)
        /\ todo' = Changed(FALSE)
  /\ UNCHANGED <<file, writing, lost>>

\* update: readFile, and the ofstream of writeFile.
Truncate ==
  /\ todo # {} /\ writing = {}
  /\ writing' = {[file EXCEPT ![FirstKey] = Published[FirstKey]]}
  /\ file' = Defaults
  /\ UNCHANGED <<vars, todo, lost>>

\* The JSON is written.
WriteFile ==
  /\ writing # {}
  /\ file' \in writing
  /\ writing' = {}
  /\ todo' = todo \ {FirstKey}
  /\ lost' = lost \ {FirstKey}
  /\ UNCHANGED vars

\* The file cannot be opened, or not be written and stays empty: the error is
\* only logged.
WriteFails ==
  /\ todo # {}
  /\ lost' = IF writing = {} THEN lost \cup {FirstKey} ELSE PropertyKeys
  /\ writing' = {}
  /\ todo' = todo \ {FirstKey}
  /\ UNCHANGED <<vars, file>>

\* The process ends and is started again: restoreDBusProperties.
Restart ==
  /\ fullSyncStatus' = file["FullSyncStatus"]
  /\ health' = file["SyncEventsHealth"]
  /\ disable_sync' = file["Disable"]
  /\ phase' = [c \in Calls |-> "idle"]
  /\ outcome' = [c \in Calls |-> "none"]
  /\ role' = "Unknown"
  /\ init' = "fetching"
  /\ running' = {}
  /\ spawned' = [fs \in FullSyncs |-> {}]
  /\ todo' = {}
  /\ writing' = {}
  /\ lost' = {}
  /\ UNCHANGED <<key, file>>

PersistenceNext == Step \/ Truncate \/ WriteFile \/ WriteFails \/ Restart

PersistenceSpec == PersistenceInit /\ [][PersistenceNext]_persistenceVars

-----------------------------------------------------------------------------
(* Properties.                                                              *)

PersistenceTypeOK ==
  /\ file \in Contents
  /\ todo \subseteq PropertyKeys
  /\ writing \subseteq Contents
  /\ lost \subseteq PropertyKeys

\* What the file says of a key is what is published.
Follows(f, k) ==
  f[k] = Published[k] \/ (k = "FullSyncStatus" /\ fullSyncStatus = "InProgress")

\* Every key that no handler has still to write follows, in the file or in the
\* JSON the emptied file is about to receive; unless writing it has failed.
FileFollows ==
  /\ writing = {} => \A k \in PropertyKeys \ (todo \cup lost) : Follows(file, k)
  /\ \A f \in writing, k \in PropertyKeys :
       k = FirstKey \/ k \notin todo \cup lost => Follows(f, k)

\* A restart while no handler is writing loses no property: a full sync that
\* was interrupted leaves the status of the last one that ended.
RestartRestores ==
  [][Restart /\ todo = {} =>
       \A k \in PropertyKeys \ lost :
         \/ Published'[k] = Published[k]
         \/ k = "FullSyncStatus" /\ fullSyncStatus = "InProgress"
    ]_persistenceVars
=============================================================================
