--------------------------- MODULE MCPersistence ----------------------------
(* Instances of Persistence for TLC.                                        *)
EXTENDS Persistence, TLC

CONSTANTS both, other, r1

OneDirection == both :> "Bidirectional"

\* Slots of the full syncs' calls, and one for a monitor or timer.
FullSyncCalls == (FullSyncs \X Cfgs) \cup {other}
=============================================================================
