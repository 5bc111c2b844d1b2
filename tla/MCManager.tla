----------------------------- MODULE MCManager ------------------------------
(* Instances of Manager for TLC.                                            *)
EXTENDS Manager, TLC

CONSTANTS g1, g2, s1, s2, p1, r1

BothWays == [g \in Cfgs |-> "Bidirectional"]
OneBothWays ==
  [g \in Cfgs |-> IF g = g1 THEN "Bidirectional" ELSE "Active2Passive"]

AllImmediate == [g \in Cfgs |-> "Immediate"]
AllDeferred == [g \in Cfgs |-> "Deferred"]
PeriodicAndImmediate ==
  [g \in Cfgs |-> IF g = g1 THEN "Periodic" ELSE "Immediate"]

ManagerCalls == (FullSyncs \X Cfgs) \cup (Cfgs \X Slots) \cup (Cfgs \X Spawned)
=============================================================================
