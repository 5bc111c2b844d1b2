------------------------------ MODULE MCNotify ------------------------------
(* Instances of Notify for TLC.                                             *)
EXTENDS Notify, TLC

CONSTANTS named, plain

\* One request names a service, the other needs none (Mode is not Systemd).
Services == named :> 1 @@ plain :> 0
Sends == named :> 2 @@ plain :> 1
=============================================================================
