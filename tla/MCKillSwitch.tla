---------------------------- MODULE MCKillSwitch -----------------------------
(* Small instances of KillSwitch for TLC.                                  *)
EXTENDS KillSwitch

Repeated == {"trigger", "triggerWithTimeout", "reset", "wait", "setEnabled", "register"}
=============================================================================
