------------------------------- MODULE MCAlarms -------------------------------
(* Instances of Alarms: the minute sync, and the labels run, which is watched more loosely and not while paused. *)
EXTENDS Alarms

CONSTANTS minuteSync, labelRun

Limits == [s \in Signal |-> IF s = minuteSync THEN 1 ELSE 2]

=============================================================================
