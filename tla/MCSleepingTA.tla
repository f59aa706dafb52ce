---------------------------- MODULE MCSleepingTA ----------------------------
(* The constants are numbers and stand in the cfg files: a student more    *)
(* than there are chairs, so that the hallway fills and its ring wraps.    *)
EXTENDS SleepingTA
=============================================================================
