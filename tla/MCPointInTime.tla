---------------------------- MODULE MCPointInTime ----------------------------
(* Constants for the run of PointInTime.                                   *)
EXTENDS PointInTime, TLC

Storms == {0, 2}
Spans == {0, 2}
=============================================================================
