---------------------------- MODULE MCSansaClock ----------------------------
(* Instance of SansaClock for TLC: days of eight seconds, bytes of 16      *)
(* values, every second from 1980 to 2002, every reading of the battery.   *)
EXTENDS SansaClock

MCStarts == 0 .. 16^4 - 1
MCReadings == 0 .. 1023
MCApmAt == {0}
=============================================================================
