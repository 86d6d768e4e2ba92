--------------------------- MODULE MCSansaRecord ---------------------------
(* Instance of SansaRecord for TLC: a ring of three slots, which the       *)
(* handler runs over while a read of two samples is under way.             *)
EXTENDS SansaRecord

MCBufLen == 3
MCFifoLen == 2
MCRxLevel == 2
MCNumIds == 4
=============================================================================
