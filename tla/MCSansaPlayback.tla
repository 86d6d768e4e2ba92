-------------------------- MODULE MCSansaPlayback --------------------------
(* Instance of SansaPlayback for TLC: a ring of three slots, which a write *)
(* of three samples wraps and fills, and a FIFO that one mono sample fills. *)
EXTENDS SansaPlayback

MCBufLen == 3
MCFifoLen == 3
MCTxLevel == 2
=============================================================================
