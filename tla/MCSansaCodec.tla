---------------------------- MODULE MCSansaCodec ----------------------------
(* Instance of SansaCodec for TLC: two processes; a volume at both ends of *)
(* the scale, and levels that fill their field or are wider, than a byte   *)
(* too (12850 is 50 for the left and 50 for the right).                    *)
EXTENDS SansaCodec

MCPcmLevels == {<<0, 100>>, <<100, 6>>}
MCLineLevels == {<<31, 0>>, <<100, 100>>}
MCMicLevels == {32, 39, 100, 12850, -1}
=============================================================================
