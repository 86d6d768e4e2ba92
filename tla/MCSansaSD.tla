----------------------------- MODULE MCSansaSD -----------------------------
(* Instance of SansaSD for TLC: a card of two banks of two blocks, the     *)
(* whole device and a partition in the second bank.                        *)
EXTENDS SansaSD, TLC

MCMinors == {0, 1}
MCParts  == (0 :> [start_sect |-> 0, nr_sects |-> 4])
              @@ (1 :> [start_sect |-> 2, nr_sects |-> 1])
=============================================================================
