----------------------------- MODULE MCPodRead -----------------------------
(* Instance of PodRead for TLC: lines of up to four units, a letter takes  *)
(* two, a space one; a screen of two lines.                                *)
EXTENDS PodRead

MCChars == {"m", " "}
MCSpaces == {" "}
MCWidth == [c \in MCChars |-> IF c = "m" THEN 2 ELSE 1]
MCTurns == {-3, -1, 1, 3}
=============================================================================
