-------------------------- MODULE MCSansaKeyboard --------------------------
(* Instances of SansaKeyboard for TLC: a ring of three slots, which two    *)
(* events fill, distances modulo 3 and buttons as model values.            *)
EXTENDS SansaKeyboard

CONSTANTS b1, r1, hold

MCQLen == 3
MCScrollMod == 3
=============================================================================
