----------------------------- MODULE MCLauncher -----------------------------
(* Instance of Launcher for TLC: up to two daemons on their way at a time, *)
(* two power cuts and two failures in one behaviour.                       *)
EXTENDS Launcher
=============================================================================
