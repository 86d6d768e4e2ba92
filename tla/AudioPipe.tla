----------------------------- MODULE AudioPipe -----------------------------
(***************************************************************************)
(* What the playback ring of audio.c promises to an application: a bounded *)
(* first-in first-out pipe of samples, numbered from 1.  sent samples have *)
(* been accepted, the first played of them have gone to the transmitter.   *)
(***************************************************************************)
EXTENDS Integers

CONSTANT Capacity     \* samples the pipe holds at most, a positive number

VARIABLES sent, played

Init == sent = 0 /\ played = 0

\* A write makes n more samples available, as many as fit.
Put(n) ==
    /\ sent + n - played <= Capacity
    /\ sent' = sent + n
    /\ UNCHANGED played

\* The next sample goes to the transmitter.
Play ==
    /\ played < sent
    /\ played' = played + 1
    /\ UNCHANGED sent

\* Opening the device again forgets what was not played.
Discard ==
    /\ played' = sent
    /\ UNCHANGED sent

Next == (\E n \in 1 .. Capacity : Put(n)) \/ Play \/ Discard

Spec == Init /\ [][Next]_<<sent, played>>
=============================================================================
