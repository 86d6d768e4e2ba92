----------------------------- MODULE EventQueue -----------------------------
(***************************************************************************)
(* What the event ring of keyboard.c promises the readers of /dev/wheel: a *)
(* bounded queue.  Events join at the end, several at a time, and are      *)
(* given to readers one by one from the front.                             *)
(***************************************************************************)
EXTENDS Integers, Sequences

CONSTANTS Capacity,    \* events the queue holds at most
          NoEvent      \* what was given last before anything was

VARIABLES queue, given

Init == queue = <<>> /\ given = NoEvent

\* New events come after the ones that wait, which stay as they are.
Put ==
    /\ Len(queue) < Len(queue') /\ Len(queue') <= Capacity
    /\ SubSeq(queue', 1, Len(queue)) = queue
    /\ UNCHANGED given

Take ==
    /\ queue # <<>>
    /\ given' = Head(queue)
    /\ queue' = Tail(queue)

Next == Put \/ Take

Spec == Init /\ [][Next]_<<queue, given>>
=============================================================================
