----------------------------- MODULE EventQueue -----------------------------
(***************************************************************************)
(* What the GUI event queue promises: a bounded first-in first-out queue   *)
(* that refuses an event only when it is full, and is emptied as a whole   *)
(* when the GUI starts.                                                    *)
(***************************************************************************)
EXTENDS Naturals, Sequences

CONSTANTS Event, Capacity

VARIABLES queue,   \* the events waiting, oldest first
          refused  \* how many events were refused because the queue was full

vars == <<queue, refused>>

Init == queue = <<>> /\ refused = 0

Offer(e) ==
    IF Len(queue) < Capacity
    THEN queue' = Append(queue, e) /\ UNCHANGED refused
    ELSE refused' = refused + 1 /\ UNCHANGED queue

Take == queue # <<>> /\ queue' = Tail(queue) /\ UNCHANGED refused

Reset == queue' = <<>> /\ UNCHANGED refused

Next == (\E e \in Event : Offer(e)) \/ Take \/ Reset

Spec == Init /\ [][Next]_vars
=============================================================================
