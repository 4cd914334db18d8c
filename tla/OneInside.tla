------------------------------ MODULE OneInside ------------------------------
(***************************************************************************)
(* What mutex_lock and mutex_unlock promise their callers: the section     *)
(* between them admits one task at a time, and each task leaves by itself. *)
(***************************************************************************)
CONSTANT Tasks

VARIABLE inside     \* the tasks in the section

Empty == {}

enter(t) == inside = Empty /\ inside' = {t}
leave(t) == inside = {t} /\ inside' = Empty

Spec == inside = Empty /\ [][\E t \in Tasks : enter(t) \/ leave(t)]_inside
=============================================================================
