----------------------------- MODULE EventQueue -----------------------------
(***************************************************************************)
(* What process_post promises: events are taken in the order in which they *)
(* were posted, each of them once, and a post that finds no room changes   *)
(* nothing.                                                                *)
(***************************************************************************)
EXTENDS Naturals, Sequences

CONSTANTS Event, Capacity

VARIABLES
  waiting,   \* events posted and not yet taken
  taken      \* the event taken last

Init == waiting = <<>> /\ taken \in Event

Post ==
  \E e \in Event :
    /\ Len(waiting) < Capacity
    /\ waiting' = Append(waiting, e)
    /\ UNCHANGED taken

Take ==
  /\ waiting # <<>>
  /\ taken' = Head(waiting)
  /\ waiting' = Tail(waiting)

Spec == Init /\ [][Post \/ Take]_<<waiting, taken>>
=============================================================================
