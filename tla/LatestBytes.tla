---------------------------- MODULE LatestBytes -----------------------------
(***************************************************************************)
(* What an application expects of the connector: a slot sends the bytes    *)
(* handed over since the last slot, in order, or the latest Capacity of    *)
(* them when there are more.  Bytes are numbered from 1 as they are handed *)
(* over.                                                                   *)
(***************************************************************************)
EXTENDS Integers

CONSTANT Capacity

VARIABLES
  accepted,   \* the bytes handed over so far
  taken,      \* the bytes handed over when the last slot took its own
  frame       \* the bytes the last slot took

vars == <<accepted, taken, frame>>

(* The bytes m + 1 .. n, or the last Capacity of them. *)
Latest(m, n) ==
  LET kept == IF n - m > Capacity THEN Capacity ELSE n - m
  IN [i \in 1 .. kept |-> n - kept + i]

Init == accepted = 0 /\ taken = 0 /\ frame = <<>>

Accept ==
  /\ accepted' \in Nat /\ accepted' > accepted
  /\ UNCHANGED <<taken, frame>>

Transmit ==
  /\ frame' = Latest(taken, accepted)
  /\ taken' = accepted
  /\ UNCHANGED accepted

Next == Accept \/ Transmit

Spec == Init /\ [][Next]_vars
=============================================================================
