----------------------------- MODULE ByteStream -----------------------------
(***************************************************************************)
(* What a serial port promises to the program that writes to it: the bytes *)
(* it has accepted go out in the order they were written, each of them     *)
(* once and none of them never.  Bytes are known by their number.          *)
(***************************************************************************)
EXTENDS Integers

CONSTANT Capacity     \* bytes that may be under way

VARIABLES
  accepted,   \* bytes the port has taken
  sent        \* bytes that have gone out

Init == accepted = 0 /\ sent = 0

Accept ==
  /\ accepted - sent < Capacity
  /\ accepted' = accepted + 1
  /\ UNCHANGED sent

Send ==
  /\ sent < accepted
  /\ sent' = sent + 1
  /\ UNCHANGED accepted

Steps == Init /\ [][Accept \/ Send]_<<accepted, sent>>

Spec == Steps /\ WF_<<accepted, sent>>(Send)
=============================================================================
