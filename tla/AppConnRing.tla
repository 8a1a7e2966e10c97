---------------------------- MODULE AppConnRing ----------------------------
(***************************************************************************)
(* What the connector promises as long as no slot falls into a call of     *)
(* app_conn_send (Preempt = FALSE), the invariant behind it, and what is   *)
(* left of it when one does.                                               *)
(***************************************************************************)
EXTENDS AppConn

TypeOK ==
  /\ buffer \in [0 .. Size - 1 -> Nat]
  /\ buf_ptr \in 0 .. 255 /\ send_ptr \in 0 .. 255
  /\ full \in BOOLEAN /\ in_using \in BOOLEAN
  /\ pc \in {"idle", "test", "whole", "copy", "advance", "measure", "head",
             "copyhead", "wrap", "rewind", "tail", "copytail", "advancetail",
             "mark", "unlock", "overrun"}
  /\ data_len \in 0 .. Size /\ temp_len \in 0 .. 255
  /\ dst \in 0 .. 255 /\ left \in Nat /\ copied \in Nat
  /\ pb \in PacketBufType
  /\ booked \in BOOLEAN
  /\ accepted \in Nat /\ taken \in Nat

-----------------------------------------------------------------------------
(* The inductive invariant. *)

(* The ring holds the bytes up to number w, the next one goes to p, and    *)
(* the places from p on hold the bytes before them once it has wrapped.    *)
Holds(p, wrapped, w) ==
  /\ p \in 0 .. Size
  /\ IF wrapped THEN w - taken >= Size ELSE w - taken = p
  /\ \A i \in 0 .. Size - 1 : i < p => buffer[i] = w - p + i + 1
  /\ wrapped => \A i \in 0 .. Size - 1 :
                  i >= p => buffer[i] = w - p + i + 1 - Size

(* Between two calls, and in a call until it has moved the write position, *)
(* what has been copied of the current data comes after buf_ptr.           *)
IdleInv ==
  pc = "idle" => /\ Holds(buf_ptr, full, accepted)
                 /\ send_ptr = IF full THEN buf_ptr ELSE 0
                 /\ ~in_using

StartInv ==
  pc \in {"test", "whole", "measure", "head"} =>
    /\ Holds(buf_ptr, full, accepted)
    /\ ~full => send_ptr = 0
    /\ data_len \in DataLens /\ copied = 0
    /\ pc = "whole" => data_len + buf_ptr <= Size
    /\ pc \in {"measure", "head"} => data_len + buf_ptr > Size
    /\ pc = "head" => temp_len = Size - buf_ptr

CopyInv ==
  pc \in {"copy", "advance"} =>
    /\ Holds(dst, full, accepted + copied)
    /\ dst = buf_ptr + copied /\ dst + left = buf_ptr + data_len
    /\ buf_ptr + data_len <= Size
    /\ ~full => send_ptr = 0
    /\ data_len \in DataLens
    /\ pc = "advance" => left = 0

HeadInv ==
  pc \in {"copyhead", "wrap", "rewind"} =>
    /\ Holds(dst, full, accepted + copied)
    /\ dst = buf_ptr + copied /\ dst + left = Size
    /\ temp_len = Size - buf_ptr /\ temp_len < data_len
    /\ data_len \in DataLens
    /\ pc # "copyhead" => left = 0
    /\ pc = "rewind" => full

TailInv ==
  pc \in {"tail", "copytail", "advancetail"} =>
    /\ full /\ buf_ptr = 0
    /\ temp_len < data_len /\ data_len \in DataLens
    /\ pc = "tail" => /\ copied = temp_len
                      /\ Holds(0, TRUE, accepted + copied)
    /\ pc # "tail" => /\ copied = temp_len + dst
                      /\ dst + left = data_len - temp_len
                      /\ Holds(dst, TRUE, accepted + copied)
    /\ pc = "advancetail" => left = 0

DoneInv ==
  pc \in {"mark", "unlock"} =>
    /\ Holds(buf_ptr, full, accepted + data_len)
    /\ data_len \in DataLens
    /\ ~full => send_ptr = 0
    /\ pc = "unlock" /\ full => send_ptr = buf_ptr

(* At every statement of app_conn_send, wherever the ring wraps, the ring  *)
(* holds the latest bytes in their order, and no memcpy of it (app_conn.c: *)
(* 81, 88, 91) writes behind tdma_rdc_buffer.                              *)
RingInv ==
  /\ TypeOK
  /\ pc # "overrun"
  /\ IdleInv /\ StartInv /\ CopyInv /\ HeadInv /\ TailInv /\ DoneInv

-----------------------------------------------------------------------------
(* Every slot takes the bytes handed over since the last one, in order and *)
(* once, or the latest that fit.                                           *)
Abstract == INSTANCE LatestBytes WITH Capacity <- Size, frame <- payload
TakesLatest == Abstract!Spec

SlotTaken == booked /\ ~booked'

(* The header of a slot's frame always fits: nobody looks at the failure   *)
(* of create() (tdmardc.c:290), and the frame would go out without it.     *)
FramingSucceeds ==
  [][SlotTaken => HeaderFits(tdma_rdc_buf_copyto_packetbuf(pb))]_vars

(* A slot sends what it took from a ring that has not wrapped, whatever    *)
(* was received before.                                                    *)
ShortFramesIntact ==
  [][SlotTaken /\ ~full => air' = payload']_vars

(* "Send current data from application layer to RDC layer" (app_conn.h:44):*)
(* a slot sends what it took from the ring, also when the ring is full.    *)
FramesIntact == [][SlotTaken => air' = payload']_vars
=============================================================================
