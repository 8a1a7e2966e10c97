------------------------------ MODULE AppConn -------------------------------
(***************************************************************************)
(* The way of a reading at a sensor from the application to the air: the   *)
(* ring of core/net/appconn/app_conn.c, which the main loop fills in       *)
(* app_conn_send() and the rtimer interrupt of the sensor's slot empties,  *)
(* and the packet buffer that the slot copies it into.                     *)
(*                                                                         *)
(* The interrupt is one step: it preempts the main loop and nothing        *)
(* preempts it.  app_conn_send is modelled one statement at a time, and a  *)
(* memcpy one byte at a time, so that the interrupt may come between any   *)
(* two of them; the processing of a received frame is one step.            *)
(* Bytes are numbered as the application hands them over.                  *)
(***************************************************************************)
EXTENDS PacketBuf

CONSTANTS
  MAX_PKT_PAYLOAD_SIZE,   \* 116, the size of the ring
  DataLens,               \* the lengths an application may hand over
  FrameLens,              \* the lengths of received frames, 0 for a bad one
  Preempt,                \* may the slot come in the middle of app_conn_send?
  MaxBytes                \* bound on the bytes handed over

ASSUME AppConnAssumption ==
  /\ MAX_PKT_PAYLOAD_SIZE \in 1 .. 255
  /\ MAX_PKT_PAYLOAD_SIZE + HeaderLen <= PACKETBUF_SIZE
  /\ DataLens \subseteq 1 .. MAX_PKT_PAYLOAD_SIZE
  /\ FrameLens \subseteq {0} \cup HeaderLen .. PACKETBUF_SIZE
  /\ Preempt \in BOOLEAN

VARIABLES
  buffer, buf_ptr, send_ptr, full, in_using,  \* tdma_rdc_buffer, tdma_rdc_buf_*
  pc, data_len, temp_len,  \* app_conn_send: where it is, its locals
  dst, left, copied,       \* the memcpy in progress; bytes copied in this call
  pb,                      \* the packet buffer
  booked,                  \* a frame of the base station has booked the slot
  payload,                 \* what the last slot copied from the ring
  air,                     \* what the last slot sent
  accepted, taken          \* history: see LatestBytes

ring  == <<buffer, buf_ptr, send_ptr, full, in_using>>
local == <<pc, data_len, temp_len, dst, left, copied>>
net   == <<pb, booked, payload, air>>
vars  == <<ring, local, net, accepted, taken>>

Size == MAX_PKT_PAYLOAD_SIZE

-----------------------------------------------------------------------------
(* app_conn_send().  The lock is free or, after a hundred turns, taken     *)
(* anyway; the interrupt leaves it free.                                   *)
Lock(n) ==
  /\ pc = "idle"
  /\ accepted + n <= MaxBytes
  /\ in_using' = TRUE
  /\ data_len' = n
  /\ copied' = 0
  /\ pc' = "test"
  /\ UNCHANGED <<buffer, buf_ptr, send_ptr, full, temp_len, dst, left, net,
                 accepted, taken>>

Fits == data_len + buf_ptr <= Size

Test ==
  /\ pc = "test"
  /\ pc' = IF Fits THEN "whole" ELSE "measure"
  /\ UNCHANGED <<ring, data_len, temp_len, dst, left, copied, net, accepted,
                 taken>>

(* The arguments of a memcpy of n bytes into the ring at buf_ptr. *)
StartCopy(at, n, to) ==
  /\ pc = at
  /\ dst' = buf_ptr
  /\ left' = n
  /\ pc' = to
  /\ UNCHANGED <<ring, data_len, temp_len, copied, net, accepted, taken>>

(* One byte of a memcpy, or its end.  A write behind the ring is undefined *)
(* behaviour: nothing is said of what follows.  Reading behind the data    *)
(* yields somebody else's bytes.                                           *)
Copy(at, to) ==
  /\ pc = at
  /\ IF left = 0
     THEN pc' = to /\ UNCHANGED <<buffer, dst, left, copied>>
     ELSE IF dst >= Size
     THEN pc' = "overrun" /\ UNCHANGED <<buffer, dst, left, copied>>
     ELSE /\ buffer' = [buffer EXCEPT ![dst] =
                          IF copied < data_len THEN accepted + copied + 1
                                               ELSE 0]
          /\ dst' = dst + 1
          /\ left' = left - 1
          /\ copied' = copied + 1
          /\ UNCHANGED pc
  /\ UNCHANGED <<buf_ptr, send_ptr, full, in_using, data_len, temp_len, net,
                 accepted, taken>>

(* uint8_t temp_len: how much of the data fits before the end. *)
Measure ==
  /\ pc = "measure"
  /\ temp_len' = (Size - buf_ptr) % 256
  /\ pc' = "head"
  /\ UNCHANGED <<ring, data_len, dst, left, copied, net, accepted, taken>>

Wrap ==
  /\ pc = "wrap"
  /\ full' = TRUE
  /\ pc' = "rewind"
  /\ UNCHANGED <<buffer, buf_ptr, send_ptr, in_using, data_len, temp_len, dst,
                 left, copied, net, accepted, taken>>

Rewind ==
  /\ pc = "rewind"
  /\ buf_ptr' = 0
  /\ pc' = "tail"
  /\ UNCHANGED <<buffer, send_ptr, full, in_using, data_len, temp_len, dst,
                 left, copied, net, accepted, taken>>

(* buf_ptr, 8 bits wide, moves by n bytes. *)
Advance(at, n) ==
  /\ pc = at
  /\ buf_ptr' = (buf_ptr + n) % 256
  /\ pc' = "mark"
  /\ UNCHANGED <<buffer, send_ptr, full, in_using, data_len, temp_len, dst,
                 left, copied, net, accepted, taken>>

(* Fault: the oldest byte of a full ring is taken to be the first. *)
OldestAtStart == 0

(* Where the oldest byte of a full ring is. *)
Oldest == buf_ptr

Mark ==
  /\ pc = "mark"
  /\ send_ptr' = IF full THEN Oldest ELSE send_ptr
  /\ pc' = "unlock"
  /\ UNCHANGED <<buffer, buf_ptr, full, in_using, data_len, temp_len, dst,
                 left, copied, net, accepted, taken>>

Unlock ==
  /\ pc = "unlock"
  /\ in_using' = FALSE
  /\ accepted' = accepted + data_len
  /\ pc' = "idle"
  /\ data_len' = 0 /\ temp_len' = 0 /\ dst' = 0 /\ copied' = 0
  /\ UNCHANGED <<buffer, buf_ptr, send_ptr, full, left, net, taken>>

(* 16-bit arithmetic of data_len - temp_len. *)
TailLen == (data_len - temp_len) % (2 ^ 16)

app_conn_send ==
  \/ \E n \in DataLens : Lock(n)
  \/ Test
  \/ StartCopy("whole", data_len, "copy")
  \/ Copy("copy", "advance")
  \/ Advance("advance", data_len)
  \/ Measure
  \/ StartCopy("head", temp_len, "copyhead")
  \/ Copy("copyhead", "wrap")
  \/ Wrap
  \/ Rewind
  \/ StartCopy("tail", TailLen, "copytail")
  \/ Copy("copytail", "advancetail")
  \/ Advance("advancetail", TailLen)
  \/ Mark
  \/ Unlock

-----------------------------------------------------------------------------
(* A frame arrives: cc2420_process and input() in the main loop.  cc2420_  *)
(* read returns no bytes for a damaged frame.  Data of the base station    *)
(* books the slot, which comes before the base station's next frame (see   *)
(* TdmaRdc), so that nothing takes the booking back.                       *)
Receive(len, books) ==
  /\ pc = "idle"
  /\ books => len >= HeaderLen
  /\ pb' = parse(Received(pb, len))
  /\ booked' = (booked \/ books)
  /\ UNCHANGED <<ring, local, payload, air, accepted, taken>>

(* What the ring holds: its beginning, or all of it from the oldest byte.  *)
Contents ==
  IF full
  THEN [i \in 1 .. Size |-> IF i <= Size - send_ptr
                            THEN buffer[send_ptr + i - 1]
                            ELSE buffer[i - 1 - (Size - send_ptr)]]
  ELSE [i \in 1 .. buf_ptr |-> buffer[i - 1]]

(* A full ring is copied to packetbuf_dataptr() without packetbuf_clear(). *)
tdma_rdc_buf_copyto_packetbuf(p) ==
  IF full
  THEN packetbuf_set_datalen(Written(p, packetbuf_dataptr(p), Contents), Size)
  ELSE packetbuf_copyfrom(p, Contents)

(* Fault: the ring is not marked empty after it was sent. *)
StaysFull == UNCHANGED <<buf_ptr, send_ptr, full>>

tdma_rdc_buf_clear ==
  /\ buf_ptr' = 0
  /\ send_ptr' = 0
  /\ full' = FALSE

(* The slot: TDMA_SN_send in the rtimer interrupt.  It clears the ring     *)
(* whether or not the frame was sent.                                      *)
Slot ==
  /\ booked
  /\ Preempt \/ pc = "idle"
  /\ payload' = Contents
  /\ pb' = create(tdma_rdc_buf_copyto_packetbuf(pb))
  /\ air' = PayloadOnAir(pb')
  /\ tdma_rdc_buf_clear
  /\ in_using' = FALSE
  /\ booked' = FALSE
  /\ taken' = accepted
  /\ UNCHANGED <<buffer, local, accepted>>

-----------------------------------------------------------------------------
Init ==
  /\ buffer = [i \in 0 .. Size - 1 |-> 0]
  /\ buf_ptr = 0 /\ send_ptr = 0 /\ full = FALSE /\ in_using = FALSE
  /\ pc = "idle" /\ data_len = 0 /\ temp_len = 0
  /\ dst = 0 /\ left = 0 /\ copied = 0
  /\ pb = EmptyPacketBuf
  /\ booked = FALSE
  /\ payload = <<>> /\ air = <<>>
  /\ accepted = 0 /\ taken = 0

Next ==
  \/ app_conn_send
  \/ \E len \in FrameLens, books \in BOOLEAN : Receive(len, books)
  \/ Slot

Spec == Init /\ [][Next]_vars
=============================================================================
