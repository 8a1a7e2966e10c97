----------------------------- MODULE PacketBuf ------------------------------
(***************************************************************************)
(* The packet buffer (core/net/packetbuf.c) and what the TDMA framer       *)
(* (core/net/mac/framer-tdma.c) does to its positions.                     *)
(*                                                                         *)
(* One buffer serves the frame that was received last and the frame that   *)
(* is sent next.  A header region of PACKETBUF_HDR_SIZE bytes comes first; *)
(* an outgoing header grows downwards from its end (hdrptr).  The data     *)
(* region follows; an incoming header is skipped there by moving bufptr.   *)
(* A byte is a number that tells where it came from, 0 for bytes that are  *)
(* nobody's payload.                                                       *)
(***************************************************************************)
EXTENDS Integers, Sequences

CONSTANTS
  PACKETBUF_HDR_SIZE,   \* 48
  PACKETBUF_SIZE,       \* 128
  HeaderLen             \* the bytes of an 802.15.4 header with short addresses

ASSUME PacketBufAssumption ==
  /\ {PACKETBUF_HDR_SIZE, PACKETBUF_SIZE} \subseteq Nat
  /\ HeaderLen \in 1 .. PACKETBUF_HDR_SIZE

Places == 0 .. PACKETBUF_HDR_SIZE + PACKETBUF_SIZE - 1

PacketBufType ==
  [hdrptr : 0 .. PACKETBUF_HDR_SIZE, bufptr : 0 .. PACKETBUF_SIZE,
   buflen : 0 .. PACKETBUF_SIZE, bytes : [Places -> Nat]]

EmptyPacketBuf ==
  [hdrptr |-> PACKETBUF_HDR_SIZE, bufptr |-> 0, buflen |-> 0,
   bytes |-> [i \in Places |-> 0]]

(* memcpy(&packetbuf[at], s, Len(s)). *)
Written(p, at, s) ==
  [p EXCEPT !.bytes = [i \in Places |-> IF i - at \in 0 .. Len(s) - 1
                                        THEN s[i - at + 1] ELSE @[i]]]

(* Fault: the header of the last frame stays allocated. *)
HeaderKept(p) == [p EXCEPT !.bufptr = 0, !.buflen = 0]

packetbuf_clear(p) ==
  [p EXCEPT !.hdrptr = PACKETBUF_HDR_SIZE, !.bufptr = 0, !.buflen = 0]

(* The index of packetbuf_dataptr(). *)
packetbuf_dataptr(p) == PACKETBUF_HDR_SIZE + p.bufptr

packetbuf_set_datalen(p, len) == [p EXCEPT !.buflen = len]

packetbuf_copyfrom(p, s) ==
  LET kept == SubSeq(s, 1, IF Len(s) > PACKETBUF_SIZE THEN PACKETBUF_SIZE
                                                      ELSE Len(s))
  IN packetbuf_set_datalen(
       Written(packetbuf_clear(p), PACKETBUF_HDR_SIZE, kept), Len(kept))

packetbuf_totlen(p) == PACKETBUF_HDR_SIZE - p.hdrptr + p.buflen

(* Room for a header of the framer's length (packetbuf_hdralloc). *)
HeaderFits(p) ==
  /\ p.hdrptr >= HeaderLen
  /\ packetbuf_totlen(p) + HeaderLen <= PACKETBUF_SIZE

(* Fault: the header is put where the data starts. *)
CreatedInData(p) ==
  IF HeaderFits(p)
  THEN Written(p, PACKETBUF_HDR_SIZE, [i \in 1 .. HeaderLen |-> 0]) ELSE p

(* framer_tdma's create(): the header goes below hdrptr.  When there is no *)
(* room it returns FRAMER_FAILED, which nobody looks at.                   *)
create(p) ==
  IF HeaderFits(p)
  THEN Written([p EXCEPT !.hdrptr = @ - HeaderLen], p.hdrptr - HeaderLen,
               [i \in 1 .. HeaderLen |-> 0])
  ELSE p

(* framer_tdma's parse(): skip the header of a received frame (the only    *)
(* change of positions, packetbuf_hdrreduce).                              *)
parse(p) ==
  IF p.buflen >= HeaderLen
  THEN [p EXCEPT !.bufptr = @ + HeaderLen, !.buflen = @ - HeaderLen] ELSE p

(* cc2420_process up to input(): a received frame of len bytes.            *)
Received(p, len) ==
  packetbuf_set_datalen(
    Written(packetbuf_clear(p), PACKETBUF_HDR_SIZE, [i \in 1 .. len |-> 0]),
    len)

(* What the radio sends: packetbuf_totlen() bytes from packetbuf_hdrptr(). *)
(* The receiver skips the header.                                          *)
PayloadOnAir(p) ==
  [i \in 1 .. packetbuf_totlen(p) - HeaderLen |->
     p.bytes[p.hdrptr + HeaderLen + i - 1]]
=============================================================================
