---------------------------- MODULE Sampling_proofs --------------------------
(***************************************************************************)
(* What an application that samples relies on: the connector that takes    *)
(* its samples and the sensor it has them from.                            *)
(*                                                                         *)
(* As long as no slot falls into a call of app_conn_send, the ring of the  *)
(* connector behaves like LatestBytes, for every size of the ring and      *)
(* every length of data.                                                   *)
(*                                                                         *)
(* As long as no wait for the clock is given up, a call of mpu-6050.c that *)
(* returns 1 has written or read the registers, changes no other one and   *)
(* leaves the bus free, for every width of a byte, number of registers and *)
(* address, and however long the sensor holds the clock.                   *)
(***************************************************************************)
EXTENDS AppConnRing, Mpu6050, SequenceTheorems, WellFoundedInduction, TLAPS

-----------------------------------------------------------------------------
(* The packet buffer's operators, for every size. *)

LEMMA Sizes ==
  /\ PACKETBUF_HDR_SIZE \in Nat /\ PACKETBUF_SIZE \in Nat
  /\ HeaderLen \in Nat /\ HeaderLen <= PACKETBUF_HDR_SIZE
  BY PacketBufAssumption

(* Writing bytes into the buffer moves nothing. *)
LEMMA WrittenType ==
  ASSUME NEW p \in PacketBufType, NEW at \in Int, NEW s \in Seq(Nat)
  PROVE  /\ Written(p, at, s) \in PacketBufType
         /\ Written(p, at, s).hdrptr = p.hdrptr
         /\ Written(p, at, s).bufptr = p.bufptr
         /\ Written(p, at, s).buflen = p.buflen
<1>1. /\ PACKETBUF_HDR_SIZE \in Nat /\ PACKETBUF_SIZE \in Nat
      /\ Places \subseteq Int
  BY Sizes DEF Places
<1>2. \A i \in Places : i - at \in 0 .. Len(s) - 1 => s[i - at + 1] \in Nat
  BY <1>1
<1>3. [i \in Places |-> IF i - at \in 0 .. Len(s) - 1
                        THEN s[i - at + 1] ELSE p.bytes[i]]
        \in [Places -> Nat]
  BY <1>2 DEF PacketBufType
<1> QED BY <1>3 DEF Written, PacketBufType

(* Sequences of zeros are bytes. *)
LEMMA ZerosType ==
  ASSUME NEW n \in Nat
  PROVE  [i \in 1 .. n |-> 0] \in Seq(Nat)
  OBVIOUS

LEMMA ClearType ==
  ASSUME NEW p \in PacketBufType
  PROVE  /\ packetbuf_clear(p) \in PacketBufType
         /\ packetbuf_clear(p).hdrptr = PACKETBUF_HDR_SIZE
         /\ packetbuf_clear(p).bufptr = 0
<1>1. PACKETBUF_HDR_SIZE \in 0 .. PACKETBUF_HDR_SIZE /\ 0 \in 0 .. PACKETBUF_SIZE
  BY Sizes
<1> QED BY <1>1 DEF packetbuf_clear, PacketBufType

LEMMA DatalenType ==
  ASSUME NEW p \in PacketBufType, NEW n \in 0 .. PACKETBUF_SIZE
  PROVE  /\ packetbuf_set_datalen(p, n) \in PacketBufType
         /\ packetbuf_set_datalen(p, n).hdrptr = p.hdrptr
         /\ packetbuf_set_datalen(p, n).bufptr = p.bufptr
         /\ packetbuf_set_datalen(p, n).buflen = n
  BY DEF packetbuf_set_datalen, PacketBufType

(* What packetbuf_copyfrom leaves: the data at the start of the data       *)
(* region, room for a whole header before it.                              *)
LEMMA CopyFrom ==
  ASSUME NEW p \in PacketBufType, NEW s \in Seq(Nat), Len(s) <= PACKETBUF_SIZE
  PROVE  /\ packetbuf_copyfrom(p, s) \in PacketBufType
         /\ packetbuf_copyfrom(p, s).hdrptr = PACKETBUF_HDR_SIZE
         /\ packetbuf_copyfrom(p, s).bufptr = 0
         /\ packetbuf_copyfrom(p, s).buflen = Len(s)
<1>1. SubSeq(s, 1, Len(s)) = s /\ Len(s) \in 0 .. PACKETBUF_SIZE
  OBVIOUS
<1>2. packetbuf_copyfrom(p, s)
        = packetbuf_set_datalen(
            Written(packetbuf_clear(p), PACKETBUF_HDR_SIZE, s), Len(s))
  <2>1. ~(Len(s) > PACKETBUF_SIZE)
    BY Sizes
  <2> QED BY <1>1, <2>1 DEF packetbuf_copyfrom
<1>3. /\ Written(packetbuf_clear(p), PACKETBUF_HDR_SIZE, s) \in PacketBufType
      /\ Written(packetbuf_clear(p), PACKETBUF_HDR_SIZE, s).hdrptr
           = PACKETBUF_HDR_SIZE
      /\ Written(packetbuf_clear(p), PACKETBUF_HDR_SIZE, s).bufptr = 0
  BY ClearType, WrittenType, Sizes
<1> QED BY <1>1, <1>2, <1>3, DatalenType

LEMMA CreateType ==
  ASSUME NEW p \in PacketBufType
  PROVE  create(p) \in PacketBufType
<1>1. CASE HeaderFits(p)
  <2>1. [p EXCEPT !.hdrptr = @ - HeaderLen] \in PacketBufType
    BY <1>1, Sizes DEF HeaderFits, PacketBufType
  <2>2. p.hdrptr - HeaderLen \in Int /\ HeaderLen \in Nat
    BY Sizes DEF PacketBufType
  <2> QED BY <1>1, <2>1, <2>2, ZerosType, WrittenType DEF create
<1>2. CASE ~HeaderFits(p)
  BY <1>2 DEF create
<1> QED BY <1>1, <1>2

(* A received frame resets both positions; parsing it moves only bufptr.   *)
LEMMA ReceivedType ==
  ASSUME NEW p \in PacketBufType, NEW n \in 0 .. PACKETBUF_SIZE
  PROVE  /\ parse(Received(p, n)) \in PacketBufType
         /\ parse(Received(p, n)).hdrptr = PACKETBUF_HDR_SIZE
         /\ parse(Received(p, n)).bufptr \in {0, HeaderLen}
<1> DEFINE q == Received(p, n)
<1>1. /\ q \in PacketBufType
      /\ q.hdrptr = PACKETBUF_HDR_SIZE
      /\ q.bufptr = 0 /\ q.buflen = n
  <2>1. n \in Nat /\ PACKETBUF_HDR_SIZE \in Int
    BY Sizes
  <2> QED BY <2>1, ClearType, ZerosType, WrittenType, DatalenType DEF Received
<1> HIDE DEF q
<1>2. /\ parse(q) \in PacketBufType
      /\ parse(q).hdrptr = PACKETBUF_HDR_SIZE
      /\ parse(q).bufptr \in {0, HeaderLen}
  <2>1. CASE q.buflen >= HeaderLen
    <3>1. /\ q.bufptr + HeaderLen \in 0 .. PACKETBUF_SIZE
          /\ q.buflen - HeaderLen \in 0 .. PACKETBUF_SIZE
          /\ q.bufptr + HeaderLen = HeaderLen
      BY <1>1, <2>1, Sizes
    <3> QED BY <1>1, <2>1, <3>1 DEF parse, PacketBufType
  <2>2. CASE ~(q.buflen >= HeaderLen)
    BY <1>1, <2>2 DEF parse
  <2> QED BY <2>1, <2>2
<1> QED BY <1>2 DEF q

(* Which bytes a write leaves. *)
LEMMA WrittenBytes ==
  ASSUME NEW p \in PacketBufType, NEW at \in Int, NEW s \in Seq(Nat)
  PROVE  Written(p, at, s).bytes =
           [i \in Places |-> IF i - at \in 0 .. Len(s) - 1
                             THEN s[i - at + 1] ELSE p.bytes[i]]
  BY DEF Written, PacketBufType

(* The data of packetbuf_copyfrom is what the receiver gets: the header    *)
(* fits before it and overwrites none of it.                               *)
LEMMA OnAir ==
  ASSUME NEW p \in PacketBufType, NEW s \in Seq(Nat),
         Len(s) + HeaderLen <= PACKETBUF_SIZE
  PROVE  PayloadOnAir(create(packetbuf_copyfrom(p, s))) = s
<1> DEFINE H == PACKETBUF_HDR_SIZE
           c == packetbuf_clear(p)
           q == packetbuf_copyfrom(p, s)
           h == [q EXCEPT !.hdrptr = @ - HeaderLen]
           zeros == [i \in 1 .. HeaderLen |-> 0]
           r == create(q)
<1>1. /\ H \in Nat /\ HeaderLen \in Nat /\ HeaderLen <= H /\ Len(s) \in Nat
      /\ PACKETBUF_SIZE \in Nat /\ Len(s) <= PACKETBUF_SIZE
  BY Sizes
<1>2. q \in PacketBufType /\ q.hdrptr = H /\ q.buflen = Len(s)
  BY <1>1, CopyFrom
<1>3. \A k \in 1 .. Len(s) : H + k - 1 \in Places /\ q.bytes[H + k - 1] = s[k]
  <2>1. SubSeq(s, 1, Len(s)) = s /\ ~(Len(s) > PACKETBUF_SIZE)
    BY <1>1
  <2>2. q = packetbuf_set_datalen(Written(c, H, s), Len(s))
    BY <2>1 DEF packetbuf_copyfrom
  <2>3. c \in PacketBufType /\ H \in Int
    BY <1>1, ClearType
  <2>4. Written(c, H, s) \in PacketBufType
    BY <2>3, WrittenType
  <2>5. q.bytes = Written(c, H, s).bytes
    BY <2>2, <2>4 DEF packetbuf_set_datalen, PacketBufType
  <2>6. q.bytes = [i \in Places |-> IF i - H \in 0 .. Len(s) - 1
                                    THEN s[i - H + 1] ELSE c.bytes[i]]
    BY <2>3, <2>5, WrittenBytes
  <2> HIDE DEF q, c
  <2> TAKE k \in 1 .. Len(s)
  <2>7. H + k - 1 \in Places
    BY <1>1 DEF Places
  <2>8. (H + k - 1) - H \in 0 .. Len(s) - 1 /\ (H + k - 1) - H + 1 = k
    BY <1>1
  <2> QED BY <2>6, <2>7, <2>8
<1> HIDE DEF q, c
<1>4. HeaderFits(q)
  BY <1>1, <1>2 DEF HeaderFits, packetbuf_totlen
<1>5. r = Written(h, H - HeaderLen, zeros)
  BY <1>2, <1>4 DEF create
<1>6. h \in PacketBufType /\ h.hdrptr = H - HeaderLen /\ h.buflen = Len(s)
      /\ h.bytes = q.bytes
  <2>1. H - HeaderLen \in 0 .. PACKETBUF_HDR_SIZE
    BY <1>1
  <2> QED BY <1>2, <2>1 DEF PacketBufType
<1>7. zeros \in Seq(Nat) /\ Len(zeros) = HeaderLen
  BY <1>1, ZerosType
<1> HIDE DEF h, zeros
<1>8. /\ r.hdrptr = H - HeaderLen /\ r.buflen = Len(s)
      /\ r.bytes = [i \in Places |->
                      IF i - (H - HeaderLen) \in 0 .. HeaderLen - 1
                      THEN zeros[i - (H - HeaderLen) + 1] ELSE q.bytes[i]]
  <2>1. H - HeaderLen \in Int
    BY <1>1
  <2>0. /\ Written(h, H - HeaderLen, zeros).hdrptr = h.hdrptr
        /\ Written(h, H - HeaderLen, zeros).buflen = h.buflen
    BY <1>6, <1>7, <2>1, WrittenType, SMTT(30)
  <2>2. r.hdrptr = h.hdrptr /\ r.buflen = h.buflen
    BY <1>5, <2>0
  <2>3. Written(h, H - HeaderLen, zeros).bytes =
          [i \in Places |-> IF i - (H - HeaderLen) \in 0 .. Len(zeros) - 1
                            THEN zeros[i - (H - HeaderLen) + 1]
                            ELSE h.bytes[i]]
    BY <1>6, <1>7, <2>1, WrittenBytes, SMTT(60)
  <2>4. r.bytes =
          [i \in Places |-> IF i - (H - HeaderLen) \in 0 .. HeaderLen - 1
                            THEN zeros[i - (H - HeaderLen) + 1]
                            ELSE q.bytes[i]]
    BY <1>5, <1>6, <1>7, <2>3, Zenon
  <2> QED BY <1>6, <2>2, <2>4
<1> HIDE DEF r
<1>9. \A k \in 1 .. Len(s) : r.bytes[r.hdrptr + HeaderLen + k - 1] = s[k]
  <2> TAKE k \in 1 .. Len(s)
  <2>1. /\ r.hdrptr + HeaderLen + k - 1 = H + k - 1
        /\ ~((H + k - 1) - (H - HeaderLen) \in 0 .. HeaderLen - 1)
    BY <1>1, <1>8
  <2>2. H + k - 1 \in Places /\ q.bytes[H + k - 1] = s[k]
    BY <1>3
  <2> QED BY <1>8, <2>1, <2>2, SMTT(30)
<1>10. packetbuf_totlen(r) - HeaderLen = Len(s)
  BY <1>1, <1>8, SMTT(30) DEF packetbuf_totlen
<1>11. PayloadOnAir(r) = [k \in 1 .. Len(s) |-> s[k]]
  BY <1>9, <1>10 DEF PayloadOnAir
<1>12. s = [k \in 1 .. Len(s) |-> s[k]]
  OBVIOUS
<1> QED BY <1>11, <1>12 DEF r, q

-----------------------------------------------------------------------------
(* The ring. *)

LEMMA RingSizes ==
  /\ Size \in 1 .. 255
  /\ Size + HeaderLen <= PACKETBUF_SIZE
  /\ \A n \in DataLens : n \in 1 .. Size
  /\ \A n \in FrameLens : n \in 0 .. PACKETBUF_SIZE
  BY AppConnAssumption, Sizes DEF Size

(* A value below the width of a byte is kept by the 8-bit arithmetic, and  *)
(* one below that of a word by the 16-bit arithmetic.                      *)
LEMMA Narrow ==
  /\ \A n \in 0 .. 255 : n % 256 = n
  /\ \A n \in 0 .. 255 : n % (2 ^ 16) = n
<1>1. 2 ^ 16 = 65536
  OBVIOUS
<1> QED BY <1>1

(* What the slot copies from a ring is bytes, and fits.                    *)
LEMMA ContentsType ==
  ASSUME TypeOK, Holds(buf_ptr, full, accepted), full => send_ptr = buf_ptr
  PROVE  /\ Contents \in Seq(Nat)
         /\ Len(Contents) = IF full THEN Size ELSE buf_ptr
<1>1. Size \in Nat /\ buf_ptr \in 0 .. Size /\ buffer \in [0 .. Size - 1 -> Nat]
  BY RingSizes DEF TypeOK, Holds
<1>2. CASE full
  <2>1. \A i \in 1 .. Size : IF i <= Size - send_ptr
                             THEN buffer[send_ptr + i - 1] \in Nat
                             ELSE buffer[i - 1 - (Size - send_ptr)] \in Nat
    BY <1>1, <1>2
  <2> QED BY <1>1, <1>2, <2>1 DEF Contents
<1>3. CASE ~full
  <2>1. \A i \in 1 .. buf_ptr : buffer[i - 1] \in Nat
    BY <1>1
  <2> QED BY <1>1, <1>3, <2>1 DEF Contents
<1> QED BY <1>2, <1>3

(* It is the latest bytes, oldest first. *)
LEMMA ContentsLatest ==
  ASSUME TypeOK, Holds(buf_ptr, full, accepted), full => send_ptr = buf_ptr
  PROVE  Contents = Abstract!Latest(taken, accepted)
<1>1. /\ Size \in Nat \ {0} /\ buf_ptr \in 0 .. Size
      /\ accepted \in Nat /\ taken \in Nat
  BY RingSizes DEF TypeOK, Holds
<1>2. CASE full
  <2>1. \A i \in 1 .. Size :
          (IF i <= Size - send_ptr THEN buffer[send_ptr + i - 1]
                                   ELSE buffer[i - 1 - (Size - send_ptr)])
            = accepted - Size + i
    <3> SUFFICES ASSUME NEW i \in 1 .. Size
                 PROVE (IF i <= Size - send_ptr
                        THEN buffer[send_ptr + i - 1]
                        ELSE buffer[i - 1 - (Size - send_ptr)])
                          = accepted - Size + i
      OBVIOUS
    <3>1. send_ptr = buf_ptr
      BY <1>2
    <3>2. CASE i <= Size - send_ptr
      <4>1. /\ send_ptr + i - 1 \in 0 .. Size - 1
            /\ send_ptr + i - 1 >= buf_ptr
        BY <1>1, <3>1, <3>2
      <4>2. buffer[send_ptr + i - 1]
              = accepted - buf_ptr + (send_ptr + i - 1) + 1 - Size
        BY <1>2, <4>1 DEF Holds
      <4> QED BY <1>1, <3>1, <3>2, <4>2
    <3>3. CASE ~(i <= Size - send_ptr)
      <4>1. /\ i - 1 - (Size - send_ptr) \in 0 .. Size - 1
            /\ i - 1 - (Size - send_ptr) < buf_ptr
        BY <1>1, <3>1, <3>3
      <4>2. buffer[i - 1 - (Size - send_ptr)]
              = accepted - buf_ptr + (i - 1 - (Size - send_ptr)) + 1
        BY <4>1 DEF Holds
      <4> QED BY <1>1, <3>1, <3>3, <4>2
    <3> QED BY <3>2, <3>3
  <2>2. (IF accepted - taken > Size THEN Size ELSE accepted - taken) = Size
    BY <1>1, <1>2 DEF Holds
  <2> QED BY <1>2, <2>1, <2>2 DEF Contents, Abstract!Latest
<1>3. CASE ~full
  <2>1. accepted - taken = buf_ptr
    BY <1>3 DEF Holds
  <2>2. (IF accepted - taken > Size THEN Size ELSE accepted - taken) = buf_ptr
    BY <1>1, <2>1
  <2>3. \A i \in 1 .. buf_ptr : buffer[i - 1] = accepted - buf_ptr + i
    <3> SUFFICES ASSUME NEW i \in 1 .. buf_ptr
                 PROVE  buffer[i - 1] = accepted - buf_ptr + i
      OBVIOUS
    <3>1. i - 1 \in 0 .. Size - 1 /\ i - 1 < buf_ptr
      BY <1>1
    <3>2. buffer[i - 1] = accepted - buf_ptr + (i - 1) + 1
      BY <3>1 DEF Holds
    <3> QED BY <1>1, <3>2
  <2> QED BY <1>3, <2>2, <2>3 DEF Contents, Abstract!Latest
<1> QED BY <1>2, <1>3

(* A byte written at the write position belongs to the ring. *)
LEMMA HoldsCopy ==
  ASSUME TypeOK, NEW p \in 0 .. Size - 1, NEW w \in Nat, NEW wrapped \in BOOLEAN,
         Holds(p, wrapped, w), UNCHANGED taken,
         buffer' = [buffer EXCEPT ![p] = w + 1]
  PROVE  Holds(p + 1, wrapped, w + 1)'
<1>1. /\ Size \in Nat /\ taken \in Nat
      /\ buffer \in [0 .. Size - 1 -> Nat]
  BY RingSizes DEF TypeOK
<1>2. p + 1 \in 0 .. Size
  BY <1>1
<1>3. \A i \in 0 .. Size - 1 : i < p + 1 => buffer'[i] = (w+1) - (p+1) + i + 1
  BY <1>1 DEF Holds
<1>4. wrapped => \A i \in 0 .. Size - 1 :
        i >= p + 1 => buffer'[i] = (w + 1) - (p + 1) + i + 1 - Size
  BY <1>1 DEF Holds
<1>5. IF wrapped THEN (w + 1) - taken' >= Size ELSE (w + 1) - taken' = p + 1
  BY <1>1 DEF Holds
<1> QED BY <1>2, <1>3, <1>4, <1>5 DEF Holds

(* A ring that has been filled to its end wraps to its beginning. *)
LEMMA HoldsWrap ==
  ASSUME TypeOK, NEW wrapped \in BOOLEAN, NEW w \in Nat,
         Holds(Size, wrapped, w)
  PROVE  Holds(0, TRUE, w)
<1>1. Size \in Nat \ {0} /\ taken \in Nat
  BY RingSizes DEF TypeOK
<1>2. \A i \in 0 .. Size - 1 : buffer[i] = w - Size + i + 1
  BY <1>1 DEF Holds
<1>3. \A i \in 0 .. Size - 1 : w - Size + i + 1 = w - 0 + i + 1 - Size
  BY <1>1
<1>4. w - taken >= Size
  BY <1>1 DEF Holds
<1> QED BY <1>1, <1>2, <1>3, <1>4 DEF Holds
-----------------------------------------------------------------------------
(* The invariant is inductive: one lemma for each part of app_conn_send,   *)
(* one for received frames and one for the slot.                           *)

LEMMA RingInit == Init => RingInv
<1> SUFFICES ASSUME Init PROVE RingInv
  OBVIOUS
<1>1. Size \in 1 .. 255
  BY RingSizes
<1>2. EmptyPacketBuf \in PacketBufType
  <2>1. PACKETBUF_HDR_SIZE \in 0 .. PACKETBUF_HDR_SIZE /\ 0 \in 0 .. PACKETBUF_SIZE
    BY Sizes
  <2> QED BY <2>1 DEF EmptyPacketBuf, PacketBufType
<1>3. TypeOK
  BY <1>1, <1>2 DEF Init, TypeOK
<1>4. IdleInv
  BY <1>1 DEF Init, IdleInv, Holds
<1> QED BY <1>3, <1>4
        DEF Init, RingInv, StartInv, CopyInv, HeadInv, TailInv, DoneInv

(* The numbers that the steps compute with. *)
LEMMA Numbers ==
  ASSUME RingInv
  PROVE  /\ Size \in Int /\ Size >= 1 /\ Size <= 255
         /\ buf_ptr \in Int /\ buf_ptr >= 0 /\ data_len \in Int
         /\ temp_len \in Int /\ temp_len >= 0
         /\ dst \in Int /\ dst >= 0 /\ left \in Nat /\ copied \in Nat
         /\ accepted \in Nat /\ taken \in Nat
         /\ full \in BOOLEAN
  BY RingSizes DEF RingInv, TypeOK

LEMMA LockStep ==
  ASSUME RingInv, NEW n \in DataLens, Lock(n)
  PROVE  RingInv'
<1>1. n \in 0 .. Size
  BY RingSizes
<1>2. TypeOK'
  BY <1>1 DEF RingInv, TypeOK, Lock, net
<1>3. StartInv'
  BY DEF RingInv, IdleInv, StartInv, Holds, Lock, net
<1> QED BY <1>2, <1>3
        DEF RingInv, IdleInv, CopyInv, HeadInv, TailInv, DoneInv, Lock

LEMMA TestStep ==
  ASSUME RingInv, Test
  PROVE  RingInv'
<1>1. TypeOK'
  BY DEF RingInv, TypeOK, Test, ring, net
<1>2. data_len \in Int /\ buf_ptr \in Int /\ Size \in Int
  BY RingSizes DEF RingInv, TypeOK
<1>3. StartInv'
  BY <1>2 DEF RingInv, StartInv, Holds, Test, Fits, ring, net
<1> QED BY <1>1, <1>3
        DEF RingInv, IdleInv, CopyInv, HeadInv, TailInv, DoneInv, Test

LEMMA MeasureStep ==
  ASSUME RingInv, Measure
  PROVE  RingInv'
<1>1. Size - buf_ptr \in 0 .. 255
  <2>1. buf_ptr \in 0 .. Size
    BY DEF RingInv, StartInv, Holds, Measure
  <2> QED BY <2>1, Numbers
<1>2. temp_len' = Size - buf_ptr
  BY <1>1, Narrow DEF Measure
<1>3. TypeOK'
  <2>1. /\ temp_len' \in 0 .. 255 /\ pc' = "head"
        /\ UNCHANGED <<buffer, buf_ptr, send_ptr, full, in_using, data_len,
                       dst, left, copied, pb, booked, accepted, taken>>
    BY <1>1, <1>2 DEF Measure, ring, net
  <2> QED BY <2>1 DEF RingInv, TypeOK
<1>4. StartInv'
  BY <1>2 DEF RingInv, StartInv, Holds, Measure, ring, net
<1> QED BY <1>3, <1>4
        DEF RingInv, IdleInv, CopyInv, HeadInv, TailInv, DoneInv, Measure

LEMMA StartWholeStep ==
  ASSUME RingInv, StartCopy("whole", data_len, "copy")
  PROVE  RingInv'
<1>1. TypeOK'
  BY DEF RingInv, TypeOK, StartCopy, ring, net
<1>2. CopyInv'
  <2>1. /\ buf_ptr \in Int /\ data_len \in Int /\ accepted \in Int
        /\ copied = 0
        /\ data_len \in DataLens /\ data_len + buf_ptr <= Size
        /\ Holds(buf_ptr, full, accepted)
        /\ ~full => send_ptr = 0
    BY DEF RingInv, TypeOK, StartInv, StartCopy
  <2>2. /\ dst' = buf_ptr /\ left' = data_len /\ pc' = "copy"
        /\ UNCHANGED <<buffer, buf_ptr, full, send_ptr, data_len, copied,
                       accepted, taken>>
    BY DEF StartCopy, ring
  <2>3. accepted + copied = accepted
    BY <2>1
  <2>4. Holds(dst, full, accepted + copied)'
    BY <2>1, <2>2, <2>3 DEF Holds
  <2> QED BY <2>1, <2>2, <2>4 DEF CopyInv
<1> QED BY <1>1, <1>2
        DEF RingInv, IdleInv, StartInv, HeadInv, TailInv, DoneInv, StartCopy

LEMMA StartHeadStep ==
  ASSUME RingInv, StartCopy("head", temp_len, "copyhead")
  PROVE  RingInv'
<1>1. TypeOK'
  BY DEF RingInv, TypeOK, StartCopy, ring, net
<1>2. HeadInv'
  <2>1. /\ buf_ptr \in Int /\ data_len \in Int /\ accepted \in Int
        /\ copied = 0 /\ Size \in Int
        /\ data_len \in DataLens /\ data_len + buf_ptr > Size
        /\ temp_len = Size - buf_ptr
        /\ Holds(buf_ptr, full, accepted)
    BY RingSizes DEF RingInv, TypeOK, StartInv, StartCopy
  <2>2. /\ dst' = buf_ptr /\ left' = temp_len /\ pc' = "copyhead"
        /\ UNCHANGED <<buffer, buf_ptr, full, data_len, temp_len, copied,
                       accepted, taken>>
    BY DEF StartCopy, ring
  <2>3. accepted + copied = accepted
    BY <2>1
  <2>4. Holds(dst, full, accepted + copied)'
    BY <2>1, <2>2, <2>3 DEF Holds
  <2> QED BY <2>1, <2>2, <2>4 DEF HeadInv
<1> QED BY <1>1, <1>2
        DEF RingInv, IdleInv, StartInv, CopyInv, TailInv, DoneInv, StartCopy

LEMMA WrapStep ==
  ASSUME RingInv, Wrap
  PROVE  RingInv'
<1>1. TypeOK'
  BY DEF RingInv, TypeOK, Wrap, net
<1>2. HeadInv'
  <2>1. /\ Holds(dst, full, accepted + copied)
        /\ dst = buf_ptr + copied /\ dst + left = Size /\ left = 0
        /\ temp_len = Size - buf_ptr /\ temp_len < data_len
        /\ data_len \in DataLens
    BY DEF RingInv, HeadInv, Wrap
  <2>2. /\ full' /\ pc' = "rewind"
        /\ UNCHANGED <<buffer, buf_ptr, data_len, temp_len, dst, left, copied,
                       accepted, taken>>
    BY DEF Wrap
  <2>3. Holds(dst, full, accepted + copied)'
    <3>1. dst = Size
      BY <2>1, Numbers
    <3>2. (accepted + copied) - taken >= Size
      BY <2>1, <3>1, Numbers DEF Holds
    <3>3. \A i \in 0 .. Size - 1 : ~(i >= dst)
      BY <3>1, Numbers
    <3>4. \A i \in 0 .. Size - 1 :
            i < dst => buffer[i] = (accepted + copied) - dst + i + 1
      BY <2>1 DEF Holds
    <3>5. dst \in 0 .. Size
      BY <2>1 DEF Holds
    <3> QED BY <2>2, <3>2, <3>3, <3>4, <3>5 DEF Holds
  <2> QED BY <2>1, <2>2, <2>3 DEF HeadInv
<1> QED BY <1>1, <1>2
        DEF RingInv, IdleInv, StartInv, CopyInv, TailInv, DoneInv, Wrap

LEMMA RewindStep ==
  ASSUME RingInv, Rewind
  PROVE  RingInv'
<1>1. TypeOK'
  BY DEF RingInv, TypeOK, Rewind, net
<1>2. TailInv'
  <2>1. /\ full /\ Holds(dst, full, accepted + copied)
        /\ dst = buf_ptr + copied /\ dst + left = Size /\ left = 0
        /\ temp_len = Size - buf_ptr /\ temp_len < data_len
        /\ data_len \in DataLens
    BY DEF RingInv, HeadInv, Rewind
  <2>2. dst = Size /\ copied = temp_len /\ accepted + copied \in Nat
    BY <2>1, Numbers
  <2>3. Holds(0, TRUE, accepted + copied)
    BY <2>1, <2>2, Numbers, HoldsWrap DEF RingInv
  <2>4. /\ buf_ptr' = 0 /\ pc' = "tail"
        /\ UNCHANGED <<buffer, full, data_len, temp_len, copied, accepted,
                       taken>>
    BY DEF Rewind
  <2>5. Holds(0, TRUE, accepted + copied)'
    BY <2>3, <2>4 DEF Holds
  <2> QED BY <2>1, <2>2, <2>4, <2>5 DEF TailInv
<1> QED BY <1>1, <1>2
        DEF RingInv, IdleInv, StartInv, CopyInv, HeadInv, DoneInv, Rewind

(* In the second half of a wrapping call the 16-bit difference is the      *)
(* difference.                                                             *)
LEMMA TailLength ==
  ASSUME RingInv, pc \in {"tail", "copytail", "advancetail"}
  PROVE  TailLen = data_len - temp_len /\ TailLen \in 1 .. Size
<1>1. data_len \in DataLens /\ temp_len < data_len
  BY DEF RingInv, TailInv
<1>2. data_len - temp_len \in 0 .. 255 /\ data_len - temp_len \in 1 .. Size
  <2>1. data_len \in 1 .. Size
    BY <1>1, RingSizes
  <2> QED BY <1>1, <2>1, Numbers
<1> QED BY <1>2, Narrow DEF TailLen

LEMMA StartTailStep ==
  ASSUME RingInv, StartCopy("tail", TailLen, "copytail")
  PROVE  RingInv'
<1>1. pc = "tail" /\ TailLen = data_len - temp_len /\ TailLen \in Nat
  BY TailLength, RingSizes DEF StartCopy
<1>2. TypeOK'
  BY <1>1 DEF RingInv, TypeOK, StartCopy, ring, net
<1>3. TailInv'
  <2>1. /\ full /\ buf_ptr = 0
        /\ temp_len < data_len /\ data_len \in DataLens
        /\ copied = temp_len
        /\ Holds(0, TRUE, accepted + copied)
    BY <1>1 DEF RingInv, TailInv
  <2>2. /\ dst' = 0 /\ left' = TailLen /\ pc' = "copytail"
        /\ UNCHANGED <<buffer, buf_ptr, full, data_len, temp_len, copied,
                       accepted, taken>>
    BY <2>1 DEF StartCopy, ring
  <2>3. Holds(dst, TRUE, accepted + copied)'
    BY <2>1, <2>2 DEF Holds
  <2>4. copied' = temp_len' + dst' /\ dst' + left' = data_len' - temp_len'
    BY <1>1, <2>1, <2>2, Numbers
  <2> QED BY <2>1, <2>2, <2>3, <2>4 DEF TailInv
<1> QED BY <1>1, <1>2, <1>3
        DEF RingInv, IdleInv, StartInv, CopyInv, HeadInv, DoneInv, StartCopy

(* A byte is copied to where there is still room for all that is left.     *)
LEMMA CopyByte ==
  ASSUME RingInv, NEW at, NEW to, Copy(at, to), left # 0,
         dst + left <= Size, copied < data_len,
         NEW wrapped \in BOOLEAN, Holds(dst, wrapped, accepted + copied)
  PROVE  /\ TypeOK' /\ pc' = at
         /\ dst' = dst + 1 /\ left' = left - 1 /\ copied' = copied + 1
         /\ UNCHANGED <<buf_ptr, send_ptr, full, data_len, temp_len, accepted,
                        taken>>
         /\ Holds(dst, wrapped, accepted + copied)'
<1>1. dst \in 0 .. Size - 1
  BY Numbers
<1>2. /\ buffer' = [buffer EXCEPT ![dst] = accepted + copied + 1]
      /\ dst' = dst + 1 /\ left' = left - 1 /\ copied' = copied + 1
      /\ pc' = at /\ pc' = pc
      /\ UNCHANGED <<buf_ptr, send_ptr, full, in_using, data_len, temp_len,
                     net, accepted, taken>>
  BY <1>1, Numbers DEF Copy
<1>3. TypeOK'
  <2>1. accepted + copied + 1 \in Nat /\ dst + 1 \in 0 .. 255
        /\ left - 1 \in Nat /\ copied + 1 \in Nat
    BY <1>1, Numbers
  <2> QED BY <1>1, <1>2, <2>1 DEF RingInv, TypeOK, net
<1>4. Holds(dst, wrapped, accepted + copied)'
  <2>1. PICK p \in 0 .. Size - 1 : p = dst
    BY <1>1
  <2>2. PICK w \in Nat : w = accepted + copied
    BY Numbers
  <2>3. Holds(p, wrapped, w)
    BY <2>1, <2>2
  <2>4. buffer' = [buffer EXCEPT ![p] = w + 1] /\ UNCHANGED taken
    BY <1>2, <2>1, <2>2
  <2>5. Holds(p + 1, wrapped, w + 1)'
    BY <2>3, <2>4, HoldsCopy DEF RingInv
  <2>6. dst' = p + 1 /\ accepted' + copied' = w + 1
    BY <1>2, <2>1, <2>2, Numbers
  <2> QED BY <2>5, <2>6 DEF Holds
<1> QED BY <1>2, <1>3, <1>4

(* At the end of a memcpy only the place in the program changes.           *)
LEMMA CopyEnd ==
  ASSUME RingInv, NEW at, NEW to, Copy(at, to), left = 0,
         to \in {"advance", "wrap", "advancetail"}
  PROVE  /\ TypeOK' /\ pc' = to
         /\ UNCHANGED <<buffer, buf_ptr, send_ptr, full, data_len, temp_len,
                        dst, left, copied, accepted, taken>>
  BY DEF RingInv, TypeOK, Copy, net

LEMMA CopyWholeStep ==
  ASSUME RingInv, Copy("copy", "advance")
  PROVE  RingInv'
<1>1. /\ pc = "copy"
      /\ Holds(dst, full, accepted + copied)
      /\ dst = buf_ptr + copied /\ dst + left = buf_ptr + data_len
      /\ buf_ptr + data_len <= Size
      /\ ~full => send_ptr = 0
      /\ data_len \in DataLens
  BY DEF RingInv, CopyInv, Copy
<1>2. CASE left = 0
  <2>1. /\ TypeOK' /\ pc' = "advance"
        /\ UNCHANGED <<buffer, buf_ptr, send_ptr, full, data_len, temp_len,
                       dst, left, copied, accepted, taken>>
    BY <1>2, CopyEnd
  <2>2. UNCHANGED <<accepted + copied>>
    BY <2>1
  <2>3. CopyInv'
    BY <1>1, <1>2, <2>1, <2>2 DEF CopyInv, Holds
  <2> QED BY <2>1, <2>3
          DEF RingInv, IdleInv, StartInv, HeadInv, TailInv, DoneInv
<1>3. CASE left # 0
  <2>1. dst + left <= Size /\ copied < data_len
    BY <1>1, <1>3, Numbers
  <2>2. PICK wrapped \in BOOLEAN : wrapped = full
    BY Numbers
  <2>3. /\ TypeOK' /\ pc' = "copy"
        /\ dst' = dst + 1 /\ left' = left - 1 /\ copied' = copied + 1
        /\ UNCHANGED <<buf_ptr, send_ptr, full, data_len, temp_len, accepted,
                       taken>>
        /\ Holds(dst, wrapped, accepted + copied)'
    BY <1>1, <1>3, <2>1, <2>2, CopyByte
  <2>4. dst' = buf_ptr' + copied' /\ dst' + left' = buf_ptr' + data_len'
    BY <1>1, <2>3, Numbers
  <2>5. Holds(dst, full, accepted + copied)'
    BY <2>2, <2>3 DEF Holds
  <2>6. CopyInv'
    BY <1>1, <2>3, <2>4, <2>5 DEF CopyInv
  <2> QED BY <2>3, <2>6
          DEF RingInv, IdleInv, StartInv, HeadInv, TailInv, DoneInv
<1> QED BY <1>2, <1>3

LEMMA CopyHeadStep ==
  ASSUME RingInv, Copy("copyhead", "wrap")
  PROVE  RingInv'
<1>1. /\ pc = "copyhead"
      /\ Holds(dst, full, accepted + copied)
      /\ dst = buf_ptr + copied /\ dst + left = Size
      /\ temp_len = Size - buf_ptr /\ temp_len < data_len
      /\ data_len \in DataLens
  BY DEF RingInv, HeadInv, Copy
<1>2. CASE left = 0
  <2>1. /\ TypeOK' /\ pc' = "wrap"
        /\ UNCHANGED <<buffer, buf_ptr, send_ptr, full, data_len, temp_len,
                       dst, left, copied, accepted, taken>>
    BY <1>2, CopyEnd
  <2>2. UNCHANGED <<accepted + copied>>
    BY <2>1
  <2>3. HeadInv'
    BY <1>1, <1>2, <2>1, <2>2 DEF HeadInv, Holds
  <2> QED BY <2>1, <2>3
          DEF RingInv, IdleInv, StartInv, CopyInv, TailInv, DoneInv
<1>3. CASE left # 0
  <2>1. dst + left <= Size /\ copied < data_len
    BY <1>1, <1>3, Numbers
  <2>2. PICK wrapped \in BOOLEAN : wrapped = full
    BY Numbers
  <2>3. /\ TypeOK' /\ pc' = "copyhead"
        /\ dst' = dst + 1 /\ left' = left - 1 /\ copied' = copied + 1
        /\ UNCHANGED <<buf_ptr, send_ptr, full, data_len, temp_len, accepted,
                       taken>>
        /\ Holds(dst, wrapped, accepted + copied)'
    BY <1>1, <1>3, <2>1, <2>2, CopyByte
  <2>4. dst' = buf_ptr' + copied' /\ dst' + left' = Size
    BY <1>1, <2>3, Numbers
  <2>5. Holds(dst, full, accepted + copied)'
    BY <2>2, <2>3 DEF Holds
  <2>6. HeadInv'
    BY <1>1, <2>3, <2>4, <2>5 DEF HeadInv
  <2> QED BY <2>3, <2>6
          DEF RingInv, IdleInv, StartInv, CopyInv, TailInv, DoneInv
<1> QED BY <1>2, <1>3

LEMMA CopyTailStep ==
  ASSUME RingInv, Copy("copytail", "advancetail")
  PROVE  RingInv'
<1>1. /\ pc = "copytail"
      /\ full /\ buf_ptr = 0
      /\ temp_len < data_len /\ data_len \in DataLens
      /\ copied = temp_len + dst
      /\ dst + left = data_len - temp_len
      /\ Holds(dst, TRUE, accepted + copied)
  BY DEF RingInv, TailInv, Copy
<1>2. CASE left = 0
  <2>1. /\ TypeOK' /\ pc' = "advancetail"
        /\ UNCHANGED <<buffer, buf_ptr, send_ptr, full, data_len, temp_len,
                       dst, left, copied, accepted, taken>>
    BY <1>2, CopyEnd
  <2>2. UNCHANGED <<accepted + copied>>
    BY <2>1
  <2>3. TailInv'
    BY <1>1, <1>2, <2>1, <2>2 DEF TailInv, Holds
  <2> QED BY <2>1, <2>3
          DEF RingInv, IdleInv, StartInv, CopyInv, HeadInv, DoneInv
<1>3. CASE left # 0
  <2>1. dst + left <= Size /\ copied < data_len
    <3>1. data_len <= Size
      BY <1>1, RingSizes
    <3> QED BY <1>1, <1>3, <3>1, Numbers
  <2>3. /\ TypeOK' /\ pc' = "copytail"
        /\ dst' = dst + 1 /\ left' = left - 1 /\ copied' = copied + 1
        /\ UNCHANGED <<buf_ptr, send_ptr, full, data_len, temp_len, accepted,
                       taken>>
        /\ Holds(dst, TRUE, accepted + copied)'
    BY <1>1, <1>3, <2>1, CopyByte
  <2>4. copied' = temp_len' + dst' /\ dst' + left' = data_len' - temp_len'
    BY <1>1, <2>3, Numbers
  <2>6. TailInv'
    BY <1>1, <2>3, <2>4 DEF TailInv
  <2> QED BY <2>3, <2>6
          DEF RingInv, IdleInv, StartInv, CopyInv, HeadInv, DoneInv
<1> QED BY <1>2, <1>3

LEMMA AdvanceWholeStep ==
  ASSUME RingInv, Advance("advance", data_len)
  PROVE  RingInv'
<1>1. /\ pc = "advance"
      /\ Holds(dst, full, accepted + copied)
      /\ dst = buf_ptr + copied /\ dst + left = buf_ptr + data_len
      /\ buf_ptr + data_len <= Size /\ left = 0
      /\ ~full => send_ptr = 0
      /\ data_len \in DataLens
  BY DEF RingInv, CopyInv, Advance
<1>2. copied = data_len /\ buf_ptr + data_len = dst /\ dst \in 0 .. 255
  BY <1>1, Numbers
<1>3. buf_ptr' = dst
  BY <1>2, Narrow DEF Advance
<1>4. /\ pc' = "mark"
      /\ UNCHANGED <<buffer, send_ptr, full, in_using, data_len, temp_len, dst,
                     left, copied, net, accepted, taken>>
  BY DEF Advance
<1>5. TypeOK'
  BY <1>2, <1>3, <1>4 DEF RingInv, TypeOK, net
<1>6. DoneInv'
  BY <1>1, <1>2, <1>3, <1>4 DEF DoneInv, Holds
<1> QED BY <1>4, <1>5, <1>6
        DEF RingInv, IdleInv, StartInv, CopyInv, HeadInv, TailInv

LEMMA AdvanceTailStep ==
  ASSUME RingInv, Advance("advancetail", TailLen)
  PROVE  RingInv'
<1>1. /\ pc = "advancetail"
      /\ full /\ buf_ptr = 0
      /\ data_len \in DataLens
      /\ copied = temp_len + dst
      /\ dst + left = data_len - temp_len /\ left = 0
      /\ Holds(dst, TRUE, accepted + copied)
  BY DEF RingInv, TailInv, Advance
<1>2. TailLen = data_len - temp_len
  BY <1>1, TailLength
<1>3. copied = data_len /\ buf_ptr + TailLen = dst /\ dst \in 0 .. 255
  <2>1. data_len <= Size
    BY <1>1, RingSizes
  <2>2. dst = data_len - temp_len
    BY <1>1, Numbers
  <2>3. dst \in 0 .. 255 /\ copied = data_len
    BY <1>1, <2>1, <2>2, Numbers
  <2>4. buf_ptr + TailLen = dst
    BY <1>1, <1>2, <2>2, Numbers
  <2> QED BY <2>3, <2>4
<1>4. buf_ptr' = dst
  BY <1>3, Narrow DEF Advance
<1>5. /\ pc' = "mark"
      /\ UNCHANGED <<buffer, send_ptr, full, in_using, data_len, temp_len, dst,
                     left, copied, net, accepted, taken>>
  BY DEF Advance
<1>6. TypeOK'
  BY <1>3, <1>4, <1>5 DEF RingInv, TypeOK, net
<1>7. DoneInv'
  BY <1>1, <1>3, <1>4, <1>5 DEF DoneInv, Holds
<1> QED BY <1>5, <1>6, <1>7
        DEF RingInv, IdleInv, StartInv, CopyInv, HeadInv, TailInv

LEMMA MarkStep ==
  ASSUME RingInv, Mark
  PROVE  RingInv'
<1>1. TypeOK'
  BY DEF RingInv, TypeOK, Mark, Oldest, net
<1>2. DoneInv'
  BY DEF RingInv, DoneInv, Holds, Mark, Oldest
<1> QED BY <1>1, <1>2
        DEF RingInv, IdleInv, StartInv, CopyInv, HeadInv, TailInv, Mark

LEMMA UnlockStep ==
  ASSUME RingInv, Unlock
  PROVE  RingInv'
<1>1. data_len \in 1 .. Size
  BY RingSizes DEF RingInv, DoneInv, Unlock
<1>2. TypeOK'
  <2>1. accepted + data_len \in Nat /\ 0 \in 0 .. Size
    BY <1>1, Numbers
  <2>2. /\ in_using' = FALSE /\ accepted' = accepted + data_len
        /\ pc' = "idle" /\ data_len' = 0 /\ temp_len' = 0
        /\ dst' = 0 /\ copied' = 0
        /\ UNCHANGED <<buffer, buf_ptr, send_ptr, full, left, pb, booked,
                       taken>>
    BY DEF Unlock, net
  <2>3. 0 \in 0 .. 255 /\ 0 \in Nat
    OBVIOUS
  <2> QED BY <2>1, <2>2, <2>3 DEF RingInv, TypeOK
<1>3. IdleInv'
  BY DEF RingInv, DoneInv, IdleInv, Holds, Unlock
<1> QED BY <1>2, <1>3
        DEF RingInv, StartInv, CopyInv, HeadInv, TailInv, DoneInv, Unlock

LEMMA ReceiveStep ==
  ASSUME RingInv, NEW len \in FrameLens, NEW books \in BOOLEAN,
         Receive(len, books)
  PROVE  RingInv'
<1>1. pb' \in PacketBufType
  BY RingSizes, ReceivedType DEF RingInv, TypeOK, Receive
<1>2. TypeOK'
  BY <1>1 DEF RingInv, TypeOK, Receive, ring, local
<1>3. IdleInv' /\ pc' = "idle"
  BY DEF RingInv, IdleInv, Holds, Receive, ring, local
<1> QED BY <1>2, <1>3
        DEF RingInv, StartInv, CopyInv, HeadInv, TailInv, DoneInv

(* What the slot leaves in the packet buffer. *)
LEMMA SlotBuffer ==
  ASSUME TypeOK, Holds(buf_ptr, full, accepted), full => send_ptr = buf_ptr
  PROVE  /\ tdma_rdc_buf_copyto_packetbuf(pb) \in PacketBufType
         /\ tdma_rdc_buf_copyto_packetbuf(pb).buflen <= Size
         /\ full => tdma_rdc_buf_copyto_packetbuf(pb).hdrptr = pb.hdrptr
         /\ ~full => tdma_rdc_buf_copyto_packetbuf(pb).hdrptr
                       = PACKETBUF_HDR_SIZE
<1>1. /\ pb \in PacketBufType /\ Size \in 0 .. PACKETBUF_SIZE
      /\ buf_ptr \in 0 .. Size
  <2>1. Size <= PACKETBUF_SIZE
    BY RingSizes, Sizes
  <2> QED BY <2>1, RingSizes, Sizes DEF TypeOK, Holds
<1>2. /\ Contents \in Seq(Nat)
      /\ Len(Contents) = IF full THEN Size ELSE buf_ptr
  BY ContentsType
<1>3. CASE full
  <2>1. packetbuf_dataptr(pb) \in Int
    BY <1>1, Sizes DEF packetbuf_dataptr, PacketBufType
  <2>2. /\ Written(pb, packetbuf_dataptr(pb), Contents) \in PacketBufType
        /\ Written(pb, packetbuf_dataptr(pb), Contents).hdrptr = pb.hdrptr
    BY <1>1, <1>2, <2>1, WrittenType
  <2> QED BY <1>1, <1>3, <2>2, DatalenType DEF tdma_rdc_buf_copyto_packetbuf
<1>4. CASE ~full
  <2>1. Len(Contents) = buf_ptr /\ buf_ptr <= PACKETBUF_SIZE /\ buf_ptr <= Size
    BY <1>1, <1>2, <1>4, Sizes
  <2> QED BY <1>1, <1>2, <1>4, <2>1, CopyFrom DEF tdma_rdc_buf_copyto_packetbuf
<1> QED BY <1>3, <1>4

LEMMA SlotStep ==
  ASSUME RingInv, ~Preempt, Slot
  PROVE  RingInv'
<1>1. /\ pc = "idle" /\ TypeOK /\ Holds(buf_ptr, full, accepted)
      /\ full => send_ptr = buf_ptr
  BY DEF RingInv, IdleInv, Slot
<1>2. pb' \in PacketBufType
  BY <1>1, SlotBuffer, CreateType DEF Slot
<1>3. TypeOK'
  <2>1. /\ buf_ptr' = 0 /\ send_ptr' = 0 /\ full' = FALSE /\ in_using' = FALSE
        /\ booked' = FALSE /\ taken' = accepted
        /\ UNCHANGED <<buffer, pc, data_len, temp_len, dst, left, copied,
                       accepted>>
    BY DEF Slot, tdma_rdc_buf_clear, local
  <2>2. 0 \in 0 .. 255
    OBVIOUS
  <2> QED BY <1>1, <1>2, <2>1, <2>2 DEF TypeOK
<1>4. IdleInv'
  <2>1. /\ buf_ptr' = 0 /\ send_ptr' = 0 /\ full' = FALSE /\ in_using' = FALSE
        /\ taken' = accepted /\ accepted' = accepted /\ pc' = "idle"
    BY <1>1 DEF Slot, tdma_rdc_buf_clear, local
  <2>2. accepted - accepted = 0 /\ 0 \in 0 .. Size
    BY Numbers
  <2>3. \A i \in 0 .. Size - 1 : ~(i < 0)
    OBVIOUS
  <2> QED BY <2>1, <2>2, <2>3 DEF IdleInv, Holds
<1>5. pc' = "idle"
  BY <1>1 DEF Slot, local
<1> QED BY <1>3, <1>4, <1>5
        DEF RingInv, StartInv, CopyInv, HeadInv, TailInv, DoneInv

LEMMA StutterStep ==
  ASSUME RingInv, UNCHANGED vars
  PROVE  RingInv'
<1>1. UNCHANGED <<buffer, buf_ptr, send_ptr, full, in_using, pc, data_len,
                  temp_len, dst, left, copied, pb, booked, accepted, taken>>
  BY DEF vars, ring, local, net
<1>2. TypeOK'
  BY <1>1 DEF RingInv, TypeOK
<1>3. IdleInv' /\ StartInv'
  BY <1>1 DEF RingInv, IdleInv, StartInv, Holds
<1>4. CopyInv' /\ HeadInv'
  BY <1>1 DEF RingInv, CopyInv, HeadInv, Holds
<1>5. TailInv' /\ DoneInv'
  BY <1>1 DEF RingInv, TailInv, DoneInv, Holds
<1> QED BY <1>1, <1>2, <1>3, <1>4, <1>5 DEF RingInv

LEMMA RingNext ==
  ASSUME RingInv, ~Preempt, [Next]_vars
  PROVE  RingInv'
<1>1. CASE app_conn_send
  BY <1>1, LockStep, TestStep, StartWholeStep, CopyWholeStep, AdvanceWholeStep,
     MeasureStep, StartHeadStep, CopyHeadStep, WrapStep, RewindStep,
     StartTailStep, CopyTailStep, AdvanceTailStep, MarkStep, UnlockStep
     DEF app_conn_send
<1>2. CASE \E len \in FrameLens, books \in BOOLEAN : Receive(len, books)
  BY <1>2, ReceiveStep
<1>3. CASE Slot
  BY <1>3, SlotStep
<1>4. CASE UNCHANGED vars
  BY <1>4, StutterStep
<1> QED BY <1>1, <1>2, <1>3, <1>4 DEF Next

-----------------------------------------------------------------------------
(* As long as no slot falls into a call of app_conn_send, the ring holds   *)
(* the latest bytes in order, split where buf_ptr says, after every step:  *)
(* the two halves of a wrapping copy (app_conn.c:87-92) and the marks of a *)
(* full ring (app_conn.c:98-99) fit together for every size and length.    *)
THEOREM RingCorrect == ASSUME ~Preempt PROVE Spec => []RingInv
<1>1. Init => RingInv
  BY RingInit
<1>2. RingInv /\ [Next]_vars => RingInv'
  BY RingNext
<1> QED BY <1>1, <1>2, PTL DEF Spec

(* The ring's positions and counts keep their widths, whatever is handed    *)
(* over and wherever it wraps, as long as no slot falls into a call        *)
(* (app_conn.c:44-57).                                                     *)
THEOREM RingTypeCorrect == ASSUME ~Preempt PROVE Spec => []TypeOK
<1>1. RingInv => TypeOK
  BY DEF RingInv
<1> QED BY <1>1, RingCorrect, PTL

-----------------------------------------------------------------------------
(* The connector implements LatestBytes.                                   *)

LEMMA UnlockAccepts ==
  ASSUME RingInv, Unlock
  PROVE  Abstract!Accept
<1>1. data_len \in 1 .. Size
  BY RingSizes DEF RingInv, DoneInv, Unlock
<1>2. /\ accepted' = accepted + data_len
      /\ UNCHANGED <<taken, payload>>
  BY DEF Unlock, net
<1>3. accepted' \in Nat /\ accepted' > accepted
  BY <1>1, <1>2, Numbers
<1> QED BY <1>2, <1>3 DEF Abstract!Accept

LEMMA SlotTransmits ==
  ASSUME RingInv, ~Preempt, Slot
  PROVE  Abstract!Transmit
<1>1. /\ TypeOK /\ Holds(buf_ptr, full, accepted)
      /\ full => send_ptr = buf_ptr
  BY DEF RingInv, IdleInv, Slot
<1>2. Contents = Abstract!Latest(taken, accepted)
  BY <1>1, ContentsLatest
<1>3. payload' = Contents /\ taken' = accepted /\ UNCHANGED accepted
  BY DEF Slot
<1> QED BY <1>2, <1>3 DEF Abstract!Transmit

(* As long as no slot falls into a call of app_conn_send, every step of    *)
(* the connector is one of LatestBytes or changes nothing of it: a slot    *)
(* takes the bytes handed over since the last one, or the latest that fit, *)
(* in the order they were handed over.                                     *)
THEOREM Latest == ASSUME ~Preempt PROVE Spec => TakesLatest
<1>1. Init => Abstract!Init
  BY DEF Init, Abstract!Init
<1>2. RingInv /\ [Next]_vars => [Abstract!Next]_(Abstract!vars)
  <2> SUFFICES ASSUME RingInv, [Next]_vars
               PROVE  Abstract!Next \/ UNCHANGED <<accepted, taken, payload>>
    BY DEF Abstract!vars
  <2>1. CASE app_conn_send
    <3>1. CASE Unlock
      BY <3>1, UnlockAccepts DEF Abstract!Next
    <3>2. CASE ~Unlock
      BY <2>1, <3>2 DEF app_conn_send, Lock, Test, StartCopy, Copy, Measure,
         Wrap, Rewind, Advance, Mark, net
    <3> QED BY <3>1, <3>2
  <2>2. CASE \E len \in FrameLens, books \in BOOLEAN : Receive(len, books)
    BY <2>2 DEF Receive
  <2>3. CASE Slot
    BY <2>3, SlotTransmits DEF Abstract!Next
  <2>4. CASE UNCHANGED vars
    BY <2>4 DEF vars, net
  <2> QED BY <2>1, <2>2, <2>3, <2>4 DEF Next
<1> QED BY <1>1, <1>2, RingCorrect, PTL DEF Spec, TakesLatest, Abstract!Spec

-----------------------------------------------------------------------------
(* The frame around the data.                                              *)

(* The frame that books a slot also frees the header: the last frame sent  *)
(* leaves its own allocated, and a full ring does not clear the buffer.    *)
HeaderFree == booked => pb.hdrptr = PACKETBUF_HDR_SIZE

LEMMA HeaderFreeNext ==
  ASSUME RingInv, HeaderFree, [Next]_vars
  PROVE  HeaderFree'
<1>1. CASE app_conn_send
  <2>1. UNCHANGED <<pb, booked>>
    BY <1>1 DEF app_conn_send, Lock, Test, StartCopy, Copy, Measure,
       Wrap, Rewind, Advance, Mark, Unlock, net
  <2> QED BY <2>1 DEF HeaderFree
<1>2. ASSUME NEW len \in FrameLens, NEW books \in BOOLEAN, Receive(len, books)
      PROVE  HeaderFree'
  <2>1. pb' = parse(Received(pb, len))
    BY <1>2 DEF Receive
  <2> QED BY <2>1, RingSizes, ReceivedType DEF RingInv, TypeOK, HeaderFree
<1>3. CASE Slot
  BY <1>3 DEF Slot, HeaderFree
<1>4. CASE UNCHANGED vars
  BY <1>4 DEF vars, net, HeaderFree
<1> QED BY <1>1, <1>2, <1>3, <1>4 DEF Next

LEMMA SlotFits ==
  ASSUME RingInv, HeaderFree, ~Preempt, Slot
  PROVE  HeaderFits(tdma_rdc_buf_copyto_packetbuf(pb))
<1> DEFINE q == tdma_rdc_buf_copyto_packetbuf(pb)
<1>1. /\ TypeOK /\ Holds(buf_ptr, full, accepted)
      /\ full => send_ptr = buf_ptr
      /\ pb.hdrptr = PACKETBUF_HDR_SIZE
  BY DEF RingInv, IdleInv, Slot, HeaderFree
<1>2. q.hdrptr = PACKETBUF_HDR_SIZE /\ q.buflen <= Size /\ q \in PacketBufType
  BY <1>1, SlotBuffer
<1>3. q.buflen \in Int
  BY <1>2, Sizes DEF PacketBufType
<1> HIDE DEF q
<1>4. packetbuf_totlen(q) = q.buflen
  BY <1>2, <1>3, Sizes DEF packetbuf_totlen
<1>5. HeaderFits(q)
  BY <1>2, <1>3, <1>4, Sizes, RingSizes DEF HeaderFits
<1> QED BY <1>5 DEF q

LEMMA OnlySlotTakes ==
  ASSUME [Next]_vars, SlotTaken
  PROVE  Slot
<1>1. ~app_conn_send /\ ~UNCHANGED vars
  BY DEF SlotTaken, app_conn_send, Lock, Test, StartCopy, Copy, Measure,
     Wrap, Rewind, Advance, Mark, Unlock, vars, net
<1>2. ~\E len \in FrameLens, books \in BOOLEAN : Receive(len, books)
  BY DEF SlotTaken, Receive
<1> QED BY <1>1, <1>2 DEF Next

(* As long as no slot falls into a call of app_conn_send, create() never   *)
(* fails for the frame of a slot, although a full ring is copied into a    *)
(* buffer that was not cleared (app_conn.c:166-169).                       *)
THEOREM FramesFit == ASSUME ~Preempt PROVE Spec => FramingSucceeds
<1>1. Init => HeaderFree
  BY DEF Init, HeaderFree
<1>2. RingInv /\ HeaderFree /\ [Next]_vars => HeaderFree'
  BY HeaderFreeNext
<1>3. RingInv /\ HeaderFree /\ [Next]_vars
        => [SlotTaken => HeaderFits(tdma_rdc_buf_copyto_packetbuf(pb))]_vars
  BY SlotFits, OnlySlotTakes
<1> QED BY <1>1, <1>2, <1>3, RingCorrect, PTL DEF Spec, FramingSucceeds

LEMMA SlotIntact ==
  ASSUME RingInv, ~Preempt, Slot, ~full
  PROVE  air' = payload'
<1>1. /\ TypeOK /\ Holds(buf_ptr, full, accepted)
      /\ full => send_ptr = buf_ptr
  BY DEF RingInv, IdleInv, Slot
<1>2. Contents \in Seq(Nat) /\ Len(Contents) <= Size
  <2>1. buf_ptr <= Size
    BY <1>1, RingSizes DEF Holds
  <2> QED BY <1>1, <2>1, ContentsType
<1>3. Len(Contents) + HeaderLen <= PACKETBUF_SIZE
  BY <1>2, RingSizes, Sizes
<1>4. PayloadOnAir(create(packetbuf_copyfrom(pb, Contents))) = Contents
  BY <1>1, <1>2, <1>3, OnAir DEF TypeOK
<1>5. pb' = create(packetbuf_copyfrom(pb, Contents)) /\ payload' = Contents
  BY DEF Slot, tdma_rdc_buf_copyto_packetbuf
<1>6. air' = PayloadOnAir(pb')
  BY DEF Slot
<1> QED BY <1>4, <1>5, <1>6

(* As long as no slot falls into a call of app_conn_send, what is sent     *)
(* from a ring that has not wrapped is what was in it, whatever frames     *)
(* were received before and whatever they left in the packet buffer.       *)
THEOREM ShortFramesSent == ASSUME ~Preempt PROVE Spec => ShortFramesIntact
<1>1. RingInv /\ [Next]_vars => [SlotTaken /\ ~full => air' = payload']_vars
  BY SlotIntact, OnlySlotTakes
<1> QED BY <1>1, RingCorrect, PTL DEF Spec, ShortFramesIntact

-----------------------------------------------------------------------------
(***************************************************************************)
(* The motion sensor: what it, the bus and the call have.                  *)
(***************************************************************************)
Routines == {"start", "stop", "write", "read"}
Kinds == {"none", "write", "read"}
Modes == {"idle", "receive", "acknowledge", "send", "acked", "more"}
Stages == {"address", "register", "data", "read"}
StepSet == [routine : Routines, c : Nat, send_ack : BOOLEAN]
RegNos == 0 .. Registers - 1

ChipSet == [mode : Modes, stage : Stages, ptr : RegNos, n : 0 .. Bits,
            data : Nat, sda : {0, 1}, hold : BOOLEAN, here : BOOLEAN]

CallSet == [kind : Kinds, reg : RegNos, arg : Nat, steps : Seq(StepSet),
            at : Nat, ret : {0, 1}, buffer : Seq(Nat)]

FrameSet == [line : Nat, i : 0 .. Bits, c : Nat, ack : {0, 1}]

ChipOK ==
  /\ chip.mode = "receive" =>
       /\ chip.data < Pow[chip.n]
       /\ SCL = 0 => chip.n < Bits
  /\ chip.mode = "send" => chip.data \in Byte

CallOK ==
  /\ call.kind = "none" => call.steps = << >>
  /\ call.kind = "write" =>
       /\ call.steps = write_mpu_reg(call.reg, call.arg)
       /\ call.arg \in Byte
  /\ call.kind = "read" =>
       /\ call.steps = read_mpu_reg_burst(call.reg, call.arg)
       /\ call.arg \in 1 .. Registers
  /\ call.at \in 1 .. Len(call.steps) + 1

BufferOK ==
  /\ call.kind # "read" => Len(call.buffer) = 0
  /\ call.kind = "read" =>
       /\ call.at <= 5 => Len(call.buffer) = 0
       /\ call.at \in 6 .. call.arg + 5 => Len(call.buffer) = call.at - 6
       /\ Len(call.buffer) <= call.arg

FrameOK ==
  Busy =>
    /\ frame.line \in 1 .. Len(Lines[Step.routine])
    /\ Step.routine = "write" /\ frame.line <= 4 => frame.i < Bits
    /\ Step.routine = "read" /\ frame.line <= 5 => frame.i < Bits

(* These hold in every behaviour, the rest of the invariant as long as no  *)
(* wait for the clock has been given up.                                   *)
MpuTypes ==
  /\ calls \in 0 .. MaxCalls /\ gave \in BOOLEAN /\ acks \in Int
  /\ out \in [sda : {0, 1}, scl : {0, 1}]
  /\ regs \in [RegNos -> Byte]
  /\ chip \in ChipSet /\ call \in CallSet /\ frame \in FrameSet
  /\ ChipOK /\ CallOK /\ BufferOK /\ FrameOK

-----------------------------------------------------------------------------
(***************************************************************************)
(* Where the lines, the sensor and its registers are at each line of i2c.c *)
(* and each call of it that mpu-6050.c makes.                              *)
(***************************************************************************)
(* The sensor has left the bus.                                            *)
Quiet == chip.mode = "idle" /\ chip.sda = 1 /\ ~chip.hold

(* n bits of a byte have come.                                             *)
Listens(stage, n) ==
  /\ chip.mode = "receive" /\ chip.stage = stage /\ chip.n = n /\ chip.sda = 1

OutIs(sda, scl) == out.sda = sda /\ out.scl = scl

First == call.at = 1

(* The first start finds the bus free; the second, of a burst, a sensor    *)
(* that waits for the first bit of a byte, and has it too early if the     *)
(* clock rises before SDA falls.                                           *)
AtStart ==
  /\ acks = 0
  /\ frame.line \in 1 .. 4 =>
       IF First THEN Quiet
       ELSE /\ chip.mode = "receive" /\ chip.sda = 1
            /\ (frame.line = 3 /\ chip.hold) \/ frame.line <= 2 =>
                 chip.n = 0 /\ chip.data = 0
  /\ frame.line = 1 => IF First THEN out.sda = 1 ELSE out.scl = 0
  /\ frame.line = 2 => out.sda = 1 /\ (~First => out.scl = 0)
  /\ frame.line = 3 => OutIs(1, 1)
  /\ frame.line = 4 => OutIs(1, 1) /\ ~chip.hold
  /\ frame.line \in {5, 6} => Listens("address", 0) /\ chip.data = 0
  /\ frame.line = 5 => OutIs(0, 1) /\ ~chip.hold
  /\ frame.line = 6 => OutIs(0, 0)

(* What the sensor takes the byte of the call's place for, and what it     *)
(* waits for after it.                                                     *)
StageOf(at) == CASE at = 2 -> "address" [] at = 3 -> "register"
                 [] at = 4 -> "data" [] OTHER -> "address"
StageAfter(at) == CASE at = 2 -> "register" [] at = 3 -> "data"
                    [] at = 4 -> "data" [] OTHER -> "read"

(* The first k bits of b are data; those to come stand in c.               *)
Come(k, data, c, b) == data * Pow[Bits] + c = b * Pow[k]

Acked ==
  IF chip.here
  THEN /\ chip.mode = "acknowledge" /\ chip.sda = 0
       /\ chip.stage = StageAfter(call.at)
  ELSE Quiet

(* Bit k of the register is on the line, c are the bits before it.         *)
Sends(k, c) ==
  /\ chip.mode = "send" /\ chip.n = k
  /\ (2 * c + chip.sda) * Pow[Bits] + chip.data = regs[chip.ptr] * Pow[k]

AtWrite ==
  LET k == frame.i  c == frame.c  b == Step.c IN
  /\ acks = IF frame.line >= 5 /\ chip.here THEN 1 ELSE 0
  /\ c \in Byte
  /\ frame.line <= 4 =>
       chip.mode = "receive" /\ chip.stage = StageOf(call.at) /\ chip.sda = 1
  /\ frame.line = 1 => out.scl = 0 /\ chip.n = k /\ Come(k, chip.data, c, b)
  /\ frame.line = 2 => out.scl = 0
  /\ frame.line = 2 \/ (frame.line = 3 /\ chip.hold) =>
        chip.n = k /\ Come(k + 1, 2 * chip.data + out.sda, c, b)
  /\ frame.line \in {3, 4} => out.scl = 1
  /\ frame.line = 4 => ~chip.hold
  /\ frame.line \in {3, 4} /\ ~chip.hold =>
        chip.n = k + 1 /\ Come(k + 1, chip.data, c, b)
  /\ frame.line \in 5 .. 9 => Acked
  /\ frame.line \in {5, 6} => out.scl = 0
  /\ frame.line = 6 => out.sda = 1
  /\ frame.line \in 7 .. 9 => OutIs(1, 1)
  /\ frame.line >= 8 => frame.ack = IF chip.here THEN 1 ELSE 0
  /\ frame.line = 9 => ~chip.hold
  /\ frame.line = 10 =>
       /\ OutIs(1, 0)
       /\ ~chip.here => Quiet
       /\ chip.here /\ call.at # 5 =>
            Listens(StageAfter(call.at), 0) /\ chip.data = 0
       /\ chip.here /\ call.at = 5 => Sends(1, 0)
  /\ call.at >= 3 => chip.here
  /\ call.at = 3 /\ frame.line >= 5 => chip.ptr = call.reg
  /\ call.at >= 4 => chip.ptr = call.reg
  /\ call.at = 4 /\ frame.line >= 5 => regs[call.reg] = call.arg

(* k bits are read, and are c; c and what the sensor has left to send are  *)
(* the register.                                                           *)
Midway(k, c) ==
  /\ chip.mode = "send" /\ chip.n = k
  /\ c * Pow[Bits] + chip.data = regs[chip.ptr] * Pow[k]

(* The register to be read next, and the one after it.                     *)
Due == (call.reg + Len(call.buffer)) % Registers
After(r) == (r + 1) % Registers

AtRead ==
  LET k == frame.i  c == frame.c IN
  /\ acks = 0 /\ chip.here
  /\ frame.line = 1 => k = 0 /\ c = 0
  /\ frame.line <= 9 => chip.ptr = Due
  /\ frame.line \in 1 .. 4 => Sends(k + 1, c)
  /\ frame.line \in {1, 2} => out.scl = 0
  /\ frame.line = 2 => out.sda = 1
  /\ frame.line \in 3 .. 5 => OutIs(1, 1)
  /\ frame.line \in 4 .. 5 => ~chip.hold
  /\ frame.line = 5 => Midway(k + 1, c)
  /\ frame.line >= 6 => c = regs[Due]
  /\ frame.line \in {6, 7} =>
       out.scl = 0 /\ chip.mode = "acked" /\ chip.sda = 1
  /\ frame.line = 6 => out.sda = 1
  /\ frame.line \in 7 .. 10 => out.sda = IF Step.send_ack THEN 0 ELSE 1
  /\ frame.line \in 8 .. 9 => out.scl = 1 /\ chip.sda = 1
  /\ frame.line = 8 /\ chip.hold => chip.mode = "acked"
  /\ frame.line = 9 => ~chip.hold
  /\ frame.line \in 8 .. 9 /\ ~chip.hold =>
       chip.mode = IF Step.send_ack THEN "more" ELSE "idle"
  /\ frame.line = 10 =>
       /\ out.scl = 0
       /\ ~Step.send_ack => Quiet
       /\ Step.send_ack => Sends(1, 0) /\ chip.ptr = After(Due)

(* What a call that is going to return 1 has done.                         *)
Succeeded ==
  /\ chip.here
  /\ call.kind = "write" => regs[call.reg] = call.arg
  /\ call.kind = "read" => Len(call.buffer) = call.arg

AtStop ==
  /\ acks = 0
  /\ call.ret = 1 => Succeeded
  /\ frame.line = 1 => out.scl = 0
  /\ frame.line = 2 => OutIs(0, 0)
  /\ frame.line \in {3, 4} => OutIs(0, 1)
  /\ frame.line = 4 => ~chip.hold
  /\ frame.line <= 4 =>
       \/ Quiet
       \/ /\ chip.mode = "receive" /\ chip.sda = 1
          /\ chip.n = 0 \/ (frame.line >= 3 /\ ~chip.hold)
  /\ frame.line = 5 => OutIs(1, 1) /\ Quiet

AtRest ==
  /\ acks = 0
  /\ Quiet /\ out.sda = 1 /\ (calls > 0 => out.scl = 1)
  /\ call.ret = 1 => Succeeded

(* What has been read is what the registers have.                          *)
Got == call.kind = "read" =>
  \A k \in 1 .. Len(call.buffer) :
     call.buffer[k] = regs[(call.reg + k - 1) % Registers]

Placed ==
  /\ Got
  /\ Busy =>
       /\ call.at < Len(call.steps) => call.ret = 0
       /\ call.at \in 3 .. Len(call.steps) - 1 => chip.here
       /\ call.kind = "read" /\ call.at \in {4, 5} => chip.ptr = call.reg
       /\ Step.routine = "start" => AtStart
       /\ Step.routine = "write" => AtWrite
       /\ Step.routine = "read" => AtRead
       /\ Step.routine = "stop" => AtStop
  /\ ~Busy => AtRest

MpuInv == MpuTypes /\ (~gave => Placed)

-----------------------------------------------------------------------------
(* Powers of 2, which Pow has by its recursion.  A function is not known   *)
(* to be what its recursive definition says before one is known to exist.  *)
USE MpuAssumption

LEMMA Least ==
  ASSUME NEW L \in SUBSET Nat, L # {}
  PROVE  \E m \in L : \A k \in L : m <= k
<1>1. \E m \in L : \A k \in L : <<k, m>> \notin OpToRel(<, Nat)
  BY WFMin, NatLessThanWellFounded
<1>2. \A j, k \in Nat : <<j, k>> \in OpToRel(<, Nat) <=> j < k
  BY DEF OpToRel
<1>3. \A j, k \in Nat : ~ j < k => k <= j
  OBVIOUS
<1> QED BY <1>1, <1>2, <1>3

PowTo(f, n) == f = [k \in 0 .. n |-> IF k = 0 THEN 1 ELSE 2 * f[k - 1]]

LEMMA PowExists == \A n \in Nat : \E f : PowTo(f, n)
<1> DEFINE L == {n \in Nat : ~ \E f : PowTo(f, n)}
<1> SUFFICES ASSUME L # {} PROVE FALSE
  OBVIOUS
<1>1. PICK m \in L : \A k \in L : m <= k
  <2> HIDE DEF L
  <2>1. L \in SUBSET Nat
    BY DEF L
  <2> QED BY <2>1, Least
<1>2. CASE m = 0
  <2>1. PowTo([k \in 0 .. 0 |-> 1], 0)
    BY DEF PowTo
  <2> QED BY <1>1, <1>2, <2>1
<1>3. CASE m # 0
  <2>1. m - 1 \in Nat /\ m - 1 \notin L
    BY <1>1, <1>3
  <2>2. PICK f : PowTo(f, m - 1)
    BY <2>1
  <2> DEFINE g == [k \in 0 .. m |-> IF k = m THEN 2 * f[m - 1] ELSE f[k]]
  <2>3. \A k \in 0 .. m : g[k] = IF k = 0 THEN 1 ELSE 2 * g[k - 1]
    <3>1. \A k \in 0 .. m - 1 : f[k] = IF k = 0 THEN 1 ELSE 2 * f[k - 1]
      BY <2>2 DEF PowTo
    <3>2. m \in Nat /\ m # 0
      BY <1>1, <1>3
    <3> TAKE k \in 0 .. m
    <3>3. CASE k = m
      <4>1. g[k] = 2 * f[m - 1] /\ g[m - 1] = f[m - 1]
        BY <3>2, <3>3
      <4> QED BY <3>2, <3>3, <4>1
    <3>4. CASE k # m /\ k # 0
      <4>1. k \in 0 .. m - 1 /\ k - 1 \in 0 .. m /\ k - 1 # m
        BY <3>2, <3>4
      <4> QED BY <3>1, <3>4, <4>1
    <3>5. CASE k # m /\ k = 0
      <4>1. 0 \in 0 .. m - 1
        BY <3>2
      <4> QED BY <3>1, <3>5, <4>1
    <3> QED BY <3>3, <3>4, <3>5
  <2>4. PowTo(g, m)
    <3>1. g = [k \in 0 .. m |-> g[k]]
      OBVIOUS
    <3> HIDE DEF g
    <3>2. [k \in 0 .. m |-> g[k]]
            = [k \in 0 .. m |-> IF k = 0 THEN 1 ELSE 2 * g[k - 1]]
      BY <2>3
    <3> QED BY <3>1, <3>2 DEF PowTo
  <2> HIDE DEF g
  <2> QED BY <1>1, <2>4
<1> QED BY <1>2, <1>3

LEMMA PowIs ==
  /\ Pow[0] = 1
  /\ \A k \in 0 .. Bits - 1 : Pow[k + 1] = 2 * Pow[k]
<1>1. PICK f : PowTo(f, Bits)
  BY PowExists
<1>2. PowTo(Pow, Bits)
  BY <1>1 DEF Pow, PowTo
<1>3. Bits \in Nat /\ Bits # 0
  OBVIOUS
<1>4. \A k \in 0 .. Bits : Pow[k] = IF k = 0 THEN 1 ELSE 2 * Pow[k - 1]
  <2> HIDE DEF Pow
  <2> QED BY <1>2 DEF PowTo
<1>5. Pow[0] = 1
  <2> HIDE DEF Pow
  <2> QED BY <1>3, <1>4
<1>6. ASSUME NEW k \in 0 .. Bits - 1
      PROVE  Pow[k + 1] = 2 * Pow[k]
  <2>1. k + 1 \in 0 .. Bits /\ k + 1 # 0 /\ k + 1 - 1 = k
    BY <1>3
  <2> HIDE DEF Pow
  <2> QED BY <1>4, <2>1
<1> QED BY <1>5, <1>6

LEMMA PowPositive == \A k \in 0 .. Bits : Pow[k] \in Nat \ {0}
<1> DEFINE L == {k \in 0 .. Bits : Pow[k] \notin Nat \ {0}}
<1> SUFFICES ASSUME L # {} PROVE FALSE
  OBVIOUS
<1>1. PICK m \in L : \A k \in L : m <= k
  <2>1. L \in SUBSET Nat
    OBVIOUS
  <2> HIDE DEF L
  <2> QED BY <2>1, Least
<1>2. m # 0
  BY <1>1, PowIs
<1>3. m - 1 \in 0 .. Bits /\ m - 1 \notin L
  BY <1>1, <1>2
<1>4. Pow[m] = 2 * Pow[m - 1]
  <2>1. m - 1 \in 0 .. Bits - 1 /\ (m - 1) + 1 = m
    BY <1>1, <1>2
  <2> QED BY <2>1, PowIs
<1>5. Pow[m - 1] \in Nat \ {0}
  BY <1>3
<1> HIDE DEF L
<1>6. Pow[m] \in Nat \ {0}
  BY <1>4, <1>5
<1> QED BY <1>1, <1>6 DEF L

(* The size of a byte, and half of it. *)
LEMMA ByteSizes ==
  /\ Bits \in Nat \ {0} /\ Registers \in Nat \ {0}
  /\ Pow[Bits] \in Nat \ {0} /\ Pow[Bits - 1] \in Nat \ {0}
  /\ Pow[Bits] = 2 * Pow[Bits - 1]
  /\ Pow[1] = 2 * Pow[0] /\ Pow[0] = 1
  /\ Registers <= Pow[Bits]
  /\ ADDR_W \in Nat /\ ADDR_W < Pow[Bits] /\ ADDR_W + 1 < Pow[Bits]
<1>1. Bits \in Nat \ {0}
  OBVIOUS
<1>2. Bits - 1 \in 0 .. Bits - 1 /\ Bits - 1 + 1 = Bits /\ 0 \in 0 .. Bits - 1
      /\ Bits \in 0 .. Bits /\ Bits - 1 \in 0 .. Bits /\ 0 + 1 = 1
  BY <1>1
<1>3. Pow[Bits] = 2 * Pow[Bits - 1] /\ Pow[1] = 2 * Pow[0] /\ Pow[0] = 1
  BY <1>2, PowIs
<1>4. Pow[Bits] \in Nat \ {0} /\ Pow[Bits - 1] \in Nat \ {0}
  BY <1>2, PowPositive
<1>5. Registers \in Nat \ {0} /\ Registers <= Pow[Bits]
  BY <1>4
<1>6. ADDR_W \in Nat /\ ADDR_W < Pow[Bits] /\ ADDR_W + 1 < Pow[Bits]
  BY <1>4 DEF Byte
<1> QED BY <1>1, <1>3, <1>4, <1>5, <1>6

LEMMA DoubleMod ==
  ASSUME NEW s \in Nat \ {0}, NEW x \in Nat, x < 2 * s
  PROVE  x % s = IF x < s THEN x ELSE x - s
OBVIOUS

LEMMA ByteIs == \A b : b \in Byte <=> b \in Nat /\ b < Pow[Bits]
  BY ByteSizes DEF Byte

LEMMA ShiftIs ==
  ASSUME NEW b \in Byte
  PROVE  /\ FirstBit(b) \in {0, 1} /\ ShiftedOut(b) \in Byte
         /\ 2 * b = FirstBit(b) * Pow[Bits] + ShiftedOut(b)
<1> DEFINE P == Pow[Bits]
           H == Pow[Bits - 1]
<1>1. P \in Nat \ {0} /\ H \in Nat \ {0} /\ P = 2 * H /\ b \in Nat /\ b < P
  BY ByteSizes, ByteIs
<1>2. ShiftedOut(b) = (2 * b) % P /\ FirstBit(b) = IF b < H THEN 0 ELSE 1
  BY DEF ShiftedOut, FirstBit
<1> HIDE DEF P, H
<1>3. (2 * b) % P = IF 2 * b < P THEN 2 * b ELSE 2 * b - P
  <2> DEFINE x == 2 * b
  <2>1. x \in Nat /\ x < 2 * P
    BY <1>1
  <2> HIDE DEF x
  <2>2. x % P = IF x < P THEN x ELSE x - P
    BY <1>1, <2>1, DoubleMod
  <2> QED BY <2>2 DEF x
<1>4. /\ FirstBit(b) \in {0, 1} /\ ShiftedOut(b) \in 0 .. P - 1
      /\ 2 * b = FirstBit(b) * P + ShiftedOut(b)
  <2>1. CASE b < H
    BY <1>1, <1>2, <1>3, <2>1
  <2>2. CASE ~ b < H
    BY <1>1, <1>2, <1>3, <2>2
  <2> QED BY <2>1, <2>2
<1> QED BY <1>4 DEF P, Byte

LEMMA ComeStart ==
  ASSUME NEW b \in Byte
  PROVE  Come(0, 0, b, b)
  BY ByteSizes, ByteIs DEF Come

LEMMA ComeStep ==
  ASSUME NEW k \in 0 .. Bits - 1, NEW d \in Nat, NEW c \in Byte,
         NEW b \in Byte,
         Come(k, d, c, b)
  PROVE  Come(k + 1, 2 * d + FirstBit(c), ShiftedOut(c), b)
<1> DEFINE P == Pow[Bits]
           p == Pow[k]
           f == FirstBit(c)
           s == ShiftedOut(c)
<1>1. P \in Nat /\ b \in Nat /\ c \in Nat /\ p \in Nat
  BY ByteSizes, ByteIs, PowPositive
<1>2. f \in {0, 1} /\ s \in Nat /\ 2 * c = f * P + s
  BY ShiftIs, ByteIs
<1>3. Pow[k + 1] = 2 * p
  BY PowIs
<1>4. d * P + c = b * p
  BY DEF Come
<1> SUFFICES (2 * d + f) * P + s = b * (2 * p)
  BY <1>3 DEF Come
<1> HIDE DEF P, p, f, s
<1> DEFINE x == d * P
           y == b * p
           z == f * P
<1>5. x \in Int /\ y \in Int /\ z \in Int
  BY <1>1, <1>2
<1>6. (2 * d + f) * P = 2 * x + z
  BY <1>1, <1>2
<1>7. b * (2 * p) = 2 * y
  BY <1>1
<1>8. x + c = y /\ 2 * c = z + s
  BY <1>2, <1>4
<1> HIDE DEF x, y, z
<1> QED BY <1>1, <1>2, <1>5, <1>6, <1>7, <1>8

LEMMA ComeEnd ==
  ASSUME NEW d \in Nat, NEW c \in Byte, NEW b \in Nat, Come(Bits, d, c, b)
  PROVE  d = b
<1> DEFINE P == Pow[Bits]
<1>1. P \in Nat \ {0} /\ c \in Nat /\ c < P /\ d * P + c = b * P
  BY ByteSizes, ByteIs DEF Come
<1> HIDE DEF P
<1>2. ASSUME d < b PROVE FALSE
  <2>1. PICK e \in Nat : b = d + 1 + e
    <3>1. b - d - 1 \in Nat /\ b = d + 1 + (b - d - 1)
      BY <1>2
    <3> QED BY <3>1
  <2>2. b * P = d * P + P + e * P
    BY <1>1, <2>1
  <2>3. e * P \in Nat /\ d * P \in Nat
    BY <1>1, <2>1
  <2> QED BY <1>1, <2>2, <2>3
<1>3. ASSUME b < d PROVE FALSE
  <2>1. PICK e \in Nat : d = b + 1 + e
    <3>1. d - b - 1 \in Nat /\ d = b + 1 + (d - b - 1)
      BY <1>3
    <3> QED BY <3>1
  <2>2. d * P = b * P + P + e * P
    BY <1>1, <2>1
  <2>3. e * P \in Nat /\ b * P \in Nat
    BY <1>1, <2>1
  <2> QED BY <1>1, <2>2, <2>3
<1> QED BY <1>2, <1>3

LEMMA ModIs ==
  ASSUME NEW R \in Nat \ {0}, NEW q \in Nat, NEW r \in 0 .. R - 1
  PROVE  (q * R + r) % R = r
  OBVIOUS
LEMMA ModHas ==
  ASSUME NEW R \in Nat \ {0}, NEW x \in Nat
  PROVE  /\ x \div R \in Nat /\ x % R \in 0 .. R - 1
         /\ x = (x \div R) * R + (x % R)
  OBVIOUS
LEMMA NextModulo ==
  ASSUME NEW x \in Nat, NEW R \in Nat \ {0}
  PROVE  ((x % R) + 1) % R = (x + 1) % R
<1> DEFINE q == x \div R
           r == x % R
<1>1. q \in Nat /\ r \in 0 .. R - 1 /\ x = q * R + r
  BY ModHas
<1> HIDE DEF q, r
<1>2. CASE r + 1 < R
  <2>1. (r + 1) % R = r + 1 /\ r + 1 \in 0 .. R - 1
    BY <1>1, <1>2
  <2>2. x + 1 = q * R + (r + 1)
    BY <1>1
  <2>3. (q * R + (r + 1)) % R = r + 1
    BY <1>1, <2>1, ModIs
  <2> QED BY <2>1, <2>2, <2>3 DEF r
<1>3. CASE r + 1 = R
  <2>1. x + 1 = (q + 1) * R + 0
    BY <1>1, <1>3
  <2>2. ((q + 1) * R + 0) % R = 0 /\ (1 * R + 0) % R = 0
    BY <1>1, ModIs
  <2>3. (r + 1) % R = 0
    BY <1>3, <2>2
  <2> QED BY <2>1, <2>2, <2>3 DEF r
<1> QED BY <1>1, <1>2, <1>3

-----------------------------------------------------------------------------
HIDE MpuAssumption

LEMMA WriteProgram ==
  ASSUME NEW reg \in Nat, NEW val \in Nat
  PROVE  LET s == write_mpu_reg(reg, val)
         IN  /\ s \in Seq(StepSet) /\ Len(s) = 5
             /\ s[1] = Starts /\ s[2] = Writes(ADDR_W) /\ s[3] = Writes(reg)
             /\ s[4] = Writes(val) /\ s[5] = Stops
<1>1. /\ Starts \in StepSet /\ Stops \in StepSet /\ Writes(ADDR_W) \in StepSet
      /\ Writes(reg) \in StepSet /\ Writes(val) \in StepSet
  BY ByteSizes DEF Starts, Stops, Writes, Calls, StepSet, Routines
<1> QED BY <1>1 DEF write_mpu_reg

LEMMA Joined ==
  ASSUME NEW S, NEW s \in Seq(S), NEW t \in Seq(S)
  PROVE  /\ s \o t \in Seq(S) /\ Len(s \o t) = Len(s) + Len(t)
         /\ \A k \in 1 .. Len(s) : (s \o t)[k] = s[k]
         /\ \A k \in 1 .. Len(t) : (s \o t)[k + Len(s)] = t[k]
<1>1. /\ s \o t \in Seq(S) /\ Len(s \o t) = Len(s) + Len(t)
      /\ \A i \in 1 .. Len(s) + Len(t) :
           (s \o t)[i] = IF i <= Len(s) THEN s[i] ELSE t[i - Len(s)]
  BY ConcatProperties
<1>2. \A k \in 1 .. Len(s) : (s \o t)[k] = s[k]
  BY <1>1
<1>3. \A k \in 1 .. Len(t) : (s \o t)[k + Len(s)] = t[k]
  <2> TAKE k \in 1 .. Len(t)
  <2>1. /\ k + Len(s) \in 1 .. Len(s) + Len(t) /\ ~ (k + Len(s) <= Len(s))
        /\ (k + Len(s)) - Len(s) = k
    OBVIOUS
  <2> QED BY <1>1, <2>1
<1> QED BY <1>1, <1>2, <1>3

LEMMA ReadProgram ==
  ASSUME NEW reg \in Nat, NEW num \in Nat
  PROVE  LET s == read_mpu_reg_burst(reg, num)
         IN  /\ s \in Seq(StepSet) /\ Len(s) = num + 6
             /\ s[1] = Starts /\ s[2] = Writes(ADDR_W) /\ s[3] = Writes(reg)
             /\ s[4] = Starts /\ s[5] = Writes(ADDR_W + 1)
             /\ \A k \in 1 .. num : s[k + 5] = Reads(k < num)
             /\ s[num + 6] = Stops
<1> DEFINE h == <<Starts, Writes(ADDR_W), Writes(reg), Starts,
                  Writes(ADDR_W + 1)>>
           b == [k \in 1 .. num |-> Reads(k < num)]
           t == <<Stops>>
<1>1. /\ Starts \in StepSet /\ Stops \in StepSet /\ Writes(ADDR_W) \in StepSet
      /\ Writes(reg) \in StepSet /\ Writes(ADDR_W + 1) \in StepSet
  BY ByteSizes DEF Starts, Stops, Writes, Calls, StepSet, Routines
<1>2. \A k \in 1 .. num : Reads(k < num) \in StepSet
  BY DEF Reads, Calls, StepSet, Routines
<1>3. /\ h \in Seq(StepSet) /\ Len(h) = 5 /\ h[1] = Starts
      /\ h[2] = Writes(ADDR_W) /\ h[3] = Writes(reg) /\ h[4] = Starts
      /\ h[5] = Writes(ADDR_W + 1)
  BY <1>1
<1>4. /\ b \in Seq(StepSet) /\ Len(b) = num
      /\ \A k \in 1 .. num : b[k] = Reads(k < num)
  BY <1>2
<1>5. t \in Seq(StepSet) /\ Len(t) = 1 /\ t[1] = Stops
  BY <1>1
<1>6. read_mpu_reg_burst(reg, num) = (h \o b) \o t
  BY DEF read_mpu_reg_burst
<1> HIDE DEF h, b, t
<1>7. /\ h \o b \in Seq(StepSet) /\ Len(h \o b) = num + 5
      /\ \A k \in 1 .. 5 : (h \o b)[k] = h[k]
      /\ \A k \in 1 .. num : (h \o b)[k + 5] = b[k]
  <2> DEFINE m == 5
  <2>0. /\ h \in Seq(StepSet) /\ b \in Seq(StepSet) /\ m \in Nat /\ num \in Nat
        /\ Len(h) = m /\ Len(b) = num
    BY <1>3, <1>4
  <2>1. m + num = num + 5
    OBVIOUS
  <2> HIDE DEF m
  <2>2. h \o b \in Seq(StepSet) /\ Len(h \o b) = m + num
    BY ONLY <2>0, Joined
  <2>3. \A k \in 1 .. m : (h \o b)[k] = h[k]
    BY ONLY <2>0, Joined
  <2>4. \A k \in 1 .. num : (h \o b)[k + m] = b[k]
    BY ONLY <2>0, Joined
  <2> QED BY <2>1, <2>2, <2>3, <2>4 DEF m
<1> DEFINE hb == h \o b
<1> HIDE DEF hb
<1>8. /\ hb \in Seq(StepSet) /\ Len(hb) = num + 5
      /\ \A k \in 1 .. 5 : hb[k] = h[k]
      /\ \A k \in 1 .. num : hb[k + 5] = b[k]
  BY <1>7 DEF hb
<1>9. /\ hb \o t \in Seq(StepSet) /\ Len(hb \o t) = num + 6
      /\ \A k \in 1 .. num + 5 : (hb \o t)[k] = hb[k]
      /\ (hb \o t)[num + 6] = t[1]
  <2> DEFINE m == num + 5
             n == 1
  <2>0. /\ hb \in Seq(StepSet) /\ t \in Seq(StepSet)
        /\ m \in Nat /\ Len(hb) = m /\ n \in Nat /\ Len(t) = n
    BY <1>5, <1>8
  <2>1. n + m = num + 6 /\ m + n = num + 6 /\ n \in 1 .. n
    OBVIOUS
  <2> HIDE DEF m, n
  <2>2. hb \o t \in Seq(StepSet) /\ Len(hb \o t) = m + n
    BY ONLY <2>0, Joined
  <2>4. \A k \in 1 .. m : (hb \o t)[k] = hb[k]
    BY ONLY <2>0, Joined
  <2>5. \A k \in 1 .. n : (hb \o t)[k + m] = t[k]
    BY ONLY <2>0, Joined
  <2>3. (hb \o t)[n + m] = t[n]
    BY <2>1, <2>5
  <2> QED BY <2>1, <2>2, <2>3, <2>4 DEF m, n
<1> DEFINE s == hb \o t
<1>10. read_mpu_reg_burst(reg, num) = s
  BY <1>6 DEF hb
<1> HIDE DEF s
<1>11. /\ s \in Seq(StepSet) /\ Len(s) = num + 6
       /\ \A k \in 1 .. num + 5 : s[k] = hb[k]
       /\ s[num + 6] = Stops
  BY <1>5, <1>9 DEF s
<1>12. \A k \in 1 .. 5 : s[k] = h[k]
  BY <1>8, <1>11
<1>13. \A k \in 1 .. num : s[k + 5] = Reads(k < num)
  <2> TAKE k \in 1 .. num
  <2>1. k + 5 \in 1 .. num + 5
    OBVIOUS
  <2> QED BY <1>4, <1>8, <1>11, <2>1
<1>14. /\ 1 \in 1 .. 5 /\ 2 \in 1 .. 5 /\ 3 \in 1 .. 5
       /\ 4 \in 1 .. 5 /\ 5 \in 1 .. 5
  OBVIOUS
<1> QED BY <1>3, <1>10, <1>11, <1>12, <1>13, <1>14

(* The calls of a program. *)
LEMMA ProgramIs ==
  ASSUME MpuTypes
  PROVE  /\ call.kind = "none" => Len(call.steps) = 0
         /\ call.kind = "write" =>
              /\ Len(call.steps) = 5
              /\ call.steps[1] = Starts /\ call.steps[2] = Writes(ADDR_W)
              /\ call.steps[3] = Writes(call.reg)
              /\ call.steps[4] = Writes(call.arg) /\ call.steps[5] = Stops
         /\ call.kind = "read" =>
              /\ Len(call.steps) = call.arg + 6
              /\ call.steps[1] = Starts /\ call.steps[2] = Writes(ADDR_W)
              /\ call.steps[3] = Writes(call.reg)
              /\ call.steps[4] = Starts /\ call.steps[5] = Writes(ADDR_W + 1)
              /\ \A k \in 1 .. call.arg :
                   call.steps[k + 5] = Reads(k < call.arg)
              /\ call.steps[call.arg + 6] = Stops
         /\ call.kind \in Kinds /\ call.reg \in Nat /\ call.arg \in Nat
<1>1. /\ call.kind \in Kinds /\ call.reg \in Nat /\ call.arg \in Nat
  BY ByteSizes DEF MpuTypes, CallSet, RegNos
<1>2. ASSUME call.kind = "write"
      PROVE  call.steps = write_mpu_reg(call.reg, call.arg)
  BY <1>2 DEF MpuTypes, CallOK
<1>3. ASSUME call.kind = "read"
      PROVE  call.steps = read_mpu_reg_burst(call.reg, call.arg)
  BY <1>3 DEF MpuTypes, CallOK
<1>4. ASSUME call.kind = "none" PROVE Len(call.steps) = 0
  BY <1>4 DEF MpuTypes, CallOK
<1>5. CASE call.kind = "write"
  BY <1>1, <1>2, <1>5, WriteProgram
<1>6. CASE call.kind = "read"
  <2> DEFINE s == read_mpu_reg_burst(call.reg, call.arg)
  <2>1. /\ Len(s) = call.arg + 6
        /\ s[1] = Starts /\ s[2] = Writes(ADDR_W) /\ s[3] = Writes(call.reg)
        /\ s[4] = Starts /\ s[5] = Writes(ADDR_W + 1)
        /\ \A k \in 1 .. call.arg : s[k + 5] = Reads(k < call.arg)
        /\ s[call.arg + 6] = Stops
    BY <1>1, ReadProgram
  <2> HIDE DEF s
  <2>2. call.steps = s
    BY <1>3, <1>6 DEF s
  <2> QED BY <1>1, <1>6, <2>1, <2>2
<1>7. CASE call.kind = "none"
  BY <1>1, <1>4, <1>7
<1> QED BY <1>1, <1>5, <1>6, <1>7 DEF Kinds

(* The places of a program. *)
LEMMA AtPlaces ==
  ASSUME NEW n \in Nat, NEW l \in Nat, NEW a \in Nat, n \in 1 .. l
  PROVE  /\ l = 5 => n = 1 \/ n = 2 \/ n = 3 \/ n = 4 \/ n = l
         /\ l = a + 6 =>
              n = 1 \/ n = 2 \/ n = 3 \/ n = 4 \/ n = 5 \/ n = l \/
                n \in 6 .. a + 5
         /\ n # l => n < l
OBVIOUS

At_(kind, n) == call.kind = kind /\ call.at = n

(* What the call in progress is. *)
LEMMA StepIs ==
  ASSUME MpuTypes, Busy
  PROVE  /\ Step \in StepSet
         /\ call.at \in 1 .. Len(call.steps)
         /\ \/ call.kind = "write" /\ Len(call.steps) = 5
            \/ call.kind = "read" /\ Len(call.steps) = call.arg + 6
         /\ call.at = 1 => Step = Starts
         /\ call.at = 2 => Step = Writes(ADDR_W)
         /\ call.at = 3 => Step = Writes(call.reg)
         /\ call.at = 4 /\ call.kind = "write" => Step = Writes(call.arg)
         /\ call.at = 4 /\ call.kind = "read" => Step = Starts
         /\ call.at = 5 /\ call.kind = "read" => Step = Writes(ADDR_W + 1)
         /\ call.kind = "read" /\ call.at \in 6 .. call.arg + 5 =>
              Step = Reads(call.at - 5 < call.arg)
         /\ call.at = Len(call.steps) => Step = Stops
<1>1. call.at \in 1 .. Len(call.steps) /\ call.steps \in Seq(StepSet)
  BY DEF MpuTypes, CallOK, CallSet, Busy
<1>2. Step \in StepSet
  BY <1>1 DEF Step
<1>3. call.kind # "none"
  BY <1>1, ProgramIs
<1>4. CASE call.kind = "write"
  BY <1>1, <1>2, <1>4, ProgramIs DEF Step
<1>5. CASE call.kind = "read"
  <2>1. call.arg \in 1 .. Registers
    BY <1>5 DEF MpuTypes, CallOK
  <2>2. ASSUME call.at \in 6 .. call.arg + 5
        PROVE  Step = Reads(call.at - 5 < call.arg)
    <3>1. call.at - 5 \in 1 .. call.arg /\ (call.at - 5) + 5 = call.at
      <4>1. call.at \in Nat /\ call.arg \in Nat
        BY DEF MpuTypes, CallSet
      <4> QED BY <2>2, <4>1
    <3> QED BY <1>5, <3>1, ProgramIs DEF Step
  <2>3. /\ call.at = 1 => Step = Starts
        /\ call.at = 2 => Step = Writes(ADDR_W)
        /\ call.at = 3 => Step = Writes(call.reg)
        /\ call.at = 4 => Step = Starts
        /\ call.at = 5 => Step = Writes(ADDR_W + 1)
        /\ call.at = Len(call.steps) => Step = Stops
        /\ Len(call.steps) = call.arg + 6
    BY <1>5, ProgramIs DEF Step
  <2> QED BY <1>1, <1>2, <1>5, <2>2, <2>3
<1> QED BY <1>3, <1>4, <1>5, ProgramIs DEF Kinds

(* The routine that is being executed, by its place in the program. *)
LEMMA RoutineIs ==
  ASSUME MpuTypes, Busy
  PROVE  /\ Step.routine = "start" => call.at = 1 \/ At_("read", 4)
         /\ Step.routine = "write" =>
              /\ call.at \in {2, 3} \/ At_("write", 4) \/ At_("read", 5)
              /\ call.at < Len(call.steps)
              /\ Step.c \in Byte
         /\ Step.routine = "read" =>
              /\ call.kind = "read" /\ call.at \in 6 .. call.arg + 5
              /\ Step.send_ack = (call.at - 5 < call.arg) /\ Step.c = 0
         /\ Step.routine = "stop" => call.at = Len(call.steps)
         /\ Step.routine \in Routines
<1>1. call.at \in Nat /\ call.arg \in Nat /\ Len(call.steps) \in Nat
  BY DEF MpuTypes, CallSet
<1>0. /\ call.at \in 1 .. Len(call.steps)
      /\ \/ call.kind = "write" /\ Len(call.steps) = 5
         \/ call.kind = "read" /\ Len(call.steps) = call.arg + 6
  BY StepIs
<1>2. ADDR_W \in Byte /\ ADDR_W + 1 \in Byte /\ call.reg \in Byte
      /\ (call.kind = "write" => call.arg \in Byte)
  <2>1. call.reg \in 0 .. Registers - 1
    BY DEF MpuTypes, CallSet, RegNos
  <2>2. ADDR_W \in Byte /\ ADDR_W + 1 \in Byte
    BY ByteSizes, ByteIs
  <2>3. call.reg \in Byte
    <3>1. call.reg \in Nat /\ call.reg < Pow[Bits]
      BY <2>1, ByteSizes
    <3> QED BY <3>1, ByteIs
  <2>4. call.kind = "write" => call.arg \in Byte
    BY DEF MpuTypes, CallOK
  <2> QED BY <2>2, <2>3, <2>4
<1>3. \/ call.at \in 1 .. 5 \/ call.at = Len(call.steps)
      \/ call.kind = "read" /\ call.at \in 6 .. call.arg + 5
  <2>1. CASE call.kind = "write" /\ Len(call.steps) = 5
    BY <1>0, <1>1, <2>1, AtPlaces
  <2>2. CASE call.kind = "read" /\ Len(call.steps) = call.arg + 6
    BY <1>0, <1>1, <2>2, AtPlaces
  <2> QED BY <1>0, <2>1, <2>2
<1>4. /\ Starts.routine = "start" /\ Stops.routine = "stop"
      /\ \A c : Writes(c).routine = "write" /\ Writes(c).c = c
      /\ \A a : /\ Reads(a).routine = "read" /\ Reads(a).send_ack = a
                /\ Reads(a).c = 0
  BY DEF Starts, Stops, Writes, Reads, Calls
<1>5. CASE call.at = Len(call.steps)
  BY <1>4, <1>5, StepIs DEF Routines
<1>6. CASE call.at \in 1 .. 5 /\ call.at # Len(call.steps)
  <2>1. \/ call.at = 1 \/ call.at = 2 \/ call.at = 3 \/ call.at = 4
        \/ (call.at = 5 /\ call.kind = "read")
    <3>1. call.kind = "write" => Len(call.steps) = 5
      BY <1>0
    <3> QED BY <1>0, <1>1, <1>6, AtPlaces
  <2>2. call.at < Len(call.steps)
    BY <1>0, <1>1, <1>6, AtPlaces
  <2> QED BY <1>2, <1>4, <2>1, <2>2, StepIs DEF Routines, At_
<1>7. CASE call.kind = "read" /\ call.at \in 6 .. call.arg + 5
  BY <1>4, <1>7, StepIs DEF Routines
<1> QED BY <1>3, <1>5, <1>6, <1>7

-----------------------------------------------------------------------------
(* The lines of i2c.c. *)
On(r, l, x) == Step.routine = r /\ frame.line = l /\ Here = x

LEMMA StartLines ==
  ASSUME MpuTypes, Busy, Step.routine = "start"
  PROVE  /\ Len(Lines[Step.routine]) = 6
         /\ \/ On("start", 1, Sda(1)) /\ Here.op = "sda"
            \/ On("start", 2, Scl(1)) /\ Here.op = "scl"
            \/ On("start", 3, Wait8) /\ Here.op = Wait8.op
            \/ On("start", 4, Sda(0)) /\ Here.op = "sda"
            \/ On("start", 5, Scl(0)) /\ Here.op = "scl"
            \/ On("start", 6, Return) /\ Here.op = "return"
<1>1. Lines[Step.routine] = i2c_start
  BY DEF Lines
<1>2. /\ Len(i2c_start) = 6
      /\ i2c_start[1] = Sda(1) /\ i2c_start[1].op = "sda"
      /\ i2c_start[2] = Scl(1) /\ i2c_start[2].op = "scl"
      /\ i2c_start[3] = Wait8 /\ i2c_start[3].op = Wait8.op
      /\ i2c_start[4] = Sda(0) /\ i2c_start[4].op = "sda"
      /\ i2c_start[5] = Scl(0) /\ i2c_start[5].op = "scl"
      /\ i2c_start[6] = Return /\ i2c_start[6].op = "return"
  BY DEF i2c_start, Sda, Scl, LoopTo, Op, Line, Wait8, Wait32, Return
<1>3. frame.line \in 1 .. 6
  BY <1>1, <1>2 DEF MpuTypes, FrameOK
<1>4. \/ frame.line = 1
      \/ frame.line = 2
      \/ frame.line = 3
      \/ frame.line = 4
      \/ frame.line = 5
      \/ frame.line = 6
  BY <1>3
<1> QED BY <1>1, <1>2, <1>4 DEF On, Here

LEMMA StopLines ==
  ASSUME MpuTypes, Busy, Step.routine = "stop"
  PROVE  /\ Len(Lines[Step.routine]) = 5
         /\ \/ On("stop", 1, Sda(0)) /\ Here.op = "sda"
            \/ On("stop", 2, Scl(1)) /\ Here.op = "scl"
            \/ On("stop", 3, Wait8) /\ Here.op = Wait8.op
            \/ On("stop", 4, Sda(1)) /\ Here.op = "sda"
            \/ On("stop", 5, Return) /\ Here.op = "return"
<1>1. Lines[Step.routine] = i2c_stop
  BY DEF Lines
<1>2. /\ Len(i2c_stop) = 5
      /\ i2c_stop[1] = Sda(0) /\ i2c_stop[1].op = "sda"
      /\ i2c_stop[2] = Scl(1) /\ i2c_stop[2].op = "scl"
      /\ i2c_stop[3] = Wait8 /\ i2c_stop[3].op = Wait8.op
      /\ i2c_stop[4] = Sda(1) /\ i2c_stop[4].op = "sda"
      /\ i2c_stop[5] = Return /\ i2c_stop[5].op = "return"
  BY DEF i2c_stop, Sda, Scl, LoopTo, Op, Line, Wait8, Wait32, Return
<1>3. frame.line \in 1 .. 5
  BY <1>1, <1>2 DEF MpuTypes, FrameOK
<1>4. \/ frame.line = 1
      \/ frame.line = 2
      \/ frame.line = 3
      \/ frame.line = 4
      \/ frame.line = 5
  BY <1>3
<1> QED BY <1>1, <1>2, <1>4 DEF On, Here

LEMMA WriteLines ==
  ASSUME MpuTypes, Busy, Step.routine = "write"
  PROVE  /\ Len(Lines[Step.routine]) = 10
         /\ \/ On("write", 1, Op("shift out")) /\ Here.op = "shift out"
            \/ On("write", 2, Scl(1)) /\ Here.op = "scl"
            \/ On("write", 3, Wait32) /\ Here.op = Wait32.op
            \/ On("write", 4, LoopTo(1)) /\ Here.op = "scl"
            \/ On("write", 5, Sda(1)) /\ Here.op = "sda"
            \/ On("write", 6, Scl(1)) /\ Here.op = "scl"
            \/ On("write", 7, Op("ack")) /\ Here.op = "ack"
            \/ On("write", 8, Wait32) /\ Here.op = Wait32.op
            \/ On("write", 9, Scl(0)) /\ Here.op = "scl"
            \/ On("write", 10, Return) /\ Here.op = "return"
<1>1. Lines[Step.routine] = i2c_write
  BY DEF Lines
<1>2. /\ Len(i2c_write) = 10
      /\ i2c_write[1] = Op("shift out") /\ i2c_write[1].op = "shift out"
      /\ i2c_write[2] = Scl(1) /\ i2c_write[2].op = "scl"
      /\ i2c_write[3] = Wait32 /\ i2c_write[3].op = Wait32.op
      /\ i2c_write[4] = LoopTo(1) /\ i2c_write[4].op = "scl"
      /\ i2c_write[5] = Sda(1) /\ i2c_write[5].op = "sda"
      /\ i2c_write[6] = Scl(1) /\ i2c_write[6].op = "scl"
      /\ i2c_write[7] = Op("ack") /\ i2c_write[7].op = "ack"
      /\ i2c_write[8] = Wait32 /\ i2c_write[8].op = Wait32.op
      /\ i2c_write[9] = Scl(0) /\ i2c_write[9].op = "scl"
      /\ i2c_write[10] = Return /\ i2c_write[10].op = "return"
  BY DEF i2c_write, Sda, Scl, LoopTo, Op, Line, Wait8, Wait32, Return
<1>3. frame.line \in 1 .. 10
  BY <1>1, <1>2 DEF MpuTypes, FrameOK
<1>4. \/ frame.line = 1
      \/ frame.line = 2
      \/ frame.line = 3
      \/ frame.line = 4
      \/ frame.line = 5
      \/ frame.line = 6
      \/ frame.line = 7
      \/ frame.line = 8
      \/ frame.line = 9
      \/ frame.line = 10
  BY <1>3
<1>5. CASE frame.line = 1
  <2>1. On("write", 1, Op("shift out")) /\ Here.op = "shift out"
    BY <1>1, <1>2, <1>5 DEF On, Here
  <2> QED BY <1>1, <1>2, <2>1
<1>6. CASE frame.line = 2
  <2>1. On("write", 2, Scl(1)) /\ Here.op = "scl"
    BY <1>1, <1>2, <1>6 DEF On, Here
  <2> QED BY <1>1, <1>2, <2>1
<1>7. CASE frame.line = 3
  <2>1. On("write", 3, Wait32) /\ Here.op = Wait32.op
    BY <1>1, <1>2, <1>7 DEF On, Here
  <2> QED BY <1>1, <1>2, <2>1
<1>8. CASE frame.line = 4
  <2>1. On("write", 4, LoopTo(1)) /\ Here.op = "scl"
    BY <1>1, <1>2, <1>8 DEF On, Here
  <2> QED BY <1>1, <1>2, <2>1
<1>9. CASE frame.line = 5
  <2>1. On("write", 5, Sda(1)) /\ Here.op = "sda"
    BY <1>1, <1>2, <1>9 DEF On, Here
  <2> QED BY <1>1, <1>2, <2>1
<1>10. CASE frame.line = 6
  <2>1. On("write", 6, Scl(1)) /\ Here.op = "scl"
    BY <1>1, <1>2, <1>10 DEF On, Here
  <2> QED BY <1>1, <1>2, <2>1
<1>11. CASE frame.line = 7
  <2>1. On("write", 7, Op("ack")) /\ Here.op = "ack"
    BY <1>1, <1>2, <1>11 DEF On, Here
  <2> QED BY <1>1, <1>2, <2>1
<1>12. CASE frame.line = 8
  <2>1. On("write", 8, Wait32) /\ Here.op = Wait32.op
    BY <1>1, <1>2, <1>12 DEF On, Here
  <2> QED BY <1>1, <1>2, <2>1
<1>13. CASE frame.line = 9
  <2>1. On("write", 9, Scl(0)) /\ Here.op = "scl"
    BY <1>1, <1>2, <1>13 DEF On, Here
  <2> QED BY <1>1, <1>2, <2>1
<1>14. CASE frame.line = 10
  <2>1. On("write", 10, Return) /\ Here.op = "return"
    BY <1>1, <1>2, <1>14 DEF On, Here
  <2> QED BY <1>1, <1>2, <2>1
<1> QED BY <1>4, <1>5, <1>6, <1>7, <1>8, <1>9, <1>10, <1>11, <1>12, <1>13,
       <1>14

LEMMA ReadLines ==
  ASSUME MpuTypes, Busy, Step.routine = "read"
  PROVE  /\ Len(Lines[Step.routine]) = 10
         /\ \/ On("read", 1, Sda(1)) /\ Here.op = "sda"
            \/ On("read", 2, Scl(1)) /\ Here.op = "scl"
            \/ On("read", 3, Wait8) /\ Here.op = Wait8.op
            \/ On("read", 4, Op("shift in")) /\ Here.op = "shift in"
            \/ On("read", 5, LoopTo(2)) /\ Here.op = "scl"
            \/ On("read", 6, Op("send_ack")) /\ Here.op = "send_ack"
            \/ On("read", 7, Scl(1)) /\ Here.op = "scl"
            \/ On("read", 8, Wait8) /\ Here.op = Wait8.op
            \/ On("read", 9, Scl(0)) /\ Here.op = "scl"
            \/ On("read", 10, Return) /\ Here.op = "return"
<1>1. Lines[Step.routine] = i2c_read
  BY DEF Lines
<1>2. /\ Len(i2c_read) = 10
      /\ i2c_read[1] = Sda(1) /\ i2c_read[1].op = "sda"
      /\ i2c_read[2] = Scl(1) /\ i2c_read[2].op = "scl"
      /\ i2c_read[3] = Wait8 /\ i2c_read[3].op = Wait8.op
      /\ i2c_read[4] = Op("shift in") /\ i2c_read[4].op = "shift in"
      /\ i2c_read[5] = LoopTo(2) /\ i2c_read[5].op = "scl"
      /\ i2c_read[6] = Op("send_ack") /\ i2c_read[6].op = "send_ack"
      /\ i2c_read[7] = Scl(1) /\ i2c_read[7].op = "scl"
      /\ i2c_read[8] = Wait8 /\ i2c_read[8].op = Wait8.op
      /\ i2c_read[9] = Scl(0) /\ i2c_read[9].op = "scl"
      /\ i2c_read[10] = Return /\ i2c_read[10].op = "return"
  BY DEF i2c_read, Sda, Scl, LoopTo, Op, Line, Wait8, Wait32, Return
<1>3. frame.line \in 1 .. 10
  BY <1>1, <1>2 DEF MpuTypes, FrameOK
<1>4. \/ frame.line = 1
      \/ frame.line = 2
      \/ frame.line = 3
      \/ frame.line = 4
      \/ frame.line = 5
      \/ frame.line = 6
      \/ frame.line = 7
      \/ frame.line = 8
      \/ frame.line = 9
      \/ frame.line = 10
  BY <1>3
<1>5. CASE frame.line = 1
  <2>1. On("read", 1, Sda(1)) /\ Here.op = "sda"
    BY <1>1, <1>2, <1>5 DEF On, Here
  <2> QED BY <1>1, <1>2, <2>1
<1>6. CASE frame.line = 2
  <2>1. On("read", 2, Scl(1)) /\ Here.op = "scl"
    BY <1>1, <1>2, <1>6 DEF On, Here
  <2> QED BY <1>1, <1>2, <2>1
<1>7. CASE frame.line = 3
  <2>1. On("read", 3, Wait8) /\ Here.op = Wait8.op
    BY <1>1, <1>2, <1>7 DEF On, Here
  <2> QED BY <1>1, <1>2, <2>1
<1>8. CASE frame.line = 4
  <2>1. On("read", 4, Op("shift in")) /\ Here.op = "shift in"
    BY <1>1, <1>2, <1>8 DEF On, Here
  <2> QED BY <1>1, <1>2, <2>1
<1>9. CASE frame.line = 5
  <2>1. On("read", 5, LoopTo(2)) /\ Here.op = "scl"
    BY <1>1, <1>2, <1>9 DEF On, Here
  <2> QED BY <1>1, <1>2, <2>1
<1>10. CASE frame.line = 6
  <2>1. On("read", 6, Op("send_ack")) /\ Here.op = "send_ack"
    BY <1>1, <1>2, <1>10 DEF On, Here
  <2> QED BY <1>1, <1>2, <2>1
<1>11. CASE frame.line = 7
  <2>1. On("read", 7, Scl(1)) /\ Here.op = "scl"
    BY <1>1, <1>2, <1>11 DEF On, Here
  <2> QED BY <1>1, <1>2, <2>1
<1>12. CASE frame.line = 8
  <2>1. On("read", 8, Wait8) /\ Here.op = Wait8.op
    BY <1>1, <1>2, <1>12 DEF On, Here
  <2> QED BY <1>1, <1>2, <2>1
<1>13. CASE frame.line = 9
  <2>1. On("read", 9, Scl(0)) /\ Here.op = "scl"
    BY <1>1, <1>2, <1>13 DEF On, Here
  <2> QED BY <1>1, <1>2, <2>1
<1>14. CASE frame.line = 10
  <2>1. On("read", 10, Return) /\ Here.op = "return"
    BY <1>1, <1>2, <1>14 DEF On, Here
  <2> QED BY <1>1, <1>2, <2>1
<1> QED BY <1>4, <1>5, <1>6, <1>7, <1>8, <1>9, <1>10, <1>11, <1>12, <1>13,
       <1>14

LEMMA LineIs ==
  /\ \A v : Sda(v).op = "sda" /\ Sda(v).arg = v
  /\ \A v : Scl(v).op = "scl" /\ Scl(v).arg = v /\ Scl(v).back = 0
  /\ \A l : LoopTo(l).op = "scl" /\ LoopTo(l).arg = 0 /\ LoopTo(l).back = l
  /\ \A n : Op(n).op = n
  /\ Wait8.op = "wait uint8_t" /\ Wait32.op = "wait unsigned long"
  /\ Return.op = "return"
  BY DEF Sda, Scl, LoopTo, Op, Line, Wait8, Wait32, Return

LEMMA RoutineOne ==
  ASSUME MpuTypes, Busy
  PROVE  \/ Step.routine = "start" \/ Step.routine = "stop"
         \/ Step.routine = "write" \/ Step.routine = "read"
  BY RoutineIs DEF Routines

LEMMA SdaLines ==
  ASSUME MpuTypes, At("sda")
  PROVE  /\ Busy
         /\ \/ On("start", 1, Sda(1))
            \/ On("start", 4, Sda(0))
            \/ On("stop", 1, Sda(0))
            \/ On("stop", 4, Sda(1))
            \/ On("write", 5, Sda(1))
            \/ On("read", 1, Sda(1))
<1>1. Busy /\ Here.op = "sda"
  BY LineIs DEF At
<1>0. Wait8.op = "wait uint8_t" /\ Wait32.op = "wait unsigned long"
  BY LineIs
<1>2. CASE Step.routine = "start"
  BY <1>0, <1>1, <1>2, StartLines
<1>3. CASE Step.routine = "stop"
  BY <1>0, <1>1, <1>3, StopLines
<1>4. CASE Step.routine = "write"
  BY <1>0, <1>1, <1>4, WriteLines
<1>5. CASE Step.routine = "read"
  BY <1>0, <1>1, <1>5, ReadLines
<1> QED BY <1>1, <1>2, <1>3, <1>4, <1>5, RoutineOne

LEMMA SclLines ==
  ASSUME MpuTypes, At("scl")
  PROVE  /\ Busy
         /\ \/ On("start", 2, Scl(1))
            \/ On("start", 5, Scl(0))
            \/ On("stop", 2, Scl(1))
            \/ On("write", 2, Scl(1))
            \/ On("write", 4, LoopTo(1))
            \/ On("write", 6, Scl(1))
            \/ On("write", 9, Scl(0))
            \/ On("read", 2, Scl(1))
            \/ On("read", 5, LoopTo(2))
            \/ On("read", 7, Scl(1))
            \/ On("read", 9, Scl(0))
<1>1. Busy /\ Here.op = "scl"
  BY LineIs DEF At
<1>0. Wait8.op = "wait uint8_t" /\ Wait32.op = "wait unsigned long"
  BY LineIs
<1>2. CASE Step.routine = "start"
  BY <1>0, <1>1, <1>2, StartLines
<1>3. CASE Step.routine = "stop"
  BY <1>0, <1>1, <1>3, StopLines
<1>4. CASE Step.routine = "write"
  BY <1>0, <1>1, <1>4, WriteLines
<1>5. CASE Step.routine = "read"
  BY <1>0, <1>1, <1>5, ReadLines
<1> QED BY <1>1, <1>2, <1>3, <1>4, <1>5, RoutineOne

LEMMA OutLines ==
  ASSUME MpuTypes, At("shift out")
  PROVE  /\ Busy
         /\ \/ On("write", 1, Op("shift out"))
<1>1. Busy /\ Here.op = "shift out"
  BY LineIs DEF At
<1>0. Wait8.op = "wait uint8_t" /\ Wait32.op = "wait unsigned long"
  BY LineIs
<1>2. CASE Step.routine = "start"
  BY <1>0, <1>1, <1>2, StartLines
<1>3. CASE Step.routine = "stop"
  BY <1>0, <1>1, <1>3, StopLines
<1>4. CASE Step.routine = "write"
  BY <1>0, <1>1, <1>4, WriteLines
<1>5. CASE Step.routine = "read"
  BY <1>0, <1>1, <1>5, ReadLines
<1> QED BY <1>1, <1>2, <1>3, <1>4, <1>5, RoutineOne

LEMMA InLines ==
  ASSUME MpuTypes, At("shift in")
  PROVE  /\ Busy
         /\ \/ On("read", 4, Op("shift in"))
<1>1. Busy /\ Here.op = "shift in"
  BY LineIs DEF At
<1>0. Wait8.op = "wait uint8_t" /\ Wait32.op = "wait unsigned long"
  BY LineIs
<1>2. CASE Step.routine = "start"
  BY <1>0, <1>1, <1>2, StartLines
<1>3. CASE Step.routine = "stop"
  BY <1>0, <1>1, <1>3, StopLines
<1>4. CASE Step.routine = "write"
  BY <1>0, <1>1, <1>4, WriteLines
<1>5. CASE Step.routine = "read"
  BY <1>0, <1>1, <1>5, ReadLines
<1> QED BY <1>1, <1>2, <1>3, <1>4, <1>5, RoutineOne

LEMMA AckLines ==
  ASSUME MpuTypes, At("ack")
  PROVE  /\ Busy
         /\ \/ On("write", 7, Op("ack"))
<1>1. Busy /\ Here.op = "ack"
  BY LineIs DEF At
<1>0. Wait8.op = "wait uint8_t" /\ Wait32.op = "wait unsigned long"
  BY LineIs
<1>2. CASE Step.routine = "start"
  BY <1>0, <1>1, <1>2, StartLines
<1>3. CASE Step.routine = "stop"
  BY <1>0, <1>1, <1>3, StopLines
<1>4. CASE Step.routine = "write"
  BY <1>0, <1>1, <1>4, WriteLines
<1>5. CASE Step.routine = "read"
  BY <1>0, <1>1, <1>5, ReadLines
<1> QED BY <1>1, <1>2, <1>3, <1>4, <1>5, RoutineOne

LEMMA SendAckLines ==
  ASSUME MpuTypes, At("send_ack")
  PROVE  /\ Busy
         /\ \/ On("read", 6, Op("send_ack"))
<1>1. Busy /\ Here.op = "send_ack"
  BY LineIs DEF At
<1>0. Wait8.op = "wait uint8_t" /\ Wait32.op = "wait unsigned long"
  BY LineIs
<1>2. CASE Step.routine = "start"
  BY <1>0, <1>1, <1>2, StartLines
<1>3. CASE Step.routine = "stop"
  BY <1>0, <1>1, <1>3, StopLines
<1>4. CASE Step.routine = "write"
  BY <1>0, <1>1, <1>4, WriteLines
<1>5. CASE Step.routine = "read"
  BY <1>0, <1>1, <1>5, ReadLines
<1> QED BY <1>1, <1>2, <1>3, <1>4, <1>5, RoutineOne

LEMMA WaitLines ==
  ASSUME MpuTypes, At(Wait8.op) \/ At(Wait32.op)
  PROVE  /\ Busy
         /\ \/ On("start", 3, Wait8)
            \/ On("stop", 3, Wait8)
            \/ On("write", 3, Wait32)
            \/ On("write", 8, Wait32)
            \/ On("read", 3, Wait8)
            \/ On("read", 8, Wait8)
<1>1. Busy /\ (Here.op = "wait uint8_t" \/ Here.op = "wait unsigned long")
  BY LineIs DEF At
<1>0. Wait8.op = "wait uint8_t" /\ Wait32.op = "wait unsigned long"
  BY LineIs
<1>2. CASE Step.routine = "start"
  BY <1>0, <1>1, <1>2, StartLines
<1>3. CASE Step.routine = "stop"
  BY <1>0, <1>1, <1>3, StopLines
<1>4. CASE Step.routine = "write"
  BY <1>0, <1>1, <1>4, WriteLines
<1>5. CASE Step.routine = "read"
  BY <1>0, <1>1, <1>5, ReadLines
<1> QED BY <1>1, <1>2, <1>3, <1>4, <1>5, RoutineOne

LEMMA ReturnLines ==
  ASSUME MpuTypes, At("return")
  PROVE  /\ Busy
         /\ \/ On("start", 6, Return)
            \/ On("stop", 5, Return)
            \/ On("write", 10, Return)
            \/ On("read", 10, Return)
<1>1. Busy /\ Here.op = "return"
  BY LineIs DEF At
<1>0. Wait8.op = "wait uint8_t" /\ Wait32.op = "wait unsigned long"
  BY LineIs
<1>2. CASE Step.routine = "start"
  BY <1>0, <1>1, <1>2, StartLines
<1>3. CASE Step.routine = "stop"
  BY <1>0, <1>1, <1>3, StopLines
<1>4. CASE Step.routine = "write"
  BY <1>0, <1>1, <1>4, WriteLines
<1>5. CASE Step.routine = "read"
  BY <1>0, <1>1, <1>5, ReadLines
<1> QED BY <1>1, <1>2, <1>3, <1>4, <1>5, RoutineOne

-----------------------------------------------------------------------------
(* What the sensor's operators do to its fields. *)
LEMMA ChipIs ==
  ASSUME NEW m \in ChipSet
  PROVE  /\ m.mode \in Modes /\ m.stage \in Stages /\ m.ptr \in RegNos
         /\ m.n \in 0 .. Bits /\ m.data \in Nat /\ m.sda \in {0, 1}
         /\ m.hold \in BOOLEAN /\ m.here \in BOOLEAN
  BY DEF ChipSet

LEMMA ListeningIs ==
  ASSUME NEW m \in ChipSet
  PROVE  LET w == Listening(m)
         IN  /\ w \in ChipSet
             /\ w.mode = "receive" /\ w.n = 0 /\ w.data = 0 /\ w.sda = 1
             /\ w.stage = m.stage /\ w.ptr = m.ptr
             /\ w.hold = m.hold /\ w.here = m.here
<1>1. 0 \in 0 .. Bits /\ 0 \in Nat /\ 1 \in {0, 1} /\ "receive" \in Modes
  BY ByteSizes DEF Modes
<1> QED BY <1>1 DEF Listening, ChipSet

LEMMA SendBitIs ==
  ASSUME NEW m \in ChipSet, NEW d \in Byte, NEW n \in 0 .. Bits - 1
  PROVE  LET w == SendBit(m, d, n)
         IN  /\ w \in ChipSet
             /\ w.mode = "send" /\ w.n = n + 1 /\ w.data = ShiftedOut(d)
             /\ w.sda = FirstBit(d)
             /\ w.stage = m.stage /\ w.ptr = m.ptr
             /\ w.hold = m.hold /\ w.here = m.here
<1>1. FirstBit(d) \in {0, 1} /\ ShiftedOut(d) \in Nat /\ n + 1 \in 0 .. Bits
  BY ShiftIs, ByteIs, ByteSizes
<1> QED BY <1>1 DEF SendBit, ChipSet, Modes

LEMMA SendFromIs ==
  ASSUME MpuTypes, NEW m \in ChipSet, NEW r \in RegNos
  PROVE  LET w == SendFrom(m, r)
         IN  /\ w \in ChipSet
             /\ w.mode = "send" /\ w.n = 1 /\ w.data = ShiftedOut(regs[r])
             /\ w.sda = FirstBit(regs[r])
             /\ w.stage = m.stage /\ w.ptr = r
             /\ w.hold = m.hold /\ w.here = m.here
<1> DEFINE v == [m EXCEPT !.ptr = r]
           zero == 0
<1>1. /\ v \in ChipSet /\ v.ptr = r
      /\ v.stage = m.stage /\ v.hold = m.hold /\ v.here = m.here
  BY DEF ChipSet
<1>2. regs[r] \in Byte /\ zero \in 0 .. Bits - 1 /\ zero + 1 = 1
  BY ByteSizes DEF MpuTypes
<1>3. SendFrom(m, r) = SendBit(v, regs[r], zero)
  BY DEF SendFrom
<1> HIDE DEF v, zero
<1> QED BY <1>1, <1>2, <1>3, SendBitIs

LEMMA AcknowledgeIs ==
  ASSUME NEW m \in ChipSet, NEW s \in Stages
  PROVE  LET w == Acknowledge(m, s)
         IN  /\ w \in ChipSet
             /\ w.mode = "acknowledge" /\ w.sda = 0 /\ w.stage = s
             /\ w.n = m.n /\ w.data = m.data /\ w.ptr = m.ptr
             /\ w.hold = m.hold /\ w.here = m.here
  BY DEF Acknowledge, ChipSet, Modes

LEMMA ByteInIs ==
  ASSUME NEW m \in ChipSet
  PROVE  LET w == ByteIn(m)
         IN  /\ w \in ChipSet /\ w.mode \in {"acknowledge", "idle"}
             /\ w.hold = m.hold /\ w.here = m.here
             /\ m.stage = "register" =>
                  /\ w.mode = "acknowledge" /\ w.sda = 0 /\ w.stage = "data"
                  /\ w.ptr = m.data % Registers
             /\ m.stage = "data" =>
                  /\ w.mode = "acknowledge" /\ w.sda = 0 /\ w.stage = "data"
                  /\ w.ptr = m.ptr
             /\ m.stage = "address" /\ m.here /\ m.data = ADDR_W =>
                  /\ w.mode = "acknowledge" /\ w.sda = 0
                  /\ w.stage = "register" /\ w.ptr = m.ptr
             /\ m.stage = "address" /\ m.here /\ m.data = ADDR_W + 1 =>
                  /\ w.mode = "acknowledge" /\ w.sda = 0
                  /\ w.stage = "read" /\ w.ptr = m.ptr
             /\ m.stage = "address" /\ ~m.here =>
                  w.mode = "idle" /\ w.sda = m.sda /\ w.ptr = m.ptr
<1>0. {"register", "data", "read"} \subseteq Stages
  BY DEF Stages
<1>1. CASE m.stage = "register"
  <2> DEFINE v == [m EXCEPT !.ptr = m.data % Registers]
  <2>1. m.data % Registers \in RegNos
    BY ChipIs, ByteSizes, ModHas DEF RegNos
  <2>2. /\ v \in ChipSet /\ v.ptr = m.data % Registers
        /\ v.hold = m.hold /\ v.here = m.here
    BY <2>1 DEF ChipSet
  <2>3. ByteIn(m) = Acknowledge(v, "data")
    BY <1>1 DEF ByteIn
  <2> HIDE DEF v
  <2> DEFINE w == ByteIn(m)
             r == m.data % Registers
  <2> HIDE DEF w, r
  <2>6. w = Acknowledge(v, "data") /\ v \in ChipSet /\ v.ptr = r
    BY <2>2, <2>3 DEF w, r
  <2>7. /\ w \in ChipSet /\ w.mode = "acknowledge" /\ w.sda = 0
        /\ w.stage = "data" /\ w.ptr = r
        /\ w.hold = v.hold /\ w.here = v.here
    BY <1>0, <2>6, AcknowledgeIs
  <2>4. /\ w \in ChipSet /\ w.mode = "acknowledge" /\ w.sda = 0
        /\ w.stage = "data" /\ w.ptr = m.data % Registers
        /\ w.hold = m.hold /\ w.here = m.here
    BY <2>2, <2>7 DEF r
  <2>5. /\ w.mode \in {"acknowledge", "idle"}
        /\ m.stage # "data" /\ m.stage # "address"
    BY <1>1, <2>4
  <2> QED BY <2>4, <2>5 DEF w
<1>2. CASE m.stage = "data"
  <2>1. ByteIn(m) = Acknowledge(m, "data")
    BY <1>2 DEF ByteIn
  <2> QED BY <1>0, <1>2, <2>1, AcknowledgeIs
<1>3. CASE m.stage \notin {"register", "data"} /\ m.here /\ m.data = ADDR_W
  <2>1. ByteIn(m) = Acknowledge(m, "register") /\ ADDR_W # ADDR_W + 1
    BY <1>3, ByteSizes DEF ByteIn
  <2> DEFINE w == ByteIn(m)
             next == ADDR_W + 1
  <2>2. /\ w \in ChipSet /\ w.mode = "acknowledge" /\ w.sda = 0
        /\ w.stage = "register" /\ w.ptr = m.ptr
        /\ w.hold = m.hold /\ w.here = m.here
    BY <1>0, <2>1, AcknowledgeIs
  <2> HIDE DEF w
  <2>3. w.mode \in {"acknowledge", "idle"} /\ ADDR_W # next /\ m.here = TRUE
    BY <1>3, <2>1, <2>2, ChipIs
  <2>4. /\ m.stage # "register" /\ m.stage # "data"
        /\ m.data = ADDR_W
    BY <1>3
  <2> HIDE DEF next
  <2> QED BY <2>2, <2>3, <2>4 DEF w, next
<1>4. CASE m.stage \notin {"register", "data"} /\ m.here /\ m.data = ADDR_W + 1
  <2>1. ByteIn(m) = Acknowledge(m, "read") /\ ADDR_W # ADDR_W + 1
    BY <1>4, ByteSizes DEF ByteIn
  <2> DEFINE w == ByteIn(m)
             next == ADDR_W + 1
  <2>2. /\ w \in ChipSet /\ w.mode = "acknowledge" /\ w.sda = 0
        /\ w.stage = "read" /\ w.ptr = m.ptr
        /\ w.hold = m.hold /\ w.here = m.here
    BY <1>0, <2>1, AcknowledgeIs
  <2> HIDE DEF w
  <2>3. w.mode \in {"acknowledge", "idle"} /\ ADDR_W # next /\ m.here = TRUE
    BY <1>4, <2>1, <2>2, ChipIs
  <2>4. /\ m.stage # "register" /\ m.stage # "data"
        /\ m.data = next
    BY <1>4
  <2> HIDE DEF next
  <2> QED BY <2>2, <2>3, <2>4 DEF w, next
<1>5. CASE /\ m.stage \notin {"register", "data"}
           /\ ~ (m.here /\ m.data = ADDR_W)
           /\ ~ (m.here /\ m.data = ADDR_W + 1)
  <2>1. ByteIn(m) = [m EXCEPT !.mode = "idle"]
    BY <1>5 DEF ByteIn
  <2> QED BY <1>5, <2>1 DEF ChipSet, Modes
<1> QED BY <1>1, <1>2, <1>3, <1>4, <1>5

(* The clock falls. *)
LEMMA FallsIs ==
  ASSUME MpuTypes, NEW m \in ChipSet, m.mode = "send" => m.data \in Byte
  PROVE  LET w == Falls(m)
         IN  /\ w \in ChipSet /\ w.hold = m.hold /\ w.here = m.here
             /\ m.mode = "receive" /\ m.n = Bits => w = ByteIn(m)
             /\ m.mode = "receive" /\ m.n # Bits => w = m
             /\ m.mode = "acknowledge" /\ m.stage = "read" =>
                  w = SendFrom(m, m.ptr)
             /\ m.mode = "acknowledge" /\ m.stage # "read" => w = Listening(m)
             /\ m.mode = "send" /\ m.n # Bits => w = SendBit(m, m.data, m.n)
             /\ m.mode = "send" /\ m.n = Bits =>
                  /\ w.mode = "acked" /\ w.sda = 1
                  /\ w.ptr = m.ptr
             /\ m.mode = "more" => w = SendFrom(m, (m.ptr + 1) % Registers)
             /\ m.mode \in {"idle", "acked"} => w = m
<1>0. m.n \in 0 .. Bits /\ (m.n # Bits => m.n < Bits /\ m.n \in 0 .. Bits - 1)
  BY ChipIs, ByteSizes
<1>1. CASE m.mode = "receive" /\ m.n = Bits
  <2>1. Falls(m) = ByteIn(m)
    BY <1>1 DEF Falls
  <2> QED BY <1>1, <2>1, ByteInIs
<1>2. CASE m.mode = "receive" /\ m.n # Bits
  <2>1. Falls(m) = m
    BY <1>2 DEF Falls
  <2> QED BY <1>2, <2>1
<1>3. CASE m.mode = "acknowledge" /\ m.stage = "read"
  <2>1. Falls(m) = SendFrom(m, m.ptr) /\ m.ptr \in RegNos
    BY <1>3, ChipIs DEF Falls
  <2> QED BY <1>3, <2>1, SendFromIs
<1>4. CASE m.mode = "acknowledge" /\ m.stage # "read"
  <2>1. Falls(m) = Listening(m)
    BY <1>4 DEF Falls
  <2> QED BY <1>4, <2>1, ListeningIs
<1>5. CASE m.mode = "send" /\ m.n # Bits
  <2>1. Falls(m) = SendBit(m, m.data, m.n)
    BY <1>0, <1>5 DEF Falls
  <2> QED BY <1>0, <1>5, <2>1, SendBitIs
<1>6. CASE m.mode = "send" /\ m.n = Bits
  <2>1. Falls(m) = [m EXCEPT !.mode = "acked", !.sda = 1]
    BY <1>0, <1>6 DEF Falls
  <2> QED BY <1>6, <2>1 DEF ChipSet, Modes
<1>7. CASE m.mode = "more"
  <2>1. Falls(m) = SendFrom(m, (m.ptr + 1) % Registers)
    BY <1>7 DEF Falls
  <2>2. (m.ptr + 1) % Registers \in RegNos
    <3>1. m.ptr + 1 \in Nat
      BY ChipIs, ByteSizes DEF RegNos
    <3> QED BY <3>1, ByteSizes, ModHas DEF RegNos
  <2> QED BY <1>7, <2>1, <2>2, SendFromIs
<1>8. CASE m.mode \in {"idle", "acked"}
  <2>1. Falls(m) = m
    BY <1>8 DEF Falls
  <2> QED BY <1>8, <2>1
<1> QED BY <1>1, <1>2, <1>3, <1>4, <1>5, <1>6, <1>7, <1>8, ChipIs DEF Modes

(* The clock rises. *)
LEMMA RisesIs ==
  ASSUME NEW m \in ChipSet, NEW sda \in {0, 1},
         m.mode = "receive" => m.n < Bits
  PROVE  LET w == Rises(m, sda)
         IN  /\ w \in ChipSet /\ ~w.hold /\ w.here = m.here
             /\ w.stage = m.stage /\ w.ptr = m.ptr /\ w.sda = m.sda
             /\ m.mode = "receive" =>
                  /\ w.mode = "receive" /\ w.n = m.n + 1
                  /\ w.data = 2 * m.data + sda
             /\ m.mode # "receive" => w.n = m.n /\ w.data = m.data
             /\ m.mode = "acked" => w.mode = IF sda = 0 THEN "more" ELSE "idle"
             /\ m.mode \notin {"receive", "acked"} => w.mode = m.mode
<1>1. CASE m.mode = "receive"
  <2>1. /\ m.n + 1 \in 0 .. Bits /\ m.data \in Nat /\ 2 * m.data + sda \in Nat
        /\ m.n \in 0 .. Bits
    BY <1>1, ChipIs, ByteSizes
  <2>2. Rises(m, sda) = [m EXCEPT !.hold = FALSE, !.n = m.n + 1,
                                  !.data = 2 * m.data + sda]
    BY <1>1 DEF Rises, ShiftedIn
  <2> QED BY <1>1, <2>1, <2>2 DEF ChipSet
<1>2. CASE m.mode = "acked"
  <2>1. Rises(m, sda) = [m EXCEPT !.hold = FALSE,
                                  !.mode = IF sda = 0 THEN "more" ELSE "idle"]
    BY <1>2 DEF Rises
  <2> QED BY <1>2, <2>1 DEF ChipSet, Modes
<1>3. CASE m.mode \notin {"receive", "acked"}
  <2>1. Rises(m, sda) = [m EXCEPT !.hold = FALSE]
    BY <1>3 DEF Rises
  <2> QED BY <1>3, <2>1 DEF ChipSet
<1> QED BY <1>1, <1>2, <1>3

-----------------------------------------------------------------------------
(* The lines, and what a change of them does. *)
LEMMA Signals ==
  ASSUME MpuTypes
  PROVE  /\ SDA \in {0, 1} /\ SCL \in {0, 1}
         /\ SCL = 1 <=> out.scl = 1 /\ ~chip.hold
         /\ SDA = 1 <=> out.sda = 1 /\ chip.sda = 1
         /\ out.sda \in {0, 1} /\ out.scl \in {0, 1}
         /\ chip \in ChipSet
         /\ chip.mode = "receive" /\ SCL = 0 => chip.n < Bits
         /\ chip.mode = "send" => chip.data \in Byte
         /\ SCL = IF chip.hold THEN 0 ELSE out.scl
<1>1. out.sda \in {0, 1} /\ out.scl \in {0, 1} /\ chip \in ChipSet
  BY DEF MpuTypes
<1>2. chip.sda \in {0, 1} /\ chip.hold \in BOOLEAN
  BY <1>1, ChipIs
<1>3. /\ chip.mode = "receive" /\ SCL = 0 => chip.n < Bits
      /\ chip.mode = "send" => chip.data \in Byte
  BY DEF MpuTypes, ChipOK
<1> QED BY <1>1, <1>2, <1>3 DEF SDA, SCL, Both

LEMMA BothIs ==
  ASSUME NEW a \in {0, 1}, NEW b \in {0, 1}
  PROVE  Both(a, b) \in {0, 1} /\ (Both(a, b) = 1 <=> a = 1 /\ b = 1)
  BY DEF Both

LEMMA Quietly ==
  ASSUME NEW sda, NEW scl, Reacts(sda, scl),
         \/ SCL = 0 /\ scl = 0
         \/ SCL = 1 /\ scl = 1 /\ SDA = sda
  PROVE  UNCHANGED <<chip, regs, acks>>
<1>1. chip' = chip
  BY DEF Reacts
<1>2. regs' = regs
  BY DEF Reacts
<1>3. acks' = acks
  BY <1>1 DEF Reacts
<1> QED BY <1>1, <1>2, <1>3

LEMMA StartEdge ==
  ASSUME MpuTypes, Reacts(0, 1), SCL = 1, SDA = 1
  PROVE  /\ chip' \in ChipSet /\ regs' = regs /\ acks' = acks
         /\ chip'.mode = "receive" /\ chip'.stage = "address" /\ chip'.n = 0
         /\ chip'.data = 0 /\ chip'.sda = 1 /\ chip'.ptr = chip.ptr
         /\ chip'.hold = chip.hold /\ chip'.here = chip.here
<1> DEFINE w == Listening(chip)
<1>1. chip' = [w EXCEPT !.stage = "address"]
  BY DEF Reacts
<1>2. /\ w \in ChipSet /\ w.mode = "receive" /\ w.n = 0 /\ w.data = 0
      /\ w.sda = 1 /\ w.ptr = chip.ptr /\ w.hold = chip.hold
      /\ w.here = chip.here
  BY ListeningIs, Signals
<1> HIDE DEF w
<1>3. /\ chip' \in ChipSet
      /\ chip'.mode = "receive" /\ chip'.stage = "address" /\ chip'.n = 0
      /\ chip'.data = 0 /\ chip'.sda = 1 /\ chip'.ptr = chip.ptr
      /\ chip'.hold = chip.hold /\ chip'.here = chip.here
  BY <1>1, <1>2 DEF ChipSet, Stages
<1>4. regs' = regs
  BY DEF Reacts
<1>5. acks' = acks
  BY <1>3 DEF Reacts
<1> QED BY <1>3, <1>4, <1>5

LEMMA StopEdge ==
  ASSUME MpuTypes, Reacts(1, 1), SCL = 1, SDA = 0
  PROVE  /\ chip' \in ChipSet /\ regs' = regs /\ acks' = acks
         /\ chip'.mode = "idle" /\ chip'.sda = 1
         /\ chip'.hold = chip.hold /\ chip'.here = chip.here
<1>1. chip' = [chip EXCEPT !.mode = "idle", !.sda = 1]
  BY DEF Reacts
<1>2. /\ chip' \in ChipSet /\ chip'.mode = "idle" /\ chip'.sda = 1
      /\ chip'.hold = chip.hold /\ chip'.here = chip.here
  BY <1>1, Signals DEF ChipSet, Modes
<1>3. regs' = regs
  BY DEF Reacts
<1>4. acks' = acks
  BY <1>2 DEF Reacts
<1> QED BY <1>2, <1>3, <1>4

LEMMA RisingEdge ==
  ASSUME MpuTypes, NEW sda \in {0, 1}, Reacts(sda, 1), SCL = 0
  PROVE  /\ chip' = Rises(chip, sda) /\ chip' \in ChipSet
         /\ regs' = regs /\ acks' = acks
<1>1. chip' = Rises(chip, sda)
  BY DEF Reacts
<1>2. /\ chip' \in ChipSet
      /\ chip'.mode = "acknowledge" => chip.mode = "acknowledge"
  <2>1. /\ Rises(chip, sda) \in ChipSet
        /\ chip.mode = "receive" => Rises(chip, sda).mode = "receive"
        /\ chip.mode = "acked" => Rises(chip, sda).mode \in {"more", "idle"}
        /\ chip.mode \notin {"receive", "acked"} =>
             Rises(chip, sda).mode = chip.mode
    BY Signals, RisesIs
  <2> QED BY <1>1, <2>1
<1>3. regs' = regs
  BY DEF Reacts
<1>4. acks' = acks
  BY <1>2 DEF Reacts
<1> QED BY <1>1, <1>2, <1>3, <1>4

LEMMA FallingEdge ==
  ASSUME MpuTypes, NEW sda \in {0, 1}, Reacts(sda, 0), SCL = 1
  PROVE  /\ chip' = Falls(chip) /\ chip' \in ChipSet
         /\ chip'.hold = chip.hold /\ chip'.here = chip.here
         /\ regs' = IF Stores(chip)
                    THEN [regs EXCEPT ![chip.ptr] = chip.data]
                    ELSE regs
         /\ acks' = IF chip'.mode = "acknowledge" /\ chip.mode # "acknowledge"
                    THEN acks + 1
                    ELSE acks
<1>1. chip' = Falls(chip)
  BY DEF Reacts
<1>2. /\ chip' \in ChipSet /\ chip'.hold = chip.hold /\ chip'.here = chip.here
  BY <1>1, FallsIs, Signals
<1> QED BY <1>1, <1>2 DEF Reacts

-----------------------------------------------------------------------------
(* Types. *)
DataOK(m, scl) ==
  /\ m.mode = "receive" => m.data < Pow[m.n] /\ (scl = 0 => m.n < Bits)
  /\ m.mode = "send" => m.data \in Byte

LEMMA StoredIs ==
  ASSUME MpuTypes
  PROVE  /\ chip.mode = "receive" => chip.data < Pow[chip.n]
         /\ Stores(chip) => chip.data \in Byte
  BY Signals, ChipIs, ByteIs DEF MpuTypes, ChipOK, Stores

LEMMA ReactsType ==
  ASSUME MpuTypes, NEW sda \in {0, 1}, NEW scl \in {0, 1}, Reacts(sda, scl)
  PROVE  /\ chip' \in ChipSet /\ regs' \in [RegNos -> Byte] /\ acks' \in Int
         /\ DataOK(chip', scl)
         /\ chip'.here = chip.here
         /\ chip'.hold <=> chip.hold /\ ~ (SCL = 0 /\ scl = 1)
<1>0. /\ SCL \in {0, 1} /\ SDA \in {0, 1} /\ chip \in ChipSet
      /\ regs \in [RegNos -> Byte] /\ acks \in Int
  BY Signals DEF MpuTypes
<1>1. CASE SCL = 1 /\ scl = 1 /\ SDA = 1 /\ sda = 0
  <2>1. /\ chip' \in ChipSet /\ regs' = regs /\ acks' = acks
        /\ chip'.mode = "receive" /\ chip'.n = 0 /\ chip'.data = 0
        /\ chip'.hold = chip.hold /\ chip'.here = chip.here
    BY <1>1, StartEdge
  <2>2. Pow[chip'.n] = 1 /\ chip'.data < 1
    BY <2>1, ByteSizes
  <2>3. DataOK(chip', scl)
    BY <1>1, <2>1, <2>2 DEF DataOK
  <2> QED BY <1>0, <1>1, <2>1, <2>3
<1>2. CASE SCL = 1 /\ scl = 1 /\ SDA = 0 /\ sda = 1
  <2>1. /\ chip' \in ChipSet /\ regs' = regs /\ acks' = acks
        /\ chip'.mode = "idle"
        /\ chip'.hold = chip.hold /\ chip'.here = chip.here
    BY <1>2, StopEdge
  <2>2. DataOK(chip', scl)
    BY <2>1 DEF DataOK
  <2> QED BY <1>0, <1>2, <2>1, <2>2
<1>3. CASE SCL = 1 /\ scl = 0
  <2>1. /\ chip' = Falls(chip) /\ chip' \in ChipSet
        /\ chip'.hold = chip.hold /\ chip'.here = chip.here
        /\ regs' = IF Stores(chip)
                   THEN [regs EXCEPT ![chip.ptr] = chip.data]
                   ELSE regs
        /\ acks' = IF chip'.mode = "acknowledge" /\ chip.mode # "acknowledge"
                   THEN acks + 1
                   ELSE acks
    BY <1>3, FallingEdge
  <2>2. regs' \in [RegNos -> Byte]
    BY <1>0, <2>1, StoredIs
  <2>3. acks' \in Int
    BY <1>0, <2>1
  <2>4. ASSUME chip'.mode = "receive"
        PROVE  chip'.data < Pow[chip'.n] /\ chip'.n < Bits
    <3>1. CASE chip.mode = "receive" /\ chip.n # Bits
      <4>1. chip' = chip /\ chip.n \in 0 .. Bits /\ Bits \in Nat
        BY <1>0, <2>1, <3>1, FallsIs, Signals, ChipIs, ByteSizes
      <4> QED BY <3>1, <4>1, StoredIs
    <3>2. CASE chip.mode = "acknowledge" /\ chip.stage # "read"
      <4>1. chip'.data = 0 /\ chip'.n = 0
        BY <1>0, <2>1, <3>2, FallsIs, Signals, ListeningIs
      <4> QED BY <4>1, ByteSizes
    <3>3. CASE /\ ~ (chip.mode = "receive" /\ chip.n # Bits)
               /\ ~ (chip.mode = "acknowledge" /\ chip.stage # "read")
      <4>1. CASE chip.mode = "receive" /\ chip.n = Bits
        BY <1>0, <2>1, <2>4, <4>1, FallsIs, Signals, ByteInIs
      <4>2. CASE chip.mode = "acknowledge" /\ chip.stage = "read"
        BY <1>0, <2>1, <2>4, <4>2, FallsIs, Signals, SendFromIs, ChipIs
      <4>3. CASE chip.mode = "send" /\ chip.n # Bits
        <5>1. chip.n \in 0 .. Bits - 1
          BY <1>0, <4>3, ChipIs, ByteSizes
        <5> QED BY <1>0, <2>1, <2>4, <4>3, <5>1, FallsIs, Signals, SendBitIs
      <4>4. CASE chip.mode = "send" /\ chip.n = Bits
        BY <1>0, <2>1, <2>4, <4>4, FallsIs, Signals
      <4>5. CASE chip.mode = "more"
        <5>1. (chip.ptr + 1) % Registers \in RegNos
          <6>1. chip.ptr + 1 \in Nat
            BY <1>0, ChipIs, ByteSizes DEF RegNos
          <6> QED BY <6>1, ByteSizes, ModHas DEF RegNos
        <5> QED BY <1>0, <2>1, <2>4, <4>5, <5>1, FallsIs, Signals, SendFromIs
      <4>6. CASE chip.mode \in {"idle", "acked"}
        BY <1>0, <2>1, <2>4, <4>6, FallsIs, Signals
      <4> QED BY <1>0, <3>3, <4>1, <4>2, <4>3, <4>4, <4>5, <4>6,
             ChipIs DEF Modes
    <3> QED BY <3>1, <3>2, <3>3
  <2>5. ASSUME chip'.mode = "send"
        PROVE  chip'.data \in Byte
    <3>1. CASE chip.mode = "acknowledge" /\ chip.stage = "read"
      <4>1. chip.ptr \in RegNos
        BY <1>0, ChipIs
      <4> QED BY <1>0, <2>1, <3>1, <4>1, FallsIs, Signals, SendFromIs, ShiftIs
    <3>2. CASE chip.mode = "send" /\ chip.n # Bits
      <4>1. chip.n \in 0 .. Bits - 1 /\ chip.data \in Byte
        BY <1>0, <3>2, ChipIs, ByteSizes, Signals
      <4> QED BY <1>0, <2>1, <3>2, <4>1, FallsIs, Signals, SendBitIs, ShiftIs
    <3>3. CASE chip.mode = "more"
      <4>1. (chip.ptr + 1) % Registers \in RegNos
        <5>1. chip.ptr + 1 \in Nat
          BY <1>0, ChipIs, ByteSizes DEF RegNos
        <5> QED BY <5>1, ByteSizes, ModHas DEF RegNos
      <4> QED BY <1>0, <2>1, <3>3, <4>1, FallsIs, Signals, SendFromIs, ShiftIs
    <3>4. CASE chip.mode = "receive" /\ chip.n = Bits
      BY <1>0, <2>1, <2>5, <3>4, FallsIs, Signals, ByteInIs
    <3>5. CASE chip.mode = "receive" /\ chip.n # Bits
      BY <1>0, <2>1, <2>5, <3>5, FallsIs, Signals
    <3>6. CASE chip.mode = "acknowledge" /\ chip.stage # "read"
      BY <1>0, <2>1, <2>5, <3>6, FallsIs, Signals, ListeningIs
    <3>7. CASE \/ chip.mode = "send" /\ chip.n = Bits
               \/ chip.mode \in {"idle", "acked"}
      BY <1>0, <2>1, <2>5, <3>7, FallsIs, Signals
    <3> QED BY <1>0, <3>1, <3>2, <3>3, <3>4, <3>5, <3>6, <3>7, ChipIs DEF Modes
  <2>6. DataOK(chip', scl)
    BY <2>4, <2>5 DEF DataOK
  <2> QED BY <1>3, <2>1, <2>2, <2>3, <2>6
<1>4. CASE SCL = 0 /\ scl = 1
  <2>1. /\ chip' = Rises(chip, sda) /\ chip' \in ChipSet
        /\ regs' = regs /\ acks' = acks
    BY <1>4, RisingEdge
  <2>2. /\ ~chip'.hold /\ chip'.here = chip.here
        /\ chip.mode = "receive" =>
             /\ chip'.mode = "receive" /\ chip'.n = chip.n + 1
             /\ chip'.data = 2 * chip.data + sda
        /\ chip.mode # "receive" => chip'.data = chip.data
        /\ chip.mode = "acked" =>
             chip'.mode = IF sda = 0 THEN "more" ELSE "idle"
        /\ chip.mode \notin {"receive", "acked"} => chip'.mode = chip.mode
    BY <1>4, <2>1, RisesIs, Signals
  <2>3. ASSUME chip.mode = "receive"
        PROVE  chip'.data < Pow[chip'.n]
    <3>1. /\ chip.n \in 0 .. Bits - 1 /\ chip.n \in 0 .. Bits
          /\ chip.data \in Nat
      BY <1>0, <1>4, <2>3, Signals, ChipIs, ByteSizes
    <3>2. /\ Pow[chip.n + 1] = 2 * Pow[chip.n] /\ Pow[chip.n] \in Nat
          /\ chip.data < Pow[chip.n]
      BY <2>3, <3>1, PowIs, PowPositive, StoredIs
    <3> DEFINE p == Pow[chip.n]
               d == chip.data
    <3>3. p \in Nat /\ d \in Nat /\ d < p
      BY <3>1, <3>2
    <3> HIDE DEF p, d
    <3>4. 2 * d + sda < 2 * p
      BY <3>3
    <3> QED BY <2>2, <2>3, <3>2, <3>4 DEF p, d
  <2>4. DataOK(chip', scl)
    <3>1. CASE chip.mode = "receive"
      BY <1>4, <2>2, <2>3, <3>1 DEF DataOK
    <3>2. CASE chip.mode = "acked"
      BY <2>2, <3>2 DEF DataOK
    <3>3. CASE chip.mode \notin {"receive", "acked"}
      BY <2>2, <3>3, Signals DEF DataOK
    <3> QED BY <3>1, <3>2, <3>3
  <2> QED BY <1>0, <1>4, <2>1, <2>2, <2>4
<1>5. CASE (SCL = 0 /\ scl = 0) \/ (SCL = 1 /\ scl = 1 /\ SDA = sda)
  <2>1. chip' = chip /\ regs' = regs /\ acks' = acks
    BY <1>5, Quietly
  <2>2. DataOK(chip', scl)
    BY <1>5, <2>1, StoredIs, Signals DEF DataOK
  <2> QED BY <1>0, <1>5, <2>1, <2>2
<1> QED BY <1>0, <1>1, <1>2, <1>3, <1>4, <1>5

(* A step of a call leaves it what it is. *)
LEMMA SameCall ==
  ASSUME MpuTypes, call' = call
  PROVE  /\ Busy' = Busy /\ Step' = Step
         /\ call' \in CallSet /\ CallOK' /\ BufferOK'
  BY DEF MpuTypes, Busy, Step, CallOK, BufferOK

LEMMA NotLast ==
  ASSUME MpuTypes, Busy
  PROVE  /\ frame.line \in Nat /\ Len(Lines[Step.routine]) \in Nat
         /\ frame.line \in 1 .. Len(Lines[Step.routine])
         /\ Here.op # "return" => frame.line < Len(Lines[Step.routine])
<1>1. CASE Step.routine = "start"
  <2>1. Len(Lines[Step.routine]) = 6
    BY <1>1, StartLines
  <2>2. frame.line \in 1 .. 6
    BY <2>1 DEF MpuTypes, FrameOK
  <2>3. frame.line = 6 => Here.op = "return"
    BY <1>1, StartLines DEF On
  <2> QED BY <2>1, <2>2, <2>3
<1>2. CASE Step.routine = "stop"
  <2>1. Len(Lines[Step.routine]) = 5
    BY <1>2, StopLines
  <2>2. frame.line \in 1 .. 5
    BY <2>1 DEF MpuTypes, FrameOK
  <2>3. frame.line = 5 => Here.op = "return"
    BY <1>2, StopLines DEF On
  <2> QED BY <2>1, <2>2, <2>3
<1>3. CASE Step.routine = "write"
  <2>1. Len(Lines[Step.routine]) = 10
    BY <1>3, WriteLines
  <2>2. frame.line \in 1 .. 10
    BY <2>1 DEF MpuTypes, FrameOK
  <2>3. frame.line = 10 => Here.op = "return"
    BY <1>3, WriteLines DEF On
  <2> QED BY <2>1, <2>2, <2>3
<1>4. CASE Step.routine = "read"
  <2>1. Len(Lines[Step.routine]) = 10
    BY <1>4, ReadLines
  <2>2. frame.line \in 1 .. 10
    BY <2>1 DEF MpuTypes, FrameOK
  <2>3. frame.line = 10 => Here.op = "return"
    BY <1>4, ReadLines DEF On
  <2> QED BY <2>1, <2>2, <2>3
<1> QED BY <1>1, <1>2, <1>3, <1>4, RoutineOne

(* On to the next line. *)
LEMMA GoesOn ==
  ASSUME MpuTypes, Busy, Here.op # "return", call' = call,
         frame' \in FrameSet, frame'.line = frame.line + 1, frame'.i = frame.i
  PROVE  FrameOK'
<1>1. /\ frame'.line \in 1 .. Len(Lines[Step.routine])
      /\ frame.line \in Nat /\ frame.line >= 1
  BY NotLast
<1>2. Step' = Step
  BY SameCall
<1>3. /\ Step.routine = "write" /\ frame'.line <= 4 => frame'.i < Bits
      /\ Step.routine = "read" /\ frame'.line <= 5 => frame'.i < Bits
  BY <1>1 DEF MpuTypes, FrameOK
<1> QED BY <1>1, <1>2, <1>3 DEF FrameOK

LEMMA OnIs ==
  ASSUME MpuTypes, GoOn
  PROVE  /\ frame' \in FrameSet /\ frame'.line = frame.line + 1
         /\ frame'.i = frame.i /\ frame'.c = frame.c /\ frame'.ack = frame.ack
<1>1. frame \in FrameSet /\ frame.line \in Nat /\ frame.line + 1 \in Nat
  BY DEF MpuTypes, FrameSet
<1> QED BY <1>1 DEF GoOn, FrameSet

LEMMA FrameIs ==
  ASSUME MpuTypes
  PROVE  /\ frame \in FrameSet /\ frame.line \in Nat /\ frame.i \in 0 .. Bits
         /\ frame.c \in Nat /\ frame.ack \in {0, 1}
  BY DEF MpuTypes, FrameSet

(* SCL after a reaction. *)
LEMMA ChipOKAfter ==
  ASSUME NEW scl, SCL' = scl, DataOK(chip', scl)
  PROVE  ChipOK'
  BY DEF ChipOK, DataOK

LEMMA PutsSda ==
  ASSUME MpuTypes, NEW v \in {0, 1}, PutSda(v)
  PROVE  /\ out' \in [sda : {0, 1}, scl : {0, 1}]
         /\ out'.sda = v /\ out'.scl = out.scl
         /\ Both(v, chip.sda) \in {0, 1}
         /\ Reacts(Both(v, chip.sda), SCL)
         /\ chip'.hold = chip.hold /\ chip'.here = chip.here
         /\ SCL' = SCL
         /\ call' = call /\ calls' = calls /\ gave' = gave
<1>1. /\ out' = [out EXCEPT !.sda = v] /\ Reacts(Both(v, chip.sda), SCL)
      /\ call' = call /\ calls' = calls /\ gave' = gave
  BY DEF PutSda
<1>2. /\ out' \in [sda : {0, 1}, scl : {0, 1}]
      /\ out'.sda = v /\ out'.scl = out.scl
  BY <1>1 DEF MpuTypes
<1>3. Both(v, chip.sda) \in {0, 1} /\ SCL \in {0, 1}
  BY BothIs, Signals, ChipIs
<1>4. /\ chip' \in ChipSet /\ chip'.here = chip.here
      /\ chip'.hold <=> chip.hold /\ ~ (SCL = 0 /\ SCL = 1)
  BY <1>1, <1>3, ReactsType
<1>5. chip'.hold = chip.hold
  BY <1>4, Signals, ChipIs
<1>6. SCL' = SCL
  BY <1>2, <1>5 DEF SCL
<1> QED BY <1>1, <1>2, <1>3, <1>4, <1>5, <1>6

LEMMA PutTypes ==
  ASSUME MpuTypes, Busy, Here.op # "return", NEW v \in {0, 1}, PutSda(v),
         frame' \in FrameSet, frame'.line = frame.line + 1, frame'.i = frame.i
  PROVE  MpuTypes'
<1>1. /\ out' \in [sda : {0, 1}, scl : {0, 1}]
      /\ Both(v, chip.sda) \in {0, 1} /\ Reacts(Both(v, chip.sda), SCL)
      /\ SCL' = SCL /\ SCL \in {0, 1}
      /\ call' = call /\ calls' = calls /\ gave' = gave
  BY PutsSda, Signals
<1>2. /\ chip' \in ChipSet /\ regs' \in [RegNos -> Byte] /\ acks' \in Int
      /\ DataOK(chip', SCL)
  BY <1>1, ReactsType
<1>3. ChipOK'
  BY <1>1, <1>2, ChipOKAfter
<1>4. FrameOK'
  BY <1>1, GoesOn
<1>5. call' \in CallSet /\ CallOK' /\ BufferOK'
  BY <1>1, SameCall
<1>6. calls' \in 0 .. MaxCalls /\ gave' \in BOOLEAN
  BY <1>1 DEF MpuTypes
<1> QED BY <1>1, <1>2, <1>3, <1>4, <1>5, <1>6 DEF MpuTypes

LEMMA SetSdaTypes ==
  ASSUME MpuTypes, SetSda
  PROVE  MpuTypes'
<1>1. Busy /\ Here.op = "sda" /\ PutSda(Here.arg) /\ GoOn
  BY DEF SetSda, At
<1>2. Here.arg \in {0, 1}
  BY SdaLines, LineIs DEF On, SetSda
<1> QED BY <1>1, <1>2, OnIs, PutTypes

LEMMA ShiftsOut ==
  ASSUME MpuTypes, ShiftOut
  PROVE  /\ frame' \in FrameSet /\ frame'.line = frame.line + 1
         /\ frame'.i = frame.i /\ frame'.c = ShiftedOut(frame.c)
         /\ frame'.ack = frame.ack
<1>1. ShiftedOut(frame.c) \in Nat /\ frame.line + 1 \in Nat
  <2>1. 2 * frame.c \in Nat /\ Pow[Bits] \in Nat \ {0}
    BY FrameIs, ByteSizes
  <2>2. (2 * frame.c) % Pow[Bits] \in Nat
    BY <2>1
  <2> QED BY <2>2, FrameIs DEF ShiftedOut
<1> QED BY <1>1, FrameIs DEF ShiftOut, FrameSet

LEMMA SendAckTypes ==
  ASSUME MpuTypes, SendAck
  PROVE  MpuTypes'
<1> DEFINE v == IF Step.send_ack THEN 0 ELSE out.sda
<1>1. Busy /\ Here.op = "send_ack" /\ PutSda(v) /\ GoOn
  BY DEF SendAck, At
<1>2. v \in {0, 1}
  BY Signals
<1> QED BY <1>1, <1>2, OnIs, PutTypes
LEMMA ShiftOutTypes ==
  ASSUME MpuTypes, ShiftOut
  PROVE  MpuTypes'
<1>1. Busy /\ Here.op = "shift out" /\ PutSda(FirstBit(frame.c))
  BY DEF ShiftOut, At
<1>2. FirstBit(frame.c) \in {0, 1}
  BY DEF FirstBit
<1> QED BY <1>1, <1>2, ShiftsOut, PutTypes

LEMMA SclArgs ==
  ASSUME MpuTypes, At("scl")
  PROVE  /\ Busy /\ Here.arg \in {0, 1}
         /\ Here.back # 0 =>
              \/ On("write", 4, LoopTo(1)) /\ Here.back = 1
              \/ On("read", 5, LoopTo(2)) /\ Here.back = 2
<1>1. /\ Scl(0).arg = 0 /\ Scl(0).back = 0 /\ Scl(1).arg = 1 /\ Scl(1).back = 0
      /\ LoopTo(1).arg = 0 /\ LoopTo(1).back = 1
      /\ LoopTo(2).arg = 0 /\ LoopTo(2).back = 2
  BY DEF Scl, LoopTo, Line
<1>2. Busy /\ \/ Here = Scl(0) \/ Here = Scl(1)
              \/ On("write", 4, LoopTo(1)) \/ On("read", 5, LoopTo(2))
  BY SclLines DEF On
<1>3. CASE Here = Scl(0) \/ Here = Scl(1)
  BY <1>1, <1>2, <1>3
<1>4. CASE On("write", 4, LoopTo(1))
  BY <1>1, <1>2, <1>4 DEF On
<1>5. CASE On("read", 5, LoopTo(2))
  BY <1>1, <1>2, <1>5 DEF On
<1> QED BY <1>2, <1>3, <1>4, <1>5

(* The clock line. *)
LEMMA SetsScl ==
  ASSUME MpuTypes, SetScl
  PROVE  LET scl == IF chip.hold THEN 0 ELSE Here.arg
         IN  /\ Busy /\ Here.op = "scl" /\ Here.arg \in {0, 1}
             /\ scl \in {0, 1}
             /\ out' \in [sda : {0, 1}, scl : {0, 1}]
             /\ out'.scl = Here.arg /\ out'.sda = out.sda
             /\ Reacts(SDA, scl) /\ SDA \in {0, 1}
             /\ chip'.hold = chip.hold /\ chip'.here = chip.here
             /\ SCL' = scl
             /\ call' = call /\ calls' = calls /\ gave' = gave
<1> DEFINE scl == IF chip.hold THEN 0 ELSE Here.arg
<1>1. /\ Busy /\ Here.op = "scl" /\ out' = [out EXCEPT !.scl = Here.arg]
      /\ Reacts(SDA, scl) /\ call' = call /\ calls' = calls /\ gave' = gave
  BY DEF SetScl, At
<1>2. Here.arg \in {0, 1}
  BY SclArgs DEF SetScl
<1>3. scl \in {0, 1} /\ SDA \in {0, 1} /\ SCL \in {0, 1}
  BY <1>2, Signals
<1>4. /\ out' \in [sda : {0, 1}, scl : {0, 1}]
      /\ out'.scl = Here.arg /\ out'.sda = out.sda
  BY <1>1, <1>2 DEF MpuTypes
<1>5. /\ chip' \in ChipSet /\ chip'.here = chip.here
      /\ chip'.hold <=> chip.hold /\ ~ (SCL = 0 /\ scl = 1)
  <2> HIDE DEF scl
  <2> QED BY <1>1, <1>3, ReactsType
<1>6. chip.hold \in BOOLEAN /\ chip'.hold \in BOOLEAN
  BY <1>5, Signals, ChipIs
<1>7. chip'.hold = chip.hold
  BY <1>2, <1>5, <1>6
<1>8. SCL' = scl
  BY <1>4, <1>7 DEF SCL
<1> QED BY <1>1, <1>2, <1>3, <1>4, <1>5, <1>7, <1>8

(* The line after one that drives the clock, and the loop. *)
LEMMA SclFrame ==
  ASSUME MpuTypes, SetScl
  PROVE  /\ frame' \in FrameSet
         /\ frame'.c = frame.c /\ frame'.ack = frame.ack
         /\ Here.back = 0 => frame'.line = frame.line + 1 /\ frame'.i = frame.i
         /\ Here.back # 0 =>
              /\ frame'.i = frame.i + 1
              /\ frame'.line = IF frame.i + 1 < Bits THEN Here.back
                               ELSE frame.line + 1
<1>1. CASE Here.back = 0
  <2>1. GoOn
    BY <1>1 DEF SetScl
  <2> QED BY <1>1, <2>1, OnIs
<1>2. CASE Here.back # 0
  <2>1. /\ Here.back \in Nat
        /\ \/ On("write", 4, LoopTo(1)) \/ On("read", 5, LoopTo(2))
    BY <1>2, SclArgs DEF SetScl
  <2>2. Here.back \in Nat
    BY <2>1
  <2>3. frame.i + 1 \in 0 .. Bits
    <3>1. frame.i < Bits
      <4>1. Busy
        BY DEF SetScl, At
      <4> QED BY <2>1, <4>1 DEF On, MpuTypes, FrameOK
    <3> QED BY <3>1, FrameIs, ByteSizes
  <2>4. frame' = [frame EXCEPT
            !.i = @ + 1,
            !.line = IF frame.i + 1 < Bits THEN Here.back ELSE @ + 1]
    BY <1>2 DEF SetScl
  <2>5. frame.line + 1 \in Nat
    BY FrameIs
  <2> QED BY <1>2, <2>2, <2>3, <2>4, <2>5, FrameIs DEF FrameSet
<1> QED BY <1>1, <1>2

LEMMA SetSclTypes ==
  ASSUME MpuTypes, SetScl
  PROVE  MpuTypes'
<1> DEFINE scl == IF chip.hold THEN 0 ELSE Here.arg
<1>1. /\ Busy /\ Here.op = "scl" /\ scl \in {0, 1}
      /\ out' \in [sda : {0, 1}, scl : {0, 1}]
      /\ Reacts(SDA, scl) /\ SDA \in {0, 1}
      /\ SCL' = scl
      /\ call' = call /\ calls' = calls /\ gave' = gave
  BY SetsScl
<1>2. /\ chip' \in ChipSet /\ regs' \in [RegNos -> Byte] /\ acks' \in Int
      /\ DataOK(chip', scl)
  <2> HIDE DEF scl
  <2> QED BY <1>1, ReactsType
<1>3. ChipOK'
  BY <1>1, <1>2, ChipOKAfter
<1>4. FrameOK'
  <2>1. CASE Here.back = 0
    BY <1>1, <2>1, SclFrame, GoesOn
  <2>2. CASE Here.back # 0
    <3>1. \/ On("write", 4, LoopTo(1)) /\ Here.back = 1
          \/ On("read", 5, LoopTo(2)) /\ Here.back = 2
      BY <2>2, SclArgs DEF SetScl
    <3>2. Step' = Step /\ Busy' = Busy
      BY <1>1, SameCall
    <3>3. /\ frame'.i = frame.i + 1 /\ frame.i \in Nat /\ Bits \in Nat
          /\ frame'.line = IF frame.i + 1 < Bits THEN Here.back
                           ELSE frame.line + 1
      BY <2>2, SclFrame, FrameIs, ByteSizes
    <3>4. CASE On("write", 4, LoopTo(1)) /\ Here.back = 1
      <4>1. Step.routine = "write" /\ frame.line = 4
        BY <3>4 DEF On
      <4>2. Len(Lines[Step.routine]) = 10
        BY <1>1, <4>1, WriteLines
      <4>3. frame'.line = IF frame.i + 1 < Bits THEN 1 ELSE 5
        BY <3>3, <3>4, <4>1
      <4> QED BY <3>2, <3>3, <4>1, <4>2, <4>3 DEF FrameOK
    <3>5. CASE On("read", 5, LoopTo(2)) /\ Here.back = 2
      <4>1. Step.routine = "read" /\ frame.line = 5
        BY <3>5 DEF On
      <4>2. Len(Lines[Step.routine]) = 10
        BY <1>1, <4>1, ReadLines
      <4>3. frame'.line = IF frame.i + 1 < Bits THEN 2 ELSE 6
        BY <3>3, <3>5, <4>1
      <4> QED BY <3>2, <3>3, <4>1, <4>2, <4>3 DEF FrameOK
    <3> QED BY <3>1, <3>4, <3>5
  <2> QED BY <2>1, <2>2
<1>5. call' \in CallSet /\ CallOK' /\ BufferOK'
  BY <1>1, SameCall
<1>6. calls' \in 0 .. MaxCalls /\ gave' \in BOOLEAN
  BY <1>1 DEF MpuTypes
<1>7. frame' \in FrameSet
  BY SclFrame
<1> QED BY <1>1, <1>2, <1>3, <1>4, <1>5, <1>6, <1>7 DEF MpuTypes

(* The sensor does nothing in a step of the processor alone. *)
LEMMA StillTypes ==
  ASSUME MpuTypes, UNCHANGED <<calls, out, chip, regs>>,
         acks' \in Int, gave' \in BOOLEAN, frame' \in FrameSet, FrameOK',
         call' \in CallSet, CallOK', BufferOK'
  PROVE  MpuTypes'
<1>1. ChipOK'
  BY DEF MpuTypes, ChipOK, SCL
<1> QED BY <1>1 DEF MpuTypes

LEMMA ClockIsHighTypes ==
  ASSUME MpuTypes, ClockIsHigh
  PROVE  MpuTypes'
<1>1. /\ Busy /\ Here.op # "return" /\ GoOn
      /\ UNCHANGED <<call, calls, out, chip, regs, acks, gave>>
  BY LineIs DEF ClockIsHigh, At
<1>2. frame' \in FrameSet /\ FrameOK'
  BY <1>1, OnIs, GoesOn
<1>3. call' \in CallSet /\ CallOK' /\ BufferOK'
  BY <1>1, SameCall
<1>4. acks' \in Int /\ gave' \in BOOLEAN
  BY <1>1 DEF MpuTypes
<1> QED BY <1>1, <1>2, <1>3, <1>4, StillTypes

LEMMA GiveUpTypes ==
  ASSUME MpuTypes, GiveUp
  PROVE  MpuTypes' /\ gave' = TRUE
<1>1. /\ Busy /\ Here.op # "return" /\ gave' = TRUE
      /\ UNCHANGED <<call, calls, out, chip, regs, acks>>
  BY LineIs DEF GiveUp, Ends, At
<1>2. frame' \in FrameSet /\ FrameOK'
  <2>1. CASE Step.routine = "stop"
    <3>1. GoOn
      BY <2>1 DEF GiveUp
    <3> QED BY <1>1, <3>1, OnIs, GoesOn
  <2>2. CASE Step.routine # "stop"
    <3> DEFINE n == Len(Lines[Step.routine])
    <3>1. frame' = [frame EXCEPT !.line = n, !.c = 1, !.ack = 1]
      BY <2>2 DEF GiveUp
    <3>2. n \in Nat /\ n \in 1 .. n
      BY <1>1, NotLast
    <3>3. /\ Step.routine = "write" => n = 10
          /\ Step.routine = "read" => n = 10
      BY <1>1, WriteLines, ReadLines
    <3> HIDE DEF n
    <3>4. frame' \in FrameSet /\ frame'.line = n
      BY <3>1, <3>2, FrameIs DEF FrameSet
    <3>5. Step' = Step
      BY <1>1, SameCall
    <3>6. Lines[Step'.routine] = Lines[Step.routine]
      BY <3>5
    <3>7. FrameOK'
      <4>1. frame'.line \in 1 .. Len(Lines[Step'.routine])
        BY <3>2, <3>4, <3>6 DEF n
      <4>2. /\ Step'.routine = "write" => ~ (frame'.line <= 4)
            /\ Step'.routine = "read" => ~ (frame'.line <= 5)
        BY <3>3, <3>4, <3>5
      <4> QED BY <4>1, <4>2 DEF FrameOK
    <3> QED BY <3>4, <3>7
  <2> QED BY <2>1, <2>2
<1>3. call' \in CallSet /\ CallOK' /\ BufferOK'
  BY <1>1, SameCall
<1>4. acks' \in Int /\ gave' \in BOOLEAN
  BY <1>1 DEF MpuTypes
<1> QED BY <1>1, <1>2, <1>3, <1>4, StillTypes

LEMMA ShiftInTypes ==
  ASSUME MpuTypes, ShiftIn
  PROVE  /\ MpuTypes'
         /\ frame'.line = frame.line + 1 /\ frame'.c = 2 * frame.c + SDA
         /\ frame'.i = frame.i /\ frame'.ack = frame.ack
         /\ UNCHANGED <<call, calls, out, chip, regs, acks>>
<1>1. /\ Busy /\ Here.op # "return"
      /\ UNCHANGED <<call, calls, out, chip, regs, acks, gave>>
      /\ frame' = [frame EXCEPT !.line = @ + 1, !.c = 2 * @ + SDA]
  BY DEF ShiftIn, At, ShiftedIn
<1>2. 2 * frame.c + SDA \in Nat /\ frame.line + 1 \in Nat
  BY FrameIs, Signals
<1>3. /\ frame' \in FrameSet
      /\ frame'.line = frame.line + 1 /\ frame'.c = 2 * frame.c + SDA
      /\ frame'.i = frame.i /\ frame'.ack = frame.ack
  BY <1>1, <1>2, FrameIs DEF FrameSet
<1>4. FrameOK'
  BY <1>1, <1>3, GoesOn
<1>5. call' \in CallSet /\ CallOK' /\ BufferOK'
  BY <1>1, SameCall
<1>6. acks' \in Int /\ gave' \in BOOLEAN
  BY <1>1 DEF MpuTypes
<1> QED BY <1>1, <1>3, <1>4, <1>5, <1>6, StillTypes

LEMMA GetAckTypes ==
  ASSUME MpuTypes, GetAck
  PROVE  /\ MpuTypes'
         /\ frame'.line = frame.line + 1 /\ frame'.ack = 1 - SDA
         /\ frame'.i = frame.i /\ frame'.c = frame.c
<1>1. /\ Busy /\ Here.op # "return"
      /\ UNCHANGED <<call, calls, out, chip, regs, acks, gave>>
      /\ frame' = [frame EXCEPT !.line = @ + 1, !.ack = 1 - SDA]
  BY DEF GetAck, At
<1>2. 1 - SDA \in {0, 1} /\ frame.line + 1 \in Nat
  BY FrameIs, Signals
<1>3. /\ frame' \in FrameSet
      /\ frame'.line = frame.line + 1 /\ frame'.ack = 1 - SDA
      /\ frame'.i = frame.i /\ frame'.c = frame.c
  BY <1>1, <1>2, FrameIs DEF FrameSet
<1>4. FrameOK'
  BY <1>1, <1>3, GoesOn
<1>5. call' \in CallSet /\ CallOK' /\ BufferOK'
  BY <1>1, SameCall
<1>6. acks' \in Int /\ gave' \in BOOLEAN
  BY <1>1 DEF MpuTypes
<1> QED BY <1>1, <1>3, <1>4, <1>5, <1>6, StillTypes

LEMMA HoldTypes ==
  ASSUME MpuTypes, Hold
  PROVE  /\ MpuTypes'
         /\ chip' = [chip EXCEPT !.hold = TRUE]
         /\ out.scl = 0
         /\ UNCHANGED <<call, frame, calls, out, regs, acks, gave>>
<1>1. /\ chip' = [chip EXCEPT !.hold = TRUE] /\ out.scl = 0 /\ ~chip.hold
      /\ UNCHANGED <<call, frame, calls, out, regs, acks, gave>>
  BY DEF Hold
<1>2. /\ chip' \in ChipSet /\ chip'.hold /\ chip'.mode = chip.mode
      /\ chip'.data = chip.data /\ chip'.n = chip.n
  BY <1>1, Signals DEF ChipSet
<1>3. SCL = 0 /\ SCL' = 0
  BY <1>1, <1>2 DEF SCL
<1>4. ChipOK'
  BY <1>2, <1>3 DEF MpuTypes, ChipOK
<1>5. call' \in CallSet /\ CallOK' /\ BufferOK' /\ Step' = Step /\ Busy' = Busy
  BY <1>1, SameCall
<1>6. FrameOK'
  BY <1>1, <1>5 DEF MpuTypes, FrameOK
<1> QED BY <1>1, <1>2, <1>4, <1>5, <1>6 DEF MpuTypes

LEMMA LetGoTypes ==
  ASSUME MpuTypes, LetGo
  PROVE  /\ MpuTypes'
         /\ UNCHANGED <<call, frame, calls, out, gave>>
<1>1. chip.hold /\ UNCHANGED <<call, frame, calls, out, gave>>
  BY DEF LetGo
<1>2. /\ chip' \in ChipSet /\ regs' \in [RegNos -> Byte] /\ acks' \in Int
      /\ ChipOK'
  <2>1. CASE out.scl = 1
    <3> DEFINE one == 1
    <3>1. Reacts(SDA, one) /\ SDA \in {0, 1} /\ one \in {0, 1} /\ SCL = 0
      BY <1>1, <2>1, Signals DEF LetGo, SCL
    <3> HIDE DEF one
    <3>2. /\ chip' \in ChipSet /\ regs' \in [RegNos -> Byte] /\ acks' \in Int
          /\ DataOK(chip', one)
          /\ chip'.hold <=> chip.hold /\ ~ (SCL = 0 /\ one = 1)
      BY <3>1, ReactsType
    <3>3. SCL' = one
      BY <1>1, <2>1, <3>1, <3>2 DEF SCL, one
    <3> QED BY <3>2, <3>3, ChipOKAfter
  <2>2. CASE out.scl # 1
    <3>1. /\ chip' = [chip EXCEPT !.hold = FALSE] /\ UNCHANGED <<regs, acks>>
      BY <2>2 DEF LetGo
    <3>2. /\ chip' \in ChipSet /\ ~chip'.hold /\ chip'.mode = chip.mode
          /\ chip'.data = chip.data /\ chip'.n = chip.n
      BY <3>1, Signals DEF ChipSet
    <3>3. SCL = 0 /\ SCL' = 0
      BY <1>1, <2>2, <3>2, Signals DEF SCL
    <3>4. ChipOK'
      BY <3>2, <3>3 DEF MpuTypes, ChipOK
    <3> QED BY <3>1, <3>2, <3>4 DEF MpuTypes
  <2> QED BY <2>1, <2>2
<1>3. call' \in CallSet /\ CallOK' /\ BufferOK' /\ Step' = Step /\ Busy' = Busy
  BY <1>1, SameCall
<1>4. FrameOK'
  BY <1>1, <1>3 DEF MpuTypes, FrameOK
<1> QED BY <1>1, <1>2, <1>3, <1>4 DEF MpuTypes

LEMMA LinesLen == \A r \in Routines : Len(Lines[r]) \in Nat \ {0}
<1>1. /\ Len(i2c_start) = 6 /\ Len(i2c_stop) = 5
      /\ Len(i2c_write) = 10 /\ Len(i2c_read) = 10
  BY DEF i2c_start, i2c_stop, i2c_write, i2c_read
<1> QED BY <1>1 DEF Lines, Routines

(* A routine begins at its first line. *)
LEMMA FirstLine ==
  ASSUME call' \in CallSet, CallOK', frame'.line = 1, frame'.i = 0
  PROVE  FrameOK'
<1> SUFFICES ASSUME Busy' PROVE FrameOK'
  BY DEF FrameOK
<1>1. call'.at \in 1 .. Len(call'.steps) /\ call'.steps \in Seq(StepSet)
  BY DEF Busy, CallOK, CallSet
<1>2. Step' \in StepSet
  BY <1>1 DEF Step
<1>3. Len(Lines[Step'.routine]) \in Nat \ {0}
  BY <1>2, LinesLen DEF StepSet
<1>4. 1 \in 1 .. Len(Lines[Step'.routine]) /\ 0 < Bits
  BY <1>3, ByteSizes
<1> QED BY <1>4 DEF FrameOK

LEMMA FramesIs ==
  ASSUME NEW c \in Nat
  PROVE  /\ Frame(c) \in FrameSet /\ Frame(c).line = 1 /\ Frame(c).i = 0
         /\ Frame(c).c = c /\ Frame(c).ack = 0
<1>1. 0 \in 0 .. Bits /\ 1 \in Nat
  BY ByteSizes
<1> QED BY <1>1 DEF Frame, FrameSet

(* The caller's place after a return. *)
Ok == Step.routine = "write" => frame.ack = 1
NextAt == IF Ok THEN call.at + 1 ELSE Len(call.steps)

LEMMA ReturnIs ==
  ASSUME MpuTypes, Returns
  PROVE  /\ Busy /\ Here.op = "return"
         /\ call.at \in Nat /\ Len(call.steps) \in Nat
         /\ call.at \in 1 .. Len(call.steps)
         /\ NextAt \in 2 .. Len(call.steps) + 1
         /\ call' \in CallSet
         /\ call'.at = NextAt
         /\ call'.steps = call.steps /\ call'.kind = call.kind
         /\ call'.reg = call.reg /\ call'.arg = call.arg
         /\ call'.ret = IF Ok /\ NextAt = Len(call.steps) THEN 1 ELSE call.ret
         /\ call'.buffer = IF Step.routine = "read"
                           THEN Append(call.buffer, frame.c) ELSE call.buffer
         /\ frame' = Frame(IF NextAt <= Len(call.steps)
                           THEN call.steps[NextAt].c ELSE 0)
         /\ frame' \in FrameSet /\ frame'.line = 1 /\ frame'.i = 0
         /\ frame'.ack = 0
         /\ frame'.c = IF NextAt <= Len(call.steps)
                       THEN call.steps[NextAt].c ELSE 0
         /\ acks' = IF Step.routine = "write" THEN acks - frame.ack ELSE acks
         /\ UNCHANGED <<calls, out, chip, regs, gave>>
<1>1. /\ Busy /\ Here.op = "return"
      /\ call' = [call EXCEPT
           !.at = NextAt,
           !.ret = IF Ok /\ NextAt = Len(call.steps) THEN 1 ELSE @,
           !.buffer = IF Step.routine = "read" THEN Append(@, frame.c) ELSE @]
      /\ frame' = Frame(IF NextAt <= Len(call.steps)
                        THEN call.steps[NextAt].c ELSE 0)
      /\ acks' = IF Step.routine = "write" THEN acks - frame.ack ELSE acks
      /\ UNCHANGED <<calls, out, chip, regs, gave>>
  BY DEF Returns, Ok, NextAt, At
<1>2. /\ call \in CallSet /\ call.at \in Nat /\ Len(call.steps) \in Nat
      /\ call.steps \in Seq(StepSet) /\ call.buffer \in Seq(Nat)
      /\ frame.c \in Nat /\ call.ret \in {0, 1}
  BY FrameIs DEF MpuTypes, CallSet
<1>3. call.at \in 1 .. Len(call.steps) /\ Len(call.steps) >= 5
  <2>1. call.kind = "read" => call.arg \in Nat
    BY DEF MpuTypes, CallSet
  <2>2. /\ call.at \in 1 .. Len(call.steps)
        /\ \/ call.kind = "write" /\ Len(call.steps) = 5
           \/ call.kind = "read" /\ Len(call.steps) = call.arg + 6
    BY <1>1, StepIs
  <2>3. CASE call.kind = "write" /\ Len(call.steps) = 5
    BY <2>2, <2>3
  <2>4. CASE call.kind = "read" /\ Len(call.steps) = call.arg + 6
    <3>1. call.arg + 6 >= 5
      BY <2>1, <2>4
    <3> QED BY <2>2, <2>4, <3>1
  <2> QED BY <2>2, <2>3, <2>4
<1>4. NextAt \in 2 .. Len(call.steps) + 1
  BY <1>2, <1>3 DEF NextAt
<1>5. /\ NextAt \in Nat
      /\ NextAt <= Len(call.steps) => NextAt \in 1 .. Len(call.steps)
  BY <1>2, <1>4
<1>6. (IF NextAt <= Len(call.steps) THEN call.steps[NextAt].c ELSE 0) \in Nat
  <2>1. \A k \in 1 .. Len(call.steps) : call.steps[k] \in StepSet
    BY <1>2
  <2>2. ASSUME NextAt <= Len(call.steps) PROVE call.steps[NextAt].c \in Nat
    BY <1>5, <2>1, <2>2 DEF StepSet
  <2> QED BY <2>2
<1> DEFINE ret == IF Ok /\ NextAt = Len(call.steps) THEN 1 ELSE call.ret
           sofar == IF Step.routine = "read"
                     THEN Append(call.buffer, frame.c) ELSE call.buffer
<1>7. ret \in {0, 1} /\ sofar \in Seq(Nat)
  BY <1>2
<1>8. call' = [call EXCEPT !.at = NextAt, !.ret = ret, !.buffer = sofar]
  BY <1>1
<1> HIDE DEF ret, sofar
<1>9. /\ call' \in CallSet
      /\ call'.at = NextAt
      /\ call'.steps = call.steps /\ call'.kind = call.kind
      /\ call'.reg = call.reg /\ call'.arg = call.arg
      /\ call'.ret = ret /\ call'.buffer = sofar
  BY <1>2, <1>5, <1>7, <1>8 DEF CallSet
<1> DEFINE c == IF NextAt <= Len(call.steps) THEN call.steps[NextAt].c ELSE 0
<1>10. c \in Nat /\ frame' = Frame(c)
  BY <1>1, <1>6
<1> HIDE DEF c
<1>11. /\ frame' \in FrameSet /\ frame'.line = 1 /\ frame'.i = 0
       /\ frame'.c = c /\ frame'.ack = 0
  BY <1>10, FramesIs
<1> QED BY <1>1, <1>2, <1>3, <1>4, <1>9, <1>11 DEF ret, sofar, c

LEMMA ReturnsTypes ==
  ASSUME MpuTypes, Returns
  PROVE  MpuTypes'
<1>0. /\ call.at \in Nat /\ call.arg \in Nat /\ Len(call.steps) \in Nat
      /\ Len(call.buffer) \in Nat
  BY DEF MpuTypes, CallSet
<1>1. CallOK'
  BY ReturnIs DEF MpuTypes, CallOK
<1>2. FrameOK'
  BY <1>1, ReturnIs, FirstLine
<1>3. BufferOK'
  <2>1. ASSUME Step.routine # "read"
        PROVE  call'.buffer = call.buffer
    BY <2>1, ReturnIs
  <2>2. CASE call.kind # "read"
    <3>1. Step.routine # "read"
      BY <2>2, ReturnIs, RoutineIs
    <3> QED BY <2>1, <2>2, <3>1, ReturnIs DEF MpuTypes, BufferOK
  <2>3. CASE call.kind = "read"
    <3>0. /\ Len(call.steps) = call.arg + 6
          /\ call.at <= 5 => Len(call.buffer) = 0
          /\ call.at \in 6 .. call.arg + 5 => Len(call.buffer) = call.at - 6
          /\ Len(call.buffer) <= call.arg
      BY <2>3, ReturnIs, StepIs DEF MpuTypes, BufferOK
    <3>1. CASE Step.routine = "read"
      <4>1. call.at \in 6 .. call.arg + 5
        BY <3>1, ReturnIs, RoutineIs
      <4>2. Len(call'.buffer) = call.at - 5
        <5>1. call'.buffer = Append(call.buffer, frame.c)
          BY <3>1, ReturnIs
        <5>2. Len(call'.buffer) = Len(call.buffer) + 1
          BY <5>1, FrameIs DEF MpuTypes, CallSet
        <5> QED BY <1>0, <3>0, <4>1, <5>2
      <4>3. call'.at = call.at + 1
        BY <3>1, ReturnIs DEF NextAt, Ok
      <4> DEFINE n == Len(call'.buffer)
                 a == call'.at
      <4>4. n = call.at - 5 /\ a = call.at + 1
        BY <4>2, <4>3
      <4> HIDE DEF n, a
      <4>5. /\ ~ (a <= 5) /\ n <= call.arg
            /\ a \in 6 .. call.arg + 5 => n = a - 6
        BY <1>0, <4>1, <4>4
      <4> QED BY <2>3, <4>5, ReturnIs DEF BufferOK, n, a
    <3>2. CASE Step.routine # "read"
      <4>1. call'.buffer = call.buffer
        BY <2>1, <3>2
      <4>2. ~ (call.at \in 6 .. call.arg + 5)
        <5>1. ASSUME call.at \in 6 .. call.arg + 5 PROVE FALSE
          <6>1. Step = Reads(call.at - 5 < call.arg)
            BY <2>3, <5>1, ReturnIs, StepIs
          <6> QED BY <3>2, <6>1 DEF Reads, Calls
        <5> QED BY <5>1
      <4>3. call'.at = call.at + 1 \/ call'.at = Len(call.steps)
        BY ReturnIs DEF NextAt
      <4> DEFINE n == Len(call.buffer)
                 a == call'.at
      <4>4. a = call.at + 1 \/ a = call.arg + 6
        BY <3>0, <4>3
      <4>6. call.at \in 1 .. call.arg + 6 /\ n \in Nat
        BY <3>0, ReturnIs, <1>0
      <4>7. (call.at <= 5 => n = 0) /\ n <= call.arg
        BY <3>0
      <4> HIDE DEF n, a
      <4>5. /\ a <= 5 => n = 0
            /\ a \in 6 .. call.arg + 5 => n = a - 6
        BY <1>0, <4>2, <4>4, <4>6, <4>7, SMTT(30)
      <4> QED BY <2>3, <4>1, <4>5, <4>7, ReturnIs DEF BufferOK, n, a
    <3> QED BY <3>1, <3>2
  <2> QED BY <2>2, <2>3
<1>4. acks' \in Int
  <2>1. acks \in Int /\ frame.ack \in {0, 1}
    BY FrameIs DEF MpuTypes
  <2> QED BY <2>1, ReturnIs
<1>5. gave' \in BOOLEAN
  BY ReturnIs DEF MpuTypes
<1> QED BY <1>1, <1>2, <1>3, <1>4, <1>5, ReturnIs, StillTypes

LEMMA CalledIs ==
  ASSUME NEW kind, NEW reg, NEW arg, NEW steps
  PROVE  LET c == Called(kind, reg, arg, steps)
         IN  /\ c.kind = kind /\ c.reg = reg /\ c.arg = arg
             /\ c.steps = steps /\ c.at = 1 /\ c.ret = 0 /\ c.buffer = << >>
             /\ kind \in Kinds /\ reg \in RegNos /\ arg \in Nat
                /\ steps \in Seq(StepSet) => c \in CallSet
  BY DEF Called, CallSet

LEMMA BeginTypes ==
  ASSUME MpuTypes, NEW c \in CallSet, Begin(c), calls < MaxCalls,
         c.at = 1, c.buffer = << >>, Len(c.steps) \in Nat,
         \/ /\ c.kind = "write" /\ c.steps = write_mpu_reg(c.reg, c.arg)
            /\ c.arg \in Byte
         \/ /\ c.kind = "read" /\ c.steps = read_mpu_reg_burst(c.reg, c.arg)
            /\ c.arg \in 1 .. Registers
  PROVE  MpuTypes'
<1>1. /\ call' = c /\ frame' = Frame(0) /\ calls' = calls + 1
      /\ UNCHANGED <<out, chip, regs, acks, gave>>
  BY DEF Begin
<1>2. frame' \in FrameSet /\ frame'.line = 1 /\ frame'.i = 0
  <2> DEFINE zero == 0
  <2>1. zero \in Nat /\ frame' = Frame(zero)
    BY <1>1
  <2> HIDE DEF zero
  <2> QED BY <2>1, FramesIs
<1>3. call' \in CallSet /\ CallOK'
  BY <1>1 DEF CallOK
<1>4. FrameOK'
  BY <1>2, <1>3, FirstLine
<1>5. BufferOK'
  <2>1. Len(c.buffer) = 0
    OBVIOUS
  <2>2. c.kind = "read" => 0 <= c.arg /\ ~ (1 \in 6 .. c.arg + 5)
    BY ByteSizes
  <2> QED BY <1>1, <2>1, <2>2 DEF BufferOK
<1>6. ChipOK'
  BY <1>1 DEF MpuTypes, ChipOK, SCL
<1>7. calls' \in 0 .. MaxCalls
  <2>1. MaxCalls \in Nat
    BY MpuAssumption
  <2> QED BY <1>1, <2>1 DEF MpuTypes
<1> QED BY <1>1, <1>2, <1>3, <1>4, <1>5, <1>6, <1>7 DEF MpuTypes

LEMMA RegIsByte == RegNos \subseteq Byte /\ RegNos \subseteq Nat
<1>1. ASSUME NEW r \in RegNos PROVE r \in Byte /\ r \in Nat
  <2>1. r \in Nat /\ r < Pow[Bits]
    BY ByteSizes DEF RegNos
  <2> QED BY <2>1, ByteIs
<1> QED BY <1>1

LEMMA WriteIs ==
  ASSUME Write
  PROVE  \E r \in RegNos, v \in Byte :
           LET c == Called("write", r, v, write_mpu_reg(r, v))
           IN  /\ Begin(c) /\ c \in CallSet /\ c.at = 1 /\ c.buffer = << >>
               /\ c.ret = 0 /\ Len(c.steps) = 5 /\ c.kind = "write"
               /\ c.reg = r /\ c.arg = v
               /\ c.steps = write_mpu_reg(c.reg, c.arg)
<1>1. PICK r \in RegNos, v \in Byte :
        Begin(Called("write", r, v, write_mpu_reg(r, v)))
  BY DEF Write, RegNos
<1>2. r \in Nat /\ v \in Nat
  BY RegIsByte, ByteIs
<1> DEFINE s == write_mpu_reg(r, v)
           c == Called("write", r, v, s)
<1>3. s \in Seq(StepSet) /\ Len(s) = 5
  BY <1>2, WriteProgram
<1> HIDE DEF s
<1>4. /\ c.kind = "write" /\ c.reg = r /\ c.arg = v
      /\ c.steps = s /\ c.at = 1 /\ c.ret = 0 /\ c.buffer = << >>
      /\ c \in CallSet
  BY <1>2, <1>3, CalledIs DEF Kinds
<1> HIDE DEF c
<1>5. /\ Begin(c) /\ c \in CallSet /\ c.at = 1 /\ c.buffer = << >>
      /\ c.ret = 0 /\ Len(c.steps) = 5 /\ c.kind = "write"
      /\ c.reg = r /\ c.arg = v
      /\ c.steps = write_mpu_reg(c.reg, c.arg)
  BY <1>1, <1>3, <1>4 DEF c, s
<1> QED BY <1>5 DEF c, s

LEMMA ReadBurstIs ==
  ASSUME ReadBurst
  PROVE  \E r \in RegNos, n \in 1 .. Registers :
           LET c == Called("read", r, n, read_mpu_reg_burst(r, n))
           IN  /\ Begin(c) /\ c \in CallSet /\ c.at = 1 /\ c.buffer = << >>
               /\ c.ret = 0 /\ Len(c.steps) = n + 6 /\ c.kind = "read"
               /\ c.reg = r /\ c.arg = n
               /\ c.steps = read_mpu_reg_burst(c.reg, c.arg)
<1>1. PICK r \in RegNos, n \in 1 .. Registers :
        Begin(Called("read", r, n, read_mpu_reg_burst(r, n)))
  BY DEF ReadBurst, RegNos
<1>2. r \in Nat /\ n \in Nat
  BY RegIsByte
<1> DEFINE s == read_mpu_reg_burst(r, n)
           c == Called("read", r, n, s)
<1>3. s \in Seq(StepSet) /\ Len(s) = n + 6
  BY <1>2, ReadProgram
<1> HIDE DEF s
<1>4. /\ c.kind = "read" /\ c.reg = r /\ c.arg = n
      /\ c.steps = s /\ c.at = 1 /\ c.ret = 0 /\ c.buffer = << >>
      /\ c \in CallSet
  BY <1>2, <1>3, CalledIs DEF Kinds
<1> HIDE DEF c
<1>5. /\ Begin(c) /\ c \in CallSet /\ c.at = 1 /\ c.buffer = << >>
      /\ c.ret = 0 /\ Len(c.steps) = n + 6 /\ c.kind = "read"
      /\ c.reg = r /\ c.arg = n
      /\ c.steps = read_mpu_reg_burst(c.reg, c.arg)
  BY <1>1, <1>3, <1>4 DEF c, s
<1> QED BY <1>5 DEF c, s

LEMMA WriteTypes ==
  ASSUME MpuTypes, Write
  PROVE  MpuTypes'
<1>1. PICK r \in RegNos, v \in Byte :
        LET c == Called("write", r, v, write_mpu_reg(r, v))
        IN  /\ Begin(c) /\ c \in CallSet /\ c.at = 1 /\ c.buffer = << >>
            /\ Len(c.steps) = 5 /\ c.kind = "write" /\ c.arg = v
            /\ c.steps = write_mpu_reg(c.reg, c.arg)
  BY WriteIs
<1> DEFINE c == Called("write", r, v, write_mpu_reg(r, v))
<1>2. calls < MaxCalls
  BY <1>1 DEF Begin
<1>3. Len(c.steps) \in Nat
  BY <1>1
<1> HIDE DEF c
<1> QED BY <1>1, <1>2, <1>3, BeginTypes DEF c

LEMMA ReadBurstTypes ==
  ASSUME MpuTypes, ReadBurst
  PROVE  MpuTypes'
<1>1. PICK r \in RegNos, n \in 1 .. Registers :
        LET c == Called("read", r, n, read_mpu_reg_burst(r, n))
        IN  /\ Begin(c) /\ c \in CallSet /\ c.at = 1 /\ c.buffer = << >>
            /\ Len(c.steps) = n + 6 /\ c.kind = "read" /\ c.arg = n
            /\ c.steps = read_mpu_reg_burst(c.reg, c.arg)
  BY ReadBurstIs
<1> DEFINE c == Called("read", r, n, read_mpu_reg_burst(r, n))
<1>2. calls < MaxCalls
  BY <1>1 DEF Begin
<1>3. Len(c.steps) \in Nat
  BY <1>1
<1> HIDE DEF c
<1> QED BY <1>1, <1>2, <1>3, BeginTypes DEF c

LEMMA InitTypes ==
  ASSUME MpuInit
  PROVE  MpuTypes
<1>1. /\ call = Called("none", 0, 0, << >>) /\ frame = Frame(0)
      /\ calls = 0 /\ acks = 0 /\ gave = FALSE
      /\ regs \in [RegNos -> Byte]
      /\ out = [sda |-> 1, scl |-> 0]
  BY DEF MpuInit, RegNos
<1> DEFINE zero == 0
           none == << >>
<1>2. zero \in RegNos /\ zero \in Nat /\ none \in Seq(StepSet) /\ Len(none) = 0
  BY ByteSizes DEF RegNos
<1>3. call = Called("none", zero, zero, none) /\ frame = Frame(zero)
  BY <1>1
<1> HIDE DEF zero, none
<1>4. /\ call \in CallSet /\ call.kind = "none" /\ call.steps = none
      /\ call.at = 1 /\ call.buffer = << >>
  <2> DEFINE kind == "none"
  <2>1. kind \in Kinds
    BY DEF Kinds
  <2>2. call = Called(kind, zero, zero, none)
    BY <1>3
  <2> HIDE DEF kind
  <2> DEFINE c == Called(kind, zero, zero, none)
  <2>5. /\ c.kind = kind /\ c.steps = none /\ c.at = 1 /\ c.buffer = << >>
    BY CalledIs
  <2>6. c \in CallSet
    BY <1>2, <2>1, CalledIs
  <2>3. /\ c \in CallSet /\ c.kind = kind /\ c.steps = none
        /\ c.at = 1 /\ c.buffer = << >>
    BY <2>5, <2>6
  <2> HIDE DEF c
  <2>4. call = c
    BY <2>2 DEF c
  <2> QED BY <2>3, <2>4 DEF kind
<1>5. frame \in FrameSet
  BY <1>2, <1>3, FramesIs
<1>6. chip \in ChipSet /\ chip.mode = "idle" /\ ~chip.hold
  <2>1. Idle \in ChipSet /\ Idle.mode = "idle" /\ Idle.hold = FALSE
    <3>1. 0 \in RegNos /\ 0 \in 0 .. Bits
      BY ByteSizes DEF RegNos
    <3> QED BY <3>1 DEF Idle, ChipSet, Modes, Stages
  <2>2. (~MayBeMissing) \in BOOLEAN
    BY MpuAssumption
  <2>3. chip = Idle \/ chip = [Idle EXCEPT !.here = ~MayBeMissing]
    BY DEF MpuInit
  <2>4. [Idle EXCEPT !.here = ~MayBeMissing] \in ChipSet
    BY <2>1, <2>2 DEF ChipSet
  <2>5. /\ [Idle EXCEPT !.here = ~MayBeMissing].mode = "idle"
        /\ [Idle EXCEPT !.here = ~MayBeMissing].hold = FALSE
    BY <2>1 DEF ChipSet
  <2> QED BY <2>1, <2>3, <2>4, <2>5
<1>7. ChipOK
  BY <1>6 DEF ChipOK
<1>8. Len(call.steps) = 0 /\ Len(call.buffer) = 0
  BY <1>2, <1>4
<1>9. CallOK /\ BufferOK
  BY <1>4, <1>8, <1>2 DEF CallOK, BufferOK, none
<1>10. FrameOK
  BY <1>4, <1>8 DEF FrameOK, Busy
<1>11. calls \in 0 .. MaxCalls
  BY <1>1, MpuAssumption
<1>12. out \in [sda : {0, 1}, scl : {0, 1}]
  BY <1>1
<1>13. gave \in BOOLEAN
  BY <1>1
<1>14. acks \in Int
  BY <1>1
<1> QED BY <1>1, <1>4, <1>5, <1>6, <1>7, <1>9, <1>10, <1>11, <1>12, <1>13,
       <1>14
    DEF MpuTypes

LEMMA NextTypes ==
  ASSUME MpuTypes, [MpuNext]_mpuVars
  PROVE  MpuTypes'
<1>1. CASE Write  BY <1>1, WriteTypes
<1>2. CASE ReadBurst  BY <1>2, ReadBurstTypes
<1>3. CASE SetSda  BY <1>3, SetSdaTypes
<1>4. CASE ShiftOut  BY <1>4, ShiftOutTypes
<1>5. CASE SendAck  BY <1>5, SendAckTypes
<1>6. CASE SetScl  BY <1>6, SetSclTypes
<1>7. CASE ShiftIn  BY <1>7, ShiftInTypes
<1>8. CASE GetAck  BY <1>8, GetAckTypes
<1>9. CASE Returns  BY <1>9, ReturnsTypes
<1>10. CASE ClockIsHigh  BY <1>10, ClockIsHighTypes
<1>11. CASE GiveUp  BY <1>11, GiveUpTypes
<1>12. CASE Hold  BY <1>12, HoldTypes
<1>13. CASE LetGo  BY <1>13, LetGoTypes
<1>14. CASE UNCHANGED mpuVars
  BY <1>14 DEF mpuVars, MpuTypes, ChipOK, CallOK, BufferOK, FrameOK, SCL,
     Busy, Step
<1> QED BY <1>1, <1>2, <1>3, <1>4, <1>5, <1>6, <1>7, <1>8, <1>9, <1>10, <1>11,
           <1>12, <1>13, <1>14 DEF MpuNext, Runs

-----------------------------------------------------------------------------
(* What the processor does to the sensor, by the clock it does it at. *)
RegsKept ==
  \/ regs' = regs
  \/ call.kind = "write" /\ regs' = [regs EXCEPT ![call.reg] = call.arg]

Kept ==
  /\ call' = call /\ Step' = Step /\ chip'.here = chip.here
  /\ call.kind = "read" /\ call.at \in {4, 5} => chip'.ptr = chip.ptr
  /\ RegsKept

Same == call' = call /\ Step' = Step /\ regs' = regs /\ acks' = acks

Risen(sda) ==
  /\ ~chip'.hold /\ chip'.here = chip.here /\ chip'.stage = chip.stage
  /\ chip'.ptr = chip.ptr /\ chip'.sda = chip.sda
  /\ chip.mode = "receive" =>
       /\ chip'.mode = "receive" /\ chip'.n = chip.n + 1
       /\ chip'.data = 2 * chip.data + sda
  /\ chip.mode # "receive" => chip'.n = chip.n /\ chip'.data = chip.data
  /\ chip.mode = "acked" =>
             chip'.mode = IF sda = 0 THEN "more" ELSE "idle"
  /\ chip.mode \notin {"receive", "acked"} => chip'.mode = chip.mode

LEMMA PutLow ==
  ASSUME MpuTypes, NEW v \in {0, 1}, PutSda(v), out.scl = 0
  PROVE  chip' = chip /\ Same /\ out'.sda = v /\ out'.scl = 0
<1>1. SCL = 0 /\ Reacts(Both(v, chip.sda), SCL)
  BY PutsSda, Signals
<1>2. UNCHANGED <<chip, regs, acks>>
  BY <1>1, Quietly
<1> QED BY <1>2, PutsSda, SameCall DEF Same

LEMMA PutHigh ==
  ASSUME MpuTypes, PutSda(1), out.sda = 1
  PROVE  chip' = chip /\ Same /\ out'.sda = 1 /\ out'.scl = out.scl
<1> DEFINE v == 1
<1>1. v \in {0, 1} /\ PutSda(v) /\ v = 1
  OBVIOUS
<1> HIDE DEF v
<1>2. /\ out'.sda = v /\ out'.scl = out.scl /\ Reacts(Both(v, chip.sda), SCL)
      /\ call' = call
  BY <1>1, PutsSda
<1>3. SDA = Both(v, chip.sda) /\ SCL \in {0, 1}
  BY <1>1, Signals DEF SDA
<1>4. UNCHANGED <<chip, regs, acks>>
  BY <1>2, <1>3, Quietly
<1> QED BY <1>1, <1>2, <1>4, SameCall DEF Same

LEMMA PutStart ==
  ASSUME MpuTypes, PutSda(0), out.sda = 1, out.scl = 1, ~chip.hold,
         chip.sda = 1
  PROVE  /\ Same /\ out'.sda = 0 /\ out'.scl = 1
         /\ chip'.mode = "receive" /\ chip'.stage = "address" /\ chip'.n = 0
         /\ chip'.data = 0 /\ chip'.sda = 1 /\ chip'.ptr = chip.ptr
         /\ ~chip'.hold /\ chip'.here = chip.here
<1> DEFINE v == 0
<1>1. v \in {0, 1} /\ PutSda(v) /\ v = 0
  OBVIOUS
<1> HIDE DEF v
<1>2. /\ out'.sda = v /\ out'.scl = out.scl /\ Reacts(Both(v, chip.sda), SCL)
      /\ call' = call
  BY <1>1, PutsSda
<1>3. SDA = 1 /\ SCL = 1 /\ Both(v, chip.sda) = 0
  BY <1>1, Signals DEF Both
<1>4. Reacts(0, 1)
  BY <1>2, <1>3
<1> QED BY <1>1, <1>2, <1>3, <1>4, StartEdge, SameCall DEF Same

LEMMA PutStop ==
  ASSUME MpuTypes, PutSda(1), out.sda = 0, out.scl = 1, ~chip.hold,
         chip.sda = 1
  PROVE  /\ Same /\ out'.sda = 1 /\ out'.scl = 1
         /\ chip'.mode = "idle" /\ chip'.sda = 1
         /\ ~chip'.hold /\ chip'.here = chip.here
<1> DEFINE v == 1
<1>1. v \in {0, 1} /\ PutSda(v) /\ v = 1
  OBVIOUS
<1> HIDE DEF v
<1>2. /\ out'.sda = v /\ out'.scl = out.scl /\ Reacts(Both(v, chip.sda), SCL)
      /\ call' = call
  BY <1>1, PutsSda
<1>3. SDA = 0 /\ SCL = 1 /\ Both(v, chip.sda) = 1
  BY <1>1, Signals DEF Both
<1>4. Reacts(1, 1)
  BY <1>2, <1>3
<1> QED BY <1>1, <1>2, <1>3, <1>4, StopEdge, SameCall DEF Same

LEMMA Raises ==
  ASSUME MpuTypes, SetScl, Here.arg = 1, Here.back = 0
  PROVE  /\ Same /\ out'.sda = out.sda /\ out'.scl = 1
         /\ frame'.line = frame.line + 1 /\ frame'.i = frame.i
         /\ frame'.c = frame.c /\ frame'.ack = frame.ack
         /\ chip.hold => chip' = chip
         /\ ~chip.hold /\ out.scl = 1 => chip' = chip
         /\ ~chip.hold /\ out.scl = 0 => Risen(SDA)
<1> DEFINE scl == IF chip.hold THEN 0 ELSE Here.arg
<1>1. /\ out'.scl = 1 /\ out'.sda = out.sda /\ Reacts(SDA, scl)
      /\ SDA \in {0, 1} /\ call' = call
  BY SetsScl
<1>2. /\ frame'.line = frame.line + 1 /\ frame'.i = frame.i
      /\ frame'.c = frame.c /\ frame'.ack = frame.ack
  BY SclFrame
<1>3. CASE chip.hold \/ out.scl = 1
  <2>1. \/ SCL = 0 /\ scl = 0
        \/ SCL = 1 /\ scl = 1
    BY <1>3, Signals
  <2>2. UNCHANGED <<chip, regs, acks>>
    BY <1>1, <2>1, Quietly
  <2> QED BY <1>1, <1>2, <1>3, <2>2, SameCall, Signals DEF Same
<1>4. CASE ~chip.hold /\ out.scl # 1
  <2>1. SCL = 0 /\ Reacts(SDA, 1)
    BY <1>1, <1>4, Signals
  <2>2. chip' = Rises(chip, SDA) /\ regs' = regs /\ acks' = acks
    BY <1>1, <2>1, RisingEdge
  <2>3. Risen(SDA)
    BY <1>1, <2>1, <2>2, RisesIs, Signals DEF Risen
  <2> QED BY <1>1, <1>2, <1>4, <2>2, <2>3, SameCall DEF Same
<1> QED BY <1>3, <1>4

LEMMA Lowers ==
  ASSUME MpuTypes, SetScl, Here.arg = 0, out.scl = 1, ~chip.hold
  PROVE  /\ call' = call /\ Step' = Step
         /\ out'.sda = out.sda /\ out'.scl = 0
         /\ chip' = Falls(chip)
         /\ ~chip'.hold /\ chip'.here = chip.here
         /\ regs' = IF Stores(chip)
                    THEN [regs EXCEPT ![chip.ptr] = chip.data]
                    ELSE regs
         /\ acks' = IF chip'.mode = "acknowledge" /\ chip.mode # "acknowledge"
                    THEN acks + 1
                    ELSE acks
<1>1. /\ out'.scl = 0 /\ out'.sda = out.sda
      /\ Reacts(SDA, 0) /\ SDA \in {0, 1} /\ call' = call
  BY SetsScl
<1>2. SCL = 1
  BY Signals
<1> QED BY <1>1, <1>2, FallingEdge, SameCall

-----------------------------------------------------------------------------
(* i2c_start. *)
LEMMA Start1 ==
  ASSUME MpuTypes, AtStart, SetSda, On("start", 1, Sda(1))
  PROVE  AtStart' /\ Kept
<1>1. PutSda(1) /\ GoOn
  BY LineIs DEF SetSda, On
<1>2. frame.line = 1 /\ frame'.line = 2
  BY <1>1, OnIs DEF On
<1>3. chip' = chip /\ Same /\ out'.sda = 1 /\ out'.scl = out.scl
  <2>1. CASE First
    BY <1>1, <1>2, <2>1, PutHigh DEF AtStart
  <2>2. CASE ~First
    BY <1>1, <1>2, <2>2, PutLow DEF AtStart
  <2> QED BY <2>1, <2>2
<1> QED BY <1>2, <1>3 DEF AtStart, Same, Kept, RegsKept, First, Quiet,
       Listens, OutIs

LEMMA Start2 ==
  ASSUME MpuTypes, AtStart, SetScl, On("start", 2, Scl(1))
  PROVE  AtStart' /\ Kept
<1>1. Here.arg = 1 /\ Here.back = 0
  BY LineIs DEF On
<1>2. /\ frame.line = 2 /\ frame'.line = 3 /\ out'.sda = 1 /\ out'.scl = 1
      /\ Same
      /\ chip.hold => chip' = chip
      /\ ~chip.hold /\ out.scl = 1 => chip' = chip
      /\ ~chip.hold /\ out.scl = 0 => Risen(SDA)
  BY <1>1, Raises DEF On, AtStart
<1>3. CASE First
  <2>1. Quiet'
    BY <1>2, <1>3, Signals DEF Risen, AtStart, Quiet
  <2> QED BY <1>2, <1>3, <2>1, Signals
      DEF AtStart, Same, Kept, RegsKept, First, OutIs, Risen
<1>4. CASE ~First
  <2>1. chip.mode = "receive" /\ chip.sda = 1 /\ chip.n = 0 /\ chip.data = 0
        /\ out.scl = 0
    BY <1>2, <1>4 DEF AtStart
  <2>2. CASE chip.hold
    BY <1>2, <1>4, <2>1, <2>2
       DEF AtStart, Same, Kept, RegsKept, First, OutIs, Risen
  <2>3. CASE ~chip.hold
    BY <1>2, <1>4, <2>1, <2>3
       DEF AtStart, Same, Kept, RegsKept, First, OutIs, Risen
  <2> QED BY <2>2, <2>3
<1> QED BY <1>3, <1>4

LEMMA Waits ==
  ASSUME MpuTypes, ClockIsHigh
  PROVE  /\ out.scl = 1 /\ ~chip.hold /\ Same /\ Kept
         /\ UNCHANGED <<out, chip>>
         /\ frame'.line = frame.line + 1 /\ frame'.i = frame.i
         /\ frame'.c = frame.c /\ frame'.ack = frame.ack
<1>1. SCL = 1 /\ GoOn /\ UNCHANGED <<call, out, chip, regs, acks>>
  BY DEF ClockIsHigh
<1> QED BY <1>1, OnIs, Signals, SameCall DEF Same, Kept, RegsKept

LEMMA Start3 ==
  ASSUME MpuTypes, AtStart, ClockIsHigh, On("start", 3, Wait8)
  PROVE  AtStart' /\ Kept
<1>1. frame.line = 3 /\ frame'.line = 4
  BY Waits DEF On
<1> QED BY <1>1, Waits DEF AtStart, Same, First, Quiet, Listens, OutIs

LEMMA Start4 ==
  ASSUME MpuTypes, AtStart, SetSda, On("start", 4, Sda(0))
  PROVE  AtStart' /\ Kept
<1>1. PutSda(0) /\ GoOn
  BY LineIs DEF SetSda, On
<1>2. frame.line = 4 /\ frame'.line = 5
  BY <1>1, OnIs DEF On
<1>3. out.sda = 1 /\ out.scl = 1 /\ ~chip.hold /\ chip.sda = 1
  BY <1>2 DEF AtStart, OutIs, Quiet
<1>4. /\ Same /\ out'.sda = 0 /\ out'.scl = 1
      /\ chip'.mode = "receive" /\ chip'.stage = "address" /\ chip'.n = 0
      /\ chip'.data = 0 /\ chip'.sda = 1 /\ chip'.ptr = chip.ptr
      /\ ~chip'.hold /\ chip'.here = chip.here
  BY <1>1, <1>3, PutStart
<1> QED BY <1>2, <1>4 DEF AtStart, Same, Kept, RegsKept, Listens, OutIs

LEMMA Start5 ==
  ASSUME MpuTypes, AtStart, SetScl, On("start", 5, Scl(0))
  PROVE  AtStart' /\ Kept
<1>1. Here.arg = 0 /\ Here.back = 0
  BY LineIs DEF On
<1>2. frame.line = 5 /\ frame'.line = 6
  BY <1>1, SclFrame DEF On
<1>3. /\ out.sda = 0 /\ out.scl = 1 /\ ~chip.hold /\ chip.mode = "receive"
      /\ chip.stage = "address" /\ chip.n = 0 /\ chip.data = 0 /\ chip.sda = 1
      /\ acks = 0
  BY <1>2 DEF AtStart, OutIs, Listens
<1>4. /\ call' = call /\ Step' = Step /\ out'.sda = out.sda /\ out'.scl = 0
      /\ chip' = Falls(chip)
      /\ regs' = IF Stores(chip)
                 THEN [regs EXCEPT ![chip.ptr] = chip.data]
                 ELSE regs
      /\ acks' = IF chip'.mode = "acknowledge" /\ chip.mode # "acknowledge"
                 THEN acks + 1
                 ELSE acks
  BY <1>1, <1>3, Lowers
<1>5. chip.n # Bits /\ ~Stores(chip)
  BY <1>3, ByteSizes DEF Stores
<1>6. chip' = chip
  BY <1>3, <1>4, <1>5, FallsIs, Signals
<1>7. regs' = regs /\ acks' = acks
  BY <1>3, <1>4, <1>5, <1>6
<1> QED BY <1>2, <1>3, <1>4, <1>6, <1>7
        DEF AtStart, Kept, RegsKept, Listens, OutIs

-----------------------------------------------------------------------------
(* i2c_write. *)
LEMMA Write1 ==
  ASSUME MpuTypes, Busy, AtWrite, ShiftOut, Step.routine = "write",
         frame.line = 1
  PROVE  AtWrite' /\ Kept
<1> DEFINE k == frame.i
           c == frame.c
           b == Step.c
           d == chip.data
<1>1. PutSda(FirstBit(c)) /\ FirstBit(c) \in {0, 1}
  BY DEF ShiftOut, FirstBit
<1>2. /\ frame.line = 1 /\ frame'.line = 2 /\ frame'.i = k
      /\ frame'.c = ShiftedOut(c)
  BY ShiftsOut
<1>3. /\ out.scl = 0 /\ chip.n = k /\ Come(k, d, c, b) /\ c \in Byte
      /\ chip.mode = "receive" /\ chip.stage = StageOf(call.at)
      /\ chip.sda = 1
  BY <1>2 DEF AtWrite
<1>4. chip' = chip /\ Same /\ out'.sda = FirstBit(c) /\ out'.scl = 0
  BY <1>1, <1>3, PutLow
<1>5. k \in 0 .. Bits - 1 /\ b \in Byte /\ d \in Nat
  <2>1. Step.routine = "write" /\ frame.line <= 4
    BY <1>2
  <2>2. k < Bits
    BY <2>1 DEF MpuTypes, FrameOK
  <2> QED BY <2>1, <2>2, FrameIs, ByteSizes, RoutineIs, Signals, ChipIs
<1>6. Come(k + 1, 2 * d + FirstBit(c), ShiftedOut(c), b)
  <2> HIDE DEF k, c, b, d
  <2> QED BY <1>3, <1>5, ComeStep
<1>7. ShiftedOut(c) \in Byte
  BY <1>3, ShiftIs
<1>8. Come(frame'.i + 1, 2 * chip'.data + out'.sda, frame'.c, Step'.c)
  BY <1>2, <1>4, <1>6 DEF Same
<1> HIDE DEF k, c, b, d
<1>9. AtWrite'
  BY <1>2, <1>3, <1>4, <1>7, <1>8 DEF AtWrite, Same, k, c, b, d
<1> QED BY <1>4, <1>9 DEF Kept, RegsKept, Same

LEMMA Write2 ==
  ASSUME MpuTypes, AtWrite, SetScl, On("write", 2, Scl(1))
  PROVE  AtWrite' /\ Kept
<1>1. Here.arg = 1 /\ Here.back = 0
  BY LineIs DEF On
<1>2. /\ frame.line = 2 /\ frame'.line = 3 /\ frame'.i = frame.i
      /\ frame'.c = frame.c /\ out'.sda = out.sda /\ out'.scl = 1
      /\ Same
      /\ chip.hold => chip' = chip
      /\ ~chip.hold /\ out.scl = 0 => Risen(SDA)
  BY <1>1, Raises DEF On
<1>3. /\ out.scl = 0 /\ chip.mode = "receive" /\ chip.sda = 1
      /\ chip.stage = StageOf(call.at) /\ chip.n = frame.i
      /\ Come(frame.i + 1, 2 * chip.data + out.sda, frame.c, Step.c)
      /\ frame.c \in Byte
  BY <1>2 DEF AtWrite
<1>4. SDA = out.sda
  BY <1>3, Signals
<1>5. CASE chip.hold
  BY <1>2, <1>3, <1>5 DEF AtWrite, Same, Kept, RegsKept
<1>6. CASE ~chip.hold
  <2>1. /\ ~chip'.hold /\ chip'.mode = "receive" /\ chip'.n = chip.n + 1
        /\ chip'.data = 2 * chip.data + out.sda
        /\ chip'.stage = chip.stage /\ chip'.sda = chip.sda
        /\ chip'.ptr = chip.ptr /\ chip'.here = chip.here
    BY <1>2, <1>3, <1>4, <1>6 DEF Risen
  <2> QED BY <1>2, <1>3, <2>1 DEF AtWrite, Same, Kept, RegsKept
<1> QED BY <1>5, <1>6

LEMMA Write3 ==
  ASSUME MpuTypes, AtWrite, ClockIsHigh, On("write", 3, Wait32)
  PROVE  AtWrite' /\ Kept
<1>1. frame.line = 3 /\ frame'.line = 4
  BY Waits DEF On
<1> QED BY <1>1, Waits DEF AtWrite, Same

LEMMA Write5 ==
  ASSUME MpuTypes, AtWrite, SetSda, On("write", 5, Sda(1))
  PROVE  AtWrite' /\ Kept
<1>1. PutSda(1) /\ GoOn
  BY LineIs DEF SetSda, On
<1>2. /\ frame.line = 5 /\ frame'.line = 6 /\ frame'.c = frame.c
      /\ frame'.i = frame.i
  BY <1>1, OnIs DEF On
<1>3. chip' = chip /\ Same /\ out'.sda = 1 /\ out'.scl = 0
  BY <1>1, <1>2, PutLow DEF AtWrite
<1> QED BY <1>2, <1>3 DEF AtWrite, Same, Kept, RegsKept, Acked, Quiet

LEMMA Write6 ==
  ASSUME MpuTypes, AtWrite, SetScl, On("write", 6, Scl(1))
  PROVE  AtWrite' /\ Kept
<1>1. Here.arg = 1 /\ Here.back = 0
  BY LineIs DEF On
<1>2. /\ frame.line = 6 /\ frame'.line = 7 /\ frame'.i = frame.i
      /\ frame'.c = frame.c /\ out'.sda = out.sda /\ out'.scl = 1
      /\ Same
      /\ chip.hold => chip' = chip
      /\ ~chip.hold /\ out.scl = 0 => Risen(SDA)
  BY <1>1, Raises DEF On
<1>3. out.scl = 0 /\ out.sda = 1 /\ Acked
  BY <1>2 DEF AtWrite
<1>4. /\ chip'.mode = chip.mode /\ chip'.stage = chip.stage
      /\ chip'.sda = chip.sda /\ chip'.ptr = chip.ptr
      /\ chip'.here = chip.here /\ (chip'.hold => chip.hold)
  <2>1. chip.mode \notin {"receive", "acked"}
    BY <1>3 DEF Acked, Quiet
  <2>2. CASE chip.hold
    BY <1>2, <2>2
  <2>3. CASE ~chip.hold
    BY <1>2, <1>3, <2>1, <2>3 DEF Risen
  <2> QED BY <2>2, <2>3
<1>5. Acked'
  BY <1>2, <1>3, <1>4 DEF Acked, Quiet, Same
<1> QED BY <1>2, <1>3, <1>4, <1>5
        DEF AtWrite, Same, Kept, RegsKept, OutIs

LEMMA Write7 ==
  ASSUME MpuTypes, AtWrite, GetAck, On("write", 7, Op("ack"))
  PROVE  AtWrite' /\ Kept
<1>1. /\ frame.line = 7 /\ frame'.line = 8 /\ frame'.ack = 1 - SDA
      /\ frame'.i = frame.i /\ frame'.c = frame.c
      /\ UNCHANGED <<call, out, chip, regs, acks>>
  BY GetAckTypes DEF On, GetAck
<1>2. OutIs(1, 1) /\ Acked
  BY <1>1 DEF AtWrite
<1>3. frame'.ack = IF chip.here THEN 1 ELSE 0
  <2>1. SDA = chip.sda
    BY <1>2, Signals, ChipIs DEF OutIs
  <2> QED BY <1>1, <1>2, <2>1 DEF Acked, Quiet
<1>4. Step' = Step /\ Acked' /\ OutIs(1, 1)'
  BY <1>1, <1>2, SameCall DEF Acked, Quiet, OutIs
<1>5. Kept
  BY <1>1, <1>4 DEF Kept, RegsKept
<1> QED BY <1>1, <1>3, <1>4, <1>5 DEF AtWrite, OutIs

LEMMA Write8 ==
  ASSUME MpuTypes, AtWrite, ClockIsHigh, On("write", 8, Wait32)
  PROVE  AtWrite' /\ Kept
<1>1. frame.line = 8 /\ frame'.line = 9
  BY Waits DEF On
<1>2. Acked /\ OutIs(1, 1)
  BY <1>1 DEF AtWrite
<1>3. Acked' /\ OutIs(1, 1)'
  BY <1>2, Waits DEF Acked, Quiet, Same, OutIs
<1> QED BY <1>1, <1>3, Waits DEF AtWrite, Same, OutIs

LEMMA Write9 ==
  ASSUME MpuTypes, Busy, AtWrite, SetScl, On("write", 9, Scl(0))
  PROVE  AtWrite' /\ Kept
<1>1. Here.arg = 0 /\ Here.back = 0
  BY LineIs DEF On
<1>2. /\ frame.line = 9 /\ frame'.line = 10 /\ frame'.i = frame.i
      /\ frame'.c = frame.c /\ frame'.ack = frame.ack
  BY <1>1, SclFrame DEF On
<1>3. /\ out.sda = 1 /\ out.scl = 1 /\ ~chip.hold /\ Acked
      /\ acks = IF chip.here THEN 1 ELSE 0
  BY <1>2 DEF AtWrite, OutIs
<1>4. /\ call' = call /\ Step' = Step /\ out'.sda = out.sda /\ out'.scl = 0
      /\ chip' = Falls(chip) /\ ~chip'.hold /\ chip'.here = chip.here
      /\ regs' = IF Stores(chip)
                 THEN [regs EXCEPT ![chip.ptr] = chip.data]
                 ELSE regs
      /\ acks' = IF chip'.mode = "acknowledge" /\ chip.mode # "acknowledge"
                 THEN acks + 1
                 ELSE acks
  BY <1>1, <1>3, Lowers
<1>5. /\ chip'.mode # "acknowledge" /\ chip'.ptr = chip.ptr
      /\ ~chip.here => Quiet'
      /\ chip.here /\ call.at # 5 =>
           Listens(StageAfter(call.at), 0)' /\ chip'.data = 0
      /\ chip.here /\ call.at = 5 => Sends(1, 0)'
  <2>1. CASE ~chip.here
    <3>1. chip.mode = "idle" /\ chip.sda = 1
      BY <1>3, <2>1 DEF Acked, Quiet
    <3>2. chip' = chip
      BY <1>4, <3>1, FallsIs, Signals
    <3> QED BY <1>4, <2>1, <3>1, <3>2 DEF Quiet
  <2>2. CASE chip.here /\ call.at # 5
    <3>1. /\ chip.mode = "acknowledge" /\ chip.stage = StageAfter(call.at)
          /\ chip.stage # "read"
      <4>1. call.at = 2 \/ call.at = 3 \/ call.at = 4
        BY <2>2, RoutineIs DEF On, At_
      <4> QED BY <1>3, <2>2, <4>1 DEF Acked, StageAfter
    <3>2. chip' = Listening(chip)
      BY <1>4, <3>1, FallsIs, Signals
    <3>3. /\ chip'.mode = "receive" /\ chip'.n = 0 /\ chip'.data = 0
          /\ chip'.sda = 1 /\ chip'.stage = chip.stage /\ chip'.ptr = chip.ptr
      BY <3>2, ListeningIs, Signals
    <3> QED BY <1>4, <2>2, <3>1, <3>3 DEF Listens
  <2>3. CASE chip.here /\ call.at = 5
    <3>1. chip.mode = "acknowledge" /\ chip.stage = "read"
      BY <1>3, <2>3 DEF Acked, StageAfter
    <3>2. chip' = SendFrom(chip, chip.ptr) /\ chip.ptr \in RegNos
      BY <1>4, <3>1, FallsIs, Signals, ChipIs
    <3>3. /\ chip'.mode = "send" /\ chip'.n = 1
          /\ chip'.data = ShiftedOut(regs[chip.ptr])
          /\ chip'.sda = FirstBit(regs[chip.ptr]) /\ chip'.ptr = chip.ptr
      BY <3>2, SendFromIs, Signals
    <3>4. regs' = regs
      BY <1>4, <3>1 DEF Stores
    <3>5. regs[chip.ptr] \in Byte
      BY <3>2 DEF MpuTypes
    <3>6. (2 * 0 + chip'.sda) * Pow[Bits] + chip'.data
             = regs[chip.ptr] * Pow[1]
      <4> DEFINE r == regs[chip.ptr]
                 f == FirstBit(r)
                 s == ShiftedOut(r)
                 P == Pow[Bits]
      <4>1. /\ f \in {0, 1} /\ s \in Nat /\ 2 * r = f * P + s /\ r \in Nat
            /\ P \in Nat /\ Pow[1] = 2
        BY <3>5, ShiftIs, ByteIs, ByteSizes
      <4> HIDE DEF r, f, s, P
      <4>2. (2 * 0 + f) * P + s = r * 2
        BY <4>1
      <4> QED BY <3>3, <4>1, <4>2 DEF r, f, s, P
    <3>7. Sends(1, 0)'
      BY <3>3, <3>4, <3>6 DEF Sends
    <3> QED BY <2>3, <3>3, <3>7
  <2> QED BY <2>1, <2>2, <2>3
<1>6. regs' = regs /\ acks' = acks
  <2>1. chip.mode # "receive"
    BY <1>3 DEF Acked, Quiet
  <2> QED BY <1>4, <1>5, <2>1 DEF Stores
<1>7. Kept
  BY <1>4, <1>5, <1>6 DEF Kept, RegsKept
<1>8. /\ ~chip'.here => Quiet'
      /\ chip'.here /\ call'.at # 5 =>
           Listens(StageAfter(call.at), 0)' /\ chip'.data = 0
      /\ chip'.here /\ call'.at = 5 => Sends(1, 0)'
  BY <1>4, <1>5
<1>9. OutIs(1, 0)'
  BY <1>3, <1>4 DEF OutIs
<1> QED BY <1>2, <1>3, <1>4, <1>5, <1>6, <1>7, <1>8, <1>9 DEF AtWrite

LEMMA SmallMod ==
  ASSUME NEW R \in Nat \ {0}, NEW r \in 0 .. R - 1
  PROVE  r % R = r
OBVIOUS

LEMMA CallsAre ==
  /\ \A c : Writes(c).routine = "write" /\ Writes(c).c = c
  /\ \A a : /\ Reads(a).routine = "read" /\ Reads(a).send_ack = a
  /\ Starts.routine = "start" /\ Stops.routine = "stop"
BY DEF Starts, Stops, Writes, Reads, Calls

(* The program's calls of i2c_write. *)
LEMMA WriteStep ==
  ASSUME MpuTypes, Busy, Step.routine = "write"
  PROVE  /\ Step.c \in Byte
         /\ \/ call.at = 2 /\ Step.c = ADDR_W
            \/ call.at = 3 /\ Step.c = call.reg
            \/ At_("write", 4) /\ Step.c = call.arg
            \/ At_("read", 5) /\ Step.c = ADDR_W + 1
<1>1. \A c : Writes(c).c = c
  BY DEF Writes, Calls
<1> QED BY <1>1, RoutineIs, StepIs DEF At_

(* The last bit has come. *)
LEMMA ByteComes ==
  ASSUME MpuTypes, Busy, Step.routine = "write",
         chip.mode = "receive", chip.n = Bits, chip.data = Step.c,
         chip.stage = StageOf(call.at), chip.sda = 1, ~chip.hold,
         call.at >= 3 => chip.here,
         call.at >= 4 => chip.ptr = call.reg,
         acks = 0,
         call' = call, Step' = Step,
         chip' = Falls(chip), ~chip'.hold, chip'.here = chip.here,
         regs' = IF Stores(chip)
                 THEN [regs EXCEPT ![chip.ptr] = chip.data]
                 ELSE regs,
         acks' = IF chip'.mode = "acknowledge" /\ chip.mode # "acknowledge"
                 THEN acks + 1
                 ELSE acks
  PROVE  /\ Acked' /\ acks' = (IF chip.here THEN 1 ELSE 0)
         /\ Kept
         /\ call.at = 3 => chip'.ptr = call.reg
         /\ call.at >= 4 => chip'.ptr = call.reg
         /\ call.at = 4 => regs'[call.reg] = call.arg
<1>1. chip' = ByteIn(chip)
  BY FallsIs, Signals
<1>2. Stores(chip) <=> chip.stage = "data"
  BY DEF Stores
<1>3. call.reg \in RegNos /\ regs \in [RegNos -> Byte]
  BY DEF MpuTypes, CallSet
<1>4. CASE call.at = 2 /\ Step.c = ADDR_W
  <2>1. chip.stage = "address" /\ regs' = regs
    BY <1>2, <1>4 DEF StageOf
  <2>2. CASE chip.here
    <3>1. /\ chip'.mode = "acknowledge" /\ chip'.sda = 0
          /\ chip'.stage = "register"
      BY <1>1, <1>4, <2>1, <2>2, ByteInIs, Signals
    <3>2. Acked' /\ acks' = 1
      BY <1>4, <2>2, <3>1 DEF Acked, StageAfter
    <3> QED BY <1>4, <2>1, <2>2, <3>2 DEF Kept, RegsKept
  <2>3. CASE ~chip.here
    <3>1. chip'.mode = "idle" /\ chip'.sda = 1
      BY <1>1, <1>4, <2>1, <2>3, ByteInIs, Signals
    <3>2. Acked' /\ acks' = 0
      BY <1>4, <2>3, <3>1 DEF Acked, Quiet
    <3> QED BY <1>4, <2>1, <2>3, <3>2 DEF Kept, RegsKept
  <2> QED BY <2>2, <2>3
<1>5. CASE call.at = 3 /\ Step.c = call.reg
  <2>1. chip.stage = "register" /\ regs' = regs /\ chip.here
    BY <1>2, <1>5 DEF StageOf
  <2>2. /\ chip'.mode = "acknowledge" /\ chip'.sda = 0
        /\ chip'.stage = "data" /\ chip'.ptr = chip.data % Registers
    BY <1>1, <1>5, <2>1, ByteInIs, Signals
  <2>3. chip'.ptr = call.reg
    <3>1. call.reg % Registers = call.reg
      BY <1>3, ByteSizes, SmallMod DEF RegNos
    <3> QED BY <1>5, <2>2, <3>1
  <2>4. Acked' /\ acks' = 1
    BY <1>5, <2>1, <2>2 DEF Acked, StageAfter
  <2> QED BY <1>5, <2>1, <2>3, <2>4 DEF Kept, RegsKept
<1>6. CASE At_("write", 4) /\ Step.c = call.arg
  <2>0. call.at = 4 /\ call.kind = "write" /\ chip.ptr = call.reg /\ chip.here
    BY <1>6 DEF At_
  <2>1. chip.stage = "data"
    BY <2>0 DEF StageOf
  <2>2. /\ chip'.mode = "acknowledge" /\ chip'.sda = 0
        /\ chip'.stage = "data" /\ chip'.ptr = chip.ptr
    BY <1>1, <2>1, ByteInIs, Signals
  <2>3. regs' = [regs EXCEPT ![call.reg] = call.arg]
    BY <1>2, <1>6, <2>0, <2>1
  <2>4. regs'[call.reg] = call.arg
    BY <1>3, <2>3
  <2>5. Acked' /\ acks' = 1
    BY <2>0, <2>2 DEF Acked, StageAfter
  <2> QED BY <2>0, <2>2, <2>3, <2>4, <2>5 DEF Kept, RegsKept
<1>7. CASE At_("read", 5) /\ Step.c = ADDR_W + 1
  <2>0. call.at = 5 /\ call.kind = "read" /\ chip.ptr = call.reg /\ chip.here
    BY <1>7 DEF At_
  <2>1. chip.stage = "address" /\ regs' = regs
    BY <1>2, <2>0 DEF StageOf
  <2>2. /\ chip'.mode = "acknowledge" /\ chip'.sda = 0
        /\ chip'.stage = "read" /\ chip'.ptr = chip.ptr
    BY <1>1, <1>7, <2>0, <2>1, ByteInIs, Signals
  <2>3. Acked' /\ acks' = 1
    BY <2>0, <2>2 DEF Acked, StageAfter
  <2> QED BY <2>0, <2>1, <2>2, <2>3 DEF Kept, RegsKept
<1> QED BY <1>4, <1>5, <1>6, <1>7, WriteStep

LEMMA Write4 ==
  ASSUME MpuTypes, Busy, AtWrite, SetScl, On("write", 4, LoopTo(1))
  PROVE  AtWrite' /\ Kept
<1>1. Here.arg = 0 /\ Here.back = 1
  BY LineIs DEF On
<1>2. /\ frame.line = 4 /\ frame'.i = frame.i + 1 /\ frame'.c = frame.c
      /\ frame'.line = IF frame.i + 1 < Bits THEN 1 ELSE 5
  BY <1>1, SclFrame DEF On
<1>3. /\ out.scl = 1 /\ ~chip.hold /\ chip.mode = "receive" /\ chip.sda = 1
      /\ chip.stage = StageOf(call.at) /\ chip.n = frame.i + 1
      /\ Come(frame.i + 1, chip.data, frame.c, Step.c)
      /\ acks = 0 /\ frame.c \in Byte
      /\ call.at >= 3 => chip.here
      /\ call.at >= 4 => chip.ptr = call.reg
  BY <1>2 DEF AtWrite
<1>4. /\ call' = call /\ Step' = Step /\ out'.sda = out.sda /\ out'.scl = 0
      /\ chip' = Falls(chip) /\ ~chip'.hold /\ chip'.here = chip.here
      /\ regs' = IF Stores(chip)
                 THEN [regs EXCEPT ![chip.ptr] = chip.data]
                 ELSE regs
      /\ acks' = IF chip'.mode = "acknowledge" /\ chip.mode # "acknowledge"
                 THEN acks + 1
                 ELSE acks
  BY <1>1, <1>3, Lowers
<1>5. /\ Step.routine = "write" /\ frame.i < Bits
      /\ frame.i \in Nat /\ Bits \in Nat
  <2>1. Step.routine = "write" /\ frame.line <= 4
    BY <1>2 DEF On
  <2>2. frame.i < Bits
    BY <2>1 DEF MpuTypes, FrameOK
  <2> QED BY <2>1, <2>2, FrameIs, ByteSizes
<1>6. CASE frame.i + 1 < Bits
  <2>1. chip' = chip
    <3>1. chip.n # Bits
      BY <1>3, <1>5, <1>6
    <3> QED BY <1>3, <1>4, <3>1, FallsIs, Signals
  <2>2. regs' = regs /\ acks' = acks
    <3>1. ~Stores(chip)
      BY <1>3, <1>5, <1>6 DEF Stores
    <3> QED BY <1>3, <1>4, <2>1, <3>1
  <2>3. frame'.line = 1
    BY <1>2, <1>6
  <2>4. Kept
    BY <1>4, <2>1, <2>2 DEF Kept, RegsKept
  <2>5. /\ chip'.n = frame'.i
        /\ Come(frame'.i, chip'.data, frame'.c, Step'.c)
    BY <1>2, <1>3, <1>4, <2>1
  <2> QED BY <1>2, <1>3, <1>4, <2>1, <2>2, <2>3, <2>4, <2>5 DEF AtWrite
<1>7. CASE ~ (frame.i + 1 < Bits)
  <2>1. frame.i + 1 = Bits /\ frame'.line = 5
    BY <1>2, <1>5, <1>7
  <2>2. chip.data = Step.c
    <3>1. Step.c \in Nat /\ chip.data \in Nat
      BY <1>5, WriteStep, ByteIs, Signals, ChipIs
    <3> QED BY <1>3, <2>1, <3>1, ComeEnd
  <2>3. /\ Acked' /\ acks' = (IF chip.here THEN 1 ELSE 0)
        /\ Kept
        /\ call.at = 3 => chip'.ptr = call.reg
        /\ call.at >= 4 => chip'.ptr = call.reg
        /\ call.at = 4 => regs'[call.reg] = call.arg
    BY <1>3, <1>4, <1>5, <2>1, <2>2, ByteComes
  <2> QED BY <1>2, <1>3, <1>4, <2>1, <2>3 DEF AtWrite
<1> QED BY <1>6, <1>7

(* The next call. *)
LEMMA NextStep ==
  ASSUME MpuTypes, Returns, NextAt <= Len(call.steps)
  PROVE  /\ Busy' /\ Step' = call.steps[NextAt] /\ frame'.c = Step'.c
         /\ NextAt \in 1 .. Len(call.steps)
<1>1. /\ NextAt \in 1 .. Len(call.steps)
      /\ call'.at = NextAt /\ call'.steps = call.steps
      /\ frame'.c = call.steps[NextAt].c
  BY ReturnIs
<1> QED BY <1>1 DEF Busy, Step

LEMMA Start6 ==
  ASSUME MpuTypes, MpuTypes', Placed, Returns, Step.routine = "start",
         frame.line = 6
  PROVE  Placed'
<1>1. Busy /\ AtStart /\ Got
  BY ReturnIs DEF Placed
<1>2. /\ out.scl = 0 /\ chip.mode = "receive" /\ chip.stage = "address"
      /\ chip.n = 0 /\ chip.sda = 1 /\ chip.data = 0 /\ acks = 0
  BY <1>1 DEF AtStart, OutIs, Listens
<1>3. /\ NextAt = call.at + 1 /\ call'.at = NextAt
      /\ call'.kind = call.kind /\ call'.steps = call.steps
      /\ call'.reg = call.reg /\ call'.arg = call.arg
      /\ call'.buffer = call.buffer /\ acks' = acks
      /\ frame'.line = 1 /\ frame'.i = 0
      /\ call'.ret = IF NextAt = Len(call.steps) THEN 1 ELSE call.ret
      /\ UNCHANGED <<out, chip, regs>>
  BY ReturnIs DEF NextAt, Ok
<1>4. call.at = 1 \/ At_("read", 4)
  BY <1>1, RoutineIs
<1>5. /\ call.at + 1 < Len(call.steps) /\ call.ret = 0
      /\ Len(call.steps) \in Nat /\ call.at \in Nat
  <2>1. \/ call.kind = "write" /\ Len(call.steps) = 5
        \/ call.kind = "read" /\ Len(call.steps) = call.arg + 6
    BY <1>1, StepIs
  <2>2. call.kind = "read" => call.arg \in Nat /\ call.arg >= 1
    <3>1. call.kind = "read" => call.arg \in 1 .. Registers
      BY DEF MpuTypes, CallOK
    <3> QED BY <3>1, ByteSizes
  <2>3. call.at + 1 < Len(call.steps)
    <3>1. CASE call.kind = "write" /\ Len(call.steps) = 5
      BY <1>4, <3>1 DEF At_
    <3>2. CASE call.kind = "read" /\ Len(call.steps) = call.arg + 6
      BY <1>4, <2>2, <3>2 DEF At_
    <3> QED BY <2>1, <3>1, <3>2
  <2>4. call.at < Len(call.steps)
    BY <2>3, ReturnIs
  <2> QED BY <1>1, <2>3, <2>4, ReturnIs DEF Placed
<1>6. Busy' /\ Step' = call.steps[NextAt] /\ frame'.c = Step'.c
  <2>1. NextAt <= Len(call.steps)
    BY <1>3, <1>5
  <2> QED BY <2>1, NextStep
<1>7. call'.at = 2 \/ call'.at = 5
  BY <1>3, <1>4 DEF At_
<1>8. /\ Step'.routine = "write" /\ Step'.c \in Byte
      /\ call'.at = 5 => call.kind = "read" /\ call.at = 4
  <2>1. CASE call.at = 1
    <3>1. Step' = call.steps[2]
      BY <1>3, <1>6, <2>1
    <3>2. call.steps[2] = Writes(ADDR_W)
      BY <1>5, ProgramIs DEF Kinds
    <3>3. ADDR_W \in Byte
      BY ByteSizes, ByteIs
    <3> QED BY <1>3, <2>1, <3>1, <3>2, <3>3, CallsAre
  <2>2. CASE At_("read", 4)
    <3>1. Step' = call.steps[5]
      BY <1>3, <1>6, <2>2 DEF At_
    <3>2. call.steps[5] = Writes(ADDR_W + 1)
      BY <2>2, ProgramIs DEF At_
    <3>3. ADDR_W + 1 \in Byte
      BY ByteSizes, ByteIs
    <3> QED BY <2>2, <3>1, <3>2, <3>3, CallsAre DEF At_
  <2> QED BY <1>4, <2>1, <2>2
<1>9. Come(frame'.i, chip'.data, frame'.c, Step'.c)
  <2>1. Come(0, 0, Step'.c, Step'.c)
    BY <1>8, ComeStart
  <2> QED BY <1>2, <1>3, <1>6, <2>1
<1>10. call.at = 4 /\ call.kind = "read" => chip.here /\ chip.ptr = call.reg
  BY <1>1, <1>5 DEF Placed
<1>11. AtWrite'
  BY <1>2, <1>3, <1>6, <1>7, <1>8, <1>9, <1>10 DEF AtWrite, StageOf
<1>12. Got'
  BY <1>1, <1>3 DEF Got
<1>13. call'.at < Len(call'.steps) /\ call'.ret = 0
  BY <1>3, <1>5
<1> QED BY <1>3, <1>6, <1>7, <1>8, <1>10, <1>11, <1>12, <1>13 DEF Placed

LEMMA StopsLast ==
  ASSUME MpuTypes, Busy
  PROVE  /\ call.steps[Len(call.steps)] = Stops
         /\ call.kind = "write" => Len(call.steps) = 5
         /\ call.kind = "read" =>
              /\ Len(call.steps) = call.arg + 6
              /\ call.arg \in Nat \ {0}
         /\ call.kind = "write" \/ call.kind = "read"
         /\ Len(call.steps) \in Nat /\ 4 < Len(call.steps)
         /\ call.kind = "read" => 6 < Len(call.steps)
<1>1. CASE call.kind = "write"
  BY <1>1, ProgramIs, SMTT(30)
<1>2. CASE call.kind = "read"
  <2>1. call.arg \in 1 .. Registers
    BY <1>2 DEF MpuTypes, CallOK
  <2>2. call.arg \in Nat \ {0}
    BY <2>1, ByteSizes
  <2>3. /\ Len(call.steps) = call.arg + 6
        /\ call.steps[Len(call.steps)] = Stops
    BY <1>2, ProgramIs
  <2> DEFINE n == Len(call.steps)
  <2>4. n = call.arg + 6
    BY <2>3
  <2> HIDE DEF n
  <2>5. n \in Nat /\ 4 < n /\ 6 < n
    BY <2>2, <2>4
  <2> QED BY <1>2, <2>2, <2>3, <2>5 DEF n
<1>3. call.kind = "write" \/ call.kind = "read"
  BY StepIs
<1> QED BY <1>1, <1>2, <1>3

LEMMA Write10 ==
  ASSUME MpuTypes, Placed, Returns, Step.routine = "write", frame.line = 10
  PROVE  Placed'
<1>1. Busy /\ AtWrite /\ Got
  BY ReturnIs DEF Placed
<1>2. /\ out.sda = 1 /\ out.scl = 0 /\ frame.ack = IF chip.here THEN 1 ELSE 0
      /\ acks = IF chip.here THEN 1 ELSE 0
      /\ ~chip.here => Quiet
      /\ chip.here /\ call.at # 5 =>
           Listens(StageAfter(call.at), 0) /\ chip.data = 0
      /\ chip.here /\ call.at = 5 => Sends(1, 0)
      /\ call.at = 3 => chip.ptr = call.reg
      /\ call.at >= 4 => chip.ptr = call.reg
      /\ call.at = 4 => regs[call.reg] = call.arg
  BY <1>1 DEF AtWrite, OutIs
<1>3. /\ NextAt = (IF chip.here THEN call.at + 1 ELSE Len(call.steps))
      /\ call'.at = NextAt
      /\ call'.kind = call.kind /\ call'.steps = call.steps
      /\ call'.reg = call.reg /\ call'.arg = call.arg
      /\ call'.buffer = call.buffer /\ acks' = 0
      /\ frame'.line = 1 /\ frame'.i = 0
      /\ call'.ret = IF chip.here /\ NextAt = Len(call.steps)
                     THEN 1 ELSE call.ret
      /\ UNCHANGED <<out, chip, regs>>
      /\ call.at \in Nat /\ Len(call.steps) \in Nat
  <2>1. Ok <=> chip.here
    BY <1>2 DEF Ok
  <2>2. acks - frame.ack = 0
    BY <1>2
  <2> QED BY <2>1, <2>2, ReturnIs DEF NextAt
<1>4. /\ call.at < Len(call.steps) /\ call.ret = 0
      /\ call.at \in {2, 3} \/ At_("write", 4) \/ At_("read", 5)
  BY <1>1, RoutineIs DEF Placed
<1>5. Busy' /\ Step' = call.steps[NextAt] /\ frame'.c = Step'.c
  <2>1. NextAt <= Len(call.steps)
    BY <1>3, <1>4
  <2> QED BY <2>1, NextStep
<1>6. Got'
  BY <1>1, <1>3 DEF Got
<1>7. CASE ~chip.here
  <2>1. Step'.routine = "stop"
    BY <1>1, <1>3, <1>5, <1>7, StopsLast, CallsAre
  <2>2. call'.at = Len(call'.steps) /\ call'.ret = 0
    BY <1>3, <1>4, <1>7
  <2>3. AtStop'
    BY <1>2, <1>3, <1>7, <2>2 DEF AtStop, Quiet
  <2>4. /\ ~ (call'.at < Len(call'.steps))
        /\ ~ (call'.at \in 3 .. Len(call'.steps) - 1)
        /\ ~ (call'.kind = "read" /\ call'.at \in {4, 5})
    <3>2. call.kind = "read" => Len(call.steps) # 4 /\ Len(call.steps) # 5
      BY <1>1, StopsLast
    <3> QED BY <1>3, <2>2, <3>2
  <2> QED BY <1>5, <1>6, <2>1, <2>3, <2>4 DEF Placed
<1>8. ASSUME chip.here, call'.at < Len(call'.steps),
             call'.at \in {4, 5} => chip.ptr = call.reg,
             Step'.routine = "start" => AtStart',
             Step'.routine = "write" => AtWrite',
             Step'.routine = "read" => AtRead',
             Step'.routine # "stop"
      PROVE  Placed'
  <2>1. call'.ret = 0
    BY <1>3, <1>4, <1>8
  <2> QED BY <1>3, <1>5, <1>6, <1>8, <2>1 DEF Placed
<1>9. CASE chip.here /\ call.at = 2
  <2>1. call'.at = 3 /\ Step' = call.steps[3]
    BY <1>3, <1>5, <1>9
  <2>2. Step' = Writes(call.reg)
    BY <1>1, <2>1, StopsLast, ProgramIs
  <2>3. Step'.routine = "write" /\ Step'.c = call.reg /\ call.reg \in Byte
    <3>1. call.reg \in RegNos
      BY DEF MpuTypes, CallSet
    <3> QED BY <2>2, <3>1, CallsAre, RegIsByte
  <2>4. Come(0, 0, call.reg, call.reg)
    BY <2>3, ComeStart
  <2>5. /\ chip.mode = "receive" /\ chip.stage = "register" /\ chip.n = 0
        /\ chip.sda = 1 /\ chip.data = 0
    BY <1>2, <1>9 DEF Listens, StageAfter
  <2>6. AtWrite'
    BY <1>2, <1>3, <1>5, <1>9, <2>1, <2>3, <2>4, <2>5 DEF AtWrite, StageOf
  <2>7. call'.at < Len(call'.steps)
    <3>1. 4 < Len(call.steps) /\ Len(call.steps) \in Nat
      BY <1>1, StopsLast
    <3> QED BY <1>3, <2>1, <3>1
  <2> QED BY <1>8, <1>9, <2>1, <2>3, <2>6, <2>7
<1>10. CASE chip.here /\ call.at = 3 /\ call.kind = "write"
  <2>1. call'.at = 4 /\ Step' = call.steps[4]
    BY <1>3, <1>5, <1>10
  <2>2. Step' = Writes(call.arg)
    BY <1>1, <1>10, <2>1, ProgramIs
  <2>3. Step'.routine = "write" /\ Step'.c = call.arg /\ call.arg \in Byte
    BY <1>10, <2>2, CallsAre DEF MpuTypes, CallOK
  <2>4. Come(0, 0, call.arg, call.arg)
    BY <2>3, ComeStart
  <2>5. /\ chip.mode = "receive" /\ chip.stage = "data" /\ chip.n = 0
        /\ chip.sda = 1 /\ chip.data = 0 /\ chip.ptr = call.reg
    BY <1>2, <1>10 DEF Listens, StageAfter
  <2>6. AtWrite'
    BY <1>2, <1>3, <1>5, <1>10, <2>1, <2>3, <2>4, <2>5 DEF AtWrite, StageOf
  <2>7. call'.at < Len(call'.steps)
    <3>1. 4 < Len(call.steps) /\ Len(call.steps) \in Nat
      BY <1>1, StopsLast
    <3> QED BY <1>3, <2>1, <3>1
  <2> QED BY <1>8, <1>10, <2>1, <2>3, <2>5, <2>6, <2>7
<1>11. CASE chip.here /\ call.at = 3 /\ call.kind = "read"
  <2>1. call'.at = 4 /\ Step' = call.steps[4]
    BY <1>3, <1>5, <1>11
  <2>2. Step'.routine = "start"
    BY <1>1, <1>11, <2>1, ProgramIs, CallsAre
  <2>5. /\ chip.mode = "receive" /\ chip.n = 0
        /\ chip.sda = 1 /\ chip.data = 0 /\ chip.ptr = call.reg
    BY <1>2, <1>11 DEF Listens
  <2>6. AtStart'
    BY <1>2, <1>3, <1>11, <2>1, <2>5 DEF AtStart, First
  <2>7. call'.at < Len(call'.steps)
    BY <1>1, <1>3, <1>11, <2>1, StopsLast
  <2> QED BY <1>8, <1>11, <2>1, <2>2, <2>5, <2>6, <2>7
<1>12. CASE chip.here /\ At_("write", 4)
  <2>0. call.at = 4 /\ call.kind = "write"
    BY <1>12 DEF At_
  <2>1. call'.at = 5 /\ Len(call.steps) = 5
    BY <1>1, <1>3, <1>12, <2>0, StopsLast
  <2>2. Step'.routine = "stop"
    BY <1>1, <1>3, <1>5, <2>1, StopsLast, CallsAre
  <2>3. Succeeded'
    BY <1>2, <1>3, <1>12, <2>0 DEF Succeeded
  <2>4. /\ chip.mode = "receive" /\ chip.n = 0 /\ chip.sda = 1
    BY <1>2, <1>12, <2>0 DEF Listens
  <2>5. AtStop'
    BY <1>2, <1>3, <2>3, <2>4 DEF AtStop
  <2>6. /\ ~ (call'.at < Len(call'.steps))
        /\ ~ (call'.at \in 3 .. Len(call'.steps) - 1)
        /\ call'.kind # "read"
    BY <1>3, <2>0, <2>1
  <2> QED BY <1>5, <1>6, <2>2, <2>5, <2>6 DEF Placed
<1>13. CASE chip.here /\ At_("read", 5)
  <2>0. call.at = 5 /\ call.kind = "read"
    BY <1>13 DEF At_
  <2>1. call'.at = 6 /\ Step' = call.steps[6]
    BY <1>3, <1>5, <1>13, <2>0
  <2>2. Step'.routine = "read"
    <3> DEFINE k == 1
    <3>1. k \in 1 .. call.arg /\ k + 5 = 6
      BY <1>1, <2>0, StopsLast
    <3>2. \A j \in 1 .. call.arg : call.steps[j + 5] = Reads(j < call.arg)
      BY <2>0, ProgramIs
    <3> HIDE DEF k
    <3>3. call.steps[k + 5] = Reads(k < call.arg)
      BY <3>1, <3>2
    <3> QED BY <2>1, <3>1, <3>3, CallsAre
  <2>3. Len(call.buffer) = 0
    BY <2>0 DEF MpuTypes, BufferOK
  <2>4. frame'.c = 0
    <3> DEFINE k == 1
    <3>1. k \in 1 .. call.arg /\ k + 5 = 6
      BY <1>1, <2>0, StopsLast
    <3>2. \A j \in 1 .. call.arg : call.steps[j + 5] = Reads(j < call.arg)
      BY <2>0, ProgramIs
    <3> HIDE DEF k
    <3>3. call.steps[k + 5] = Reads(k < call.arg)
      BY <3>1, <3>2
    <3> QED BY <1>5, <2>1, <3>1, <3>3 DEF Reads, Calls
  <2>5. chip.ptr = call.reg /\ Sends(1, 0)
    BY <1>2, <1>13, <2>0
  <2>6. chip'.ptr = Due'
    <3>1. call.reg \in RegNos /\ call.reg + 0 = call.reg
      BY ByteSizes DEF MpuTypes, CallSet, RegNos
    <3>2. call.reg % Registers = call.reg
      BY <3>1, ByteSizes, SmallMod DEF RegNos
    <3>3. (call.reg + 0) % Registers = call.reg
      BY <3>1, <3>2
    <3> QED BY <1>3, <2>3, <2>5, <3>3 DEF Due
  <2>7. Sends(frame.i + 1, frame.c)'
    <3>1. frame'.i + 1 = 1
      BY <1>3
    <3>2. Sends(1, 0)'
      BY <1>3, <2>5 DEF Sends
    <3> QED BY <2>4, <3>1, <3>2
  <2>8. AtRead'
    BY <1>2, <1>3, <1>13, <2>4, <2>5, <2>6, <2>7 DEF AtRead
  <2>9. call'.at < Len(call'.steps)
    <3>1. 6 < Len(call.steps) /\ Len(call.steps) \in Nat
      BY <1>1, <2>0, StopsLast
    <3> QED BY <1>3, <2>1, <3>1
  <2> QED BY <1>8, <1>13, <2>1, <2>2, <2>8, <2>9
<1> QED BY <1>1, <1>4, <1>7, <1>9, <1>10, <1>11, <1>12, <1>13, StopsLast

-----------------------------------------------------------------------------
(* i2c_read. *)
LEMMA Read1 ==
  ASSUME MpuTypes, AtRead, SetSda, On("read", 1, Sda(1))
  PROVE  AtRead' /\ Kept
<1>1. PutSda(1) /\ GoOn
  BY LineIs DEF SetSda, On
<1>2. /\ frame.line = 1 /\ frame'.line = 2 /\ frame'.c = frame.c
      /\ frame'.i = frame.i
  BY <1>1, OnIs DEF On
<1>3. chip' = chip /\ Same /\ out'.sda = 1 /\ out'.scl = 0
  BY <1>1, <1>2, PutLow DEF AtRead
<1>4. Sends(frame.i + 1, frame.c)' /\ Due' = Due
  BY <1>2, <1>3 DEF AtRead, Same, Sends, Due
<1>5. Kept
  BY <1>3 DEF Same, Kept, RegsKept
<1>6. AtRead'
  BY <1>2, <1>3, <1>4 DEF AtRead, Same
<1> QED BY <1>5, <1>6

LEMMA Read2 ==
  ASSUME MpuTypes, AtRead, SetScl, On("read", 2, Scl(1))
  PROVE  AtRead' /\ Kept
<1>1. Here.arg = 1 /\ Here.back = 0
  BY LineIs DEF On
<1>2. /\ frame.line = 2 /\ frame'.line = 3 /\ frame'.i = frame.i
      /\ frame'.c = frame.c /\ out'.sda = out.sda /\ out'.scl = 1
      /\ Same
      /\ chip.hold => chip' = chip
      /\ ~chip.hold /\ out.scl = 0 => Risen(SDA)
  BY <1>1, Raises DEF On
<1>3. out.scl = 0 /\ out.sda = 1 /\ Sends(frame.i + 1, frame.c)
  BY <1>2 DEF AtRead
<1>4. /\ chip'.mode = chip.mode /\ chip'.n = chip.n /\ chip'.data = chip.data
      /\ chip'.sda = chip.sda /\ chip'.ptr = chip.ptr
      /\ chip'.here = chip.here
  BY <1>2, <1>3 DEF Risen, Sends
<1>5. Sends(frame.i + 1, frame.c)' /\ Due' = Due
  BY <1>2, <1>3, <1>4 DEF Sends, Same, Due
<1> QED BY <1>2, <1>3, <1>4, <1>5 DEF AtRead, Same, Kept, RegsKept, OutIs

LEMMA Read3 ==
  ASSUME MpuTypes, AtRead, ClockIsHigh, On("read", 3, Wait8)
  PROVE  AtRead' /\ Kept
<1>1. frame.line = 3 /\ frame'.line = 4
  BY Waits DEF On
<1>2. Sends(frame.i + 1, frame.c)' /\ Due' = Due
  BY <1>1, Waits DEF AtRead, Sends, Same, Due
<1> QED BY <1>1, <1>2, Waits DEF AtRead, Same, OutIs

LEMMA Read4 ==
  ASSUME MpuTypes, AtRead, ShiftIn, Step.routine = "read", frame.line = 4
  PROVE  AtRead' /\ Kept
<1>1. /\ frame'.line = 5 /\ frame'.c = 2 * frame.c + SDA
      /\ frame'.i = frame.i
      /\ UNCHANGED <<call, out, chip, regs, acks>>
  BY ShiftInTypes
<1>2. /\ OutIs(1, 1) /\ ~chip.hold /\ Sends(frame.i + 1, frame.c)
  BY <1>1 DEF AtRead
<1>3. SDA = chip.sda
  BY <1>2, Signals, ChipIs DEF OutIs
<1>4. Midway(frame.i + 1, frame.c)'
  BY <1>1, <1>2, <1>3 DEF Sends, Midway
<1>5. Step' = Step /\ Due' = Due
  BY <1>1, SameCall DEF Due
<1>6. Kept
  BY <1>1, <1>5 DEF Kept, RegsKept
<1>7. AtRead'
  BY <1>1, <1>2, <1>4, <1>5 DEF AtRead, OutIs
<1> QED BY <1>6, <1>7

(* A bit of the byte follows, or the byte is complete. *)
LEMMA SendStep ==
  ASSUME NEW k \in 0 .. Bits - 1, NEW c \in Nat, NEW d \in Byte,
         NEW r \in Nat, c * Pow[Bits] + d = r * Pow[k]
  PROVE  (2 * c + FirstBit(d)) * Pow[Bits] + ShiftedOut(d) = r * Pow[k + 1]
<1> DEFINE P == Pow[Bits]
           p == Pow[k]
           f == FirstBit(d)
           s == ShiftedOut(d)
           x == c * P
           y == r * p
           z == f * P
<1>1. P \in Nat /\ p \in Nat /\ d \in Nat
  BY ByteSizes, ByteIs, PowPositive
<1>2. f \in {0, 1} /\ s \in Nat /\ 2 * d = z + s
  BY ShiftIs, ByteIs
<1>3. Pow[k + 1] = 2 * p
  BY PowIs
<1>4. x + d = y
  OBVIOUS
<1> SUFFICES (2 * c + f) * P + s = r * (2 * p)
  BY <1>3
<1> HIDE DEF P, p, f, s
<1>5. x \in Int /\ y \in Int /\ z \in Int
  BY <1>1, <1>2
<1>6. (2 * c + f) * P = 2 * x + z
  BY <1>1, <1>2
<1>7. r * (2 * p) = 2 * y
  BY <1>1
<1> HIDE DEF x, y, z
<1> QED BY <1>1, <1>2, <1>4, <1>5, <1>6, <1>7

LEMMA Read5 ==
  ASSUME MpuTypes, Busy, AtRead, SetScl, On("read", 5, LoopTo(2))
  PROVE  AtRead' /\ Kept
<1>1. Here.arg = 0 /\ Here.back = 2
  BY LineIs DEF On
<1>2. /\ frame.line = 5 /\ frame'.i = frame.i + 1 /\ frame'.c = frame.c
      /\ frame'.line = IF frame.i + 1 < Bits THEN 2 ELSE 6
  BY <1>1, SclFrame DEF On
<1>3. /\ out.sda = 1 /\ out.scl = 1 /\ ~chip.hold /\ chip.mode = "send"
      /\ chip.n = frame.i + 1
      /\ frame.c * Pow[Bits] + chip.data = regs[chip.ptr] * Pow[frame.i + 1]
      /\ acks = 0 /\ chip.here /\ chip.ptr = Due
  BY <1>2 DEF AtRead, OutIs, Midway
<1>4. /\ call' = call /\ Step' = Step /\ out'.sda = out.sda /\ out'.scl = 0
      /\ chip' = Falls(chip) /\ ~chip'.hold /\ chip'.here = chip.here
      /\ regs' = IF Stores(chip)
                 THEN [regs EXCEPT ![chip.ptr] = chip.data]
                 ELSE regs
      /\ acks' = IF chip'.mode = "acknowledge" /\ chip.mode # "acknowledge"
                 THEN acks + 1
                 ELSE acks
  BY <1>1, <1>3, Lowers
<1>5. /\ frame.i \in Nat /\ Bits \in Nat /\ frame.i < Bits
      /\ frame.c \in Nat /\ chip.data \in Byte
      /\ chip.ptr \in RegNos /\ regs[chip.ptr] \in Byte
  <2>1. Step.routine = "read" /\ frame.line <= 5
    BY <1>2 DEF On
  <2>2. frame.i < Bits
    BY <2>1 DEF MpuTypes, FrameOK
  <2>3. chip.data \in Byte /\ chip.ptr \in RegNos
    BY <1>3, Signals, ChipIs
  <2>4. regs[chip.ptr] \in Byte
    BY <2>3 DEF MpuTypes
  <2> QED BY <2>2, <2>3, <2>4, FrameIs, ByteSizes
<1>6. regs' = regs /\ Due' = Due
  BY <1>3, <1>4 DEF Stores, Due
<1>7. CASE frame.i + 1 < Bits
  <2>1. chip.n # Bits /\ chip.n \in 0 .. Bits - 1
    BY <1>3, <1>5, <1>7
  <2>2. chip' = SendBit(chip, chip.data, chip.n)
    BY <1>3, <1>4, <2>1, FallsIs, Signals
  <2>3. /\ chip'.mode = "send" /\ chip'.n = chip.n + 1
        /\ chip'.data = ShiftedOut(chip.data)
        /\ chip'.sda = FirstBit(chip.data) /\ chip'.ptr = chip.ptr
    BY <1>5, <2>1, <2>2, SendBitIs, Signals
  <2>4. (2 * frame.c + FirstBit(chip.data)) * Pow[Bits] + ShiftedOut(chip.data)
           = regs[chip.ptr] * Pow[chip.n + 1]
    <3>1. regs[chip.ptr] \in Nat
      BY <1>5, ByteIs
    <3>2. frame.c * Pow[Bits] + chip.data = regs[chip.ptr] * Pow[chip.n]
      BY <1>3
    <3> QED BY <1>5, <2>1, <3>1, <3>2, SendStep
  <2>5. Sends(frame.i + 1, frame.c)'
    <3>1. chip'.n = frame'.i + 1
      BY <1>2, <1>3, <2>3
    <3>2. (2 * frame'.c + chip'.sda) * Pow[Bits] + chip'.data
            = regs'[chip'.ptr] * Pow[frame'.i + 1]
      BY <1>2, <1>3, <1>6, <2>3, <2>4, <3>1
    <3> QED BY <2>3, <3>1, <3>2 DEF Sends
  <2>6. frame'.line = 2 /\ acks' = acks
    BY <1>2, <1>4, <1>7, <2>3
  <2>7. Kept
    BY <1>4, <1>6, <2>3 DEF Kept, RegsKept
  <2> QED BY <1>3, <1>4, <1>6, <2>3, <2>5, <2>6, <2>7 DEF AtRead, OutIs
<1>8. CASE ~ (frame.i + 1 < Bits)
  <2>1. frame.i + 1 = Bits /\ chip.n = Bits /\ frame'.line = 6
    BY <1>2, <1>3, <1>5, <1>8
  <2>2. chip'.mode = "acked" /\ chip'.sda = 1 /\ chip'.ptr = chip.ptr
    BY <1>3, <1>4, <2>1, FallsIs, Signals
  <2>3. frame.c = regs[chip.ptr]
    <3>1. Come(Bits, frame.c, chip.data, regs[chip.ptr])
      BY <1>3, <2>1 DEF Come
    <3>2. regs[chip.ptr] \in Nat
      BY <1>5, ByteIs
    <3> QED BY <1>5, <3>1, <3>2, ComeEnd
  <2>4. acks' = acks
    BY <1>4, <2>2
  <2>5. Kept
    BY <1>4, <1>6, <2>2 DEF Kept, RegsKept
  <2> QED BY <1>2, <1>3, <1>4, <1>6, <2>1, <2>2, <2>3, <2>4, <2>5
          DEF AtRead, OutIs
<1> QED BY <1>7, <1>8

LEMMA Read6 ==
  ASSUME MpuTypes, AtRead, SendAck, Step.routine = "read", frame.line = 6
  PROVE  AtRead' /\ Kept
<1> DEFINE v == IF Step.send_ack THEN 0 ELSE 1
<1>1. PutSda(v) /\ GoOn
  <2>1. out.sda = 1
    BY DEF AtRead
  <2> QED BY <2>1 DEF SendAck
<1>2. /\ frame'.line = 7 /\ frame'.c = frame.c /\ frame'.i = frame.i
      /\ v \in {0, 1}
  BY <1>1, OnIs
<1>3. chip' = chip /\ Same /\ out'.sda = v /\ out'.scl = 0
  <2> HIDE DEF v
  <2> QED BY <1>1, <1>2, PutLow DEF AtRead
<1>4. Due' = Due
  BY <1>3 DEF Same, Due
<1>5. Kept
  BY <1>3 DEF Same, Kept, RegsKept
<1>6. AtRead'
  BY <1>2, <1>3, <1>4 DEF AtRead, Same
<1> QED BY <1>5, <1>6

LEMMA Read7 ==
  ASSUME MpuTypes, AtRead, SetScl, On("read", 7, Scl(1))
  PROVE  AtRead' /\ Kept
<1>1. Here.arg = 1 /\ Here.back = 0
  BY LineIs DEF On
<1>2. /\ frame.line = 7 /\ frame'.line = 8 /\ frame'.i = frame.i
      /\ frame'.c = frame.c /\ out'.sda = out.sda /\ out'.scl = 1
      /\ Same
      /\ chip.hold => chip' = chip
      /\ ~chip.hold /\ out.scl = 0 => Risen(SDA)
  BY <1>1, Raises DEF On
<1>3. /\ out.scl = 0 /\ chip.mode = "acked" /\ chip.sda = 1
      /\ out.sda = IF Step.send_ack THEN 0 ELSE 1
  BY <1>2 DEF AtRead
<1>4. SDA = out.sda
  BY <1>3, Signals
<1>7. Due' = Due
  BY <1>2 DEF Same, Due
<1>5. CASE chip.hold
  <2>1. Kept
    BY <1>2, <1>5 DEF Same, Kept, RegsKept
  <2>2. AtRead'
    BY <1>2, <1>3, <1>5, <1>7 DEF AtRead, Same
  <2> QED BY <2>1, <2>2
<1>6. CASE ~chip.hold
  <2>1. /\ ~chip'.hold /\ chip'.ptr = chip.ptr /\ chip'.here = chip.here
        /\ chip'.sda = 1
        /\ chip'.mode = IF Step.send_ack THEN "more" ELSE "idle"
    BY <1>2, <1>3, <1>4, <1>6 DEF Risen
  <2> QED BY <1>2, <1>3, <1>7, <2>1 DEF AtRead, Same, Kept, RegsKept
<1> QED BY <1>5, <1>6

LEMMA Read8 ==
  ASSUME MpuTypes, AtRead, ClockIsHigh, On("read", 8, Wait8)
  PROVE  AtRead' /\ Kept
<1>1. frame.line = 8 /\ frame'.line = 9
  BY Waits DEF On
<1>2. Due' = Due
  BY Waits DEF Same, Due
<1> QED BY <1>1, <1>2, Waits DEF AtRead, Same

LEMMA Read9 ==
  ASSUME MpuTypes, Busy, AtRead, SetScl, On("read", 9, Scl(0))
  PROVE  AtRead' /\ Kept
<1>1. Here.arg = 0 /\ Here.back = 0
  BY LineIs DEF On
<1>2. /\ frame.line = 9 /\ frame'.line = 10 /\ frame'.i = frame.i
      /\ frame'.c = frame.c
  BY <1>1, SclFrame DEF On
<1>3. /\ out.scl = 1 /\ ~chip.hold /\ chip.sda = 1 /\ acks = 0 /\ chip.here
      /\ out.sda = IF Step.send_ack THEN 0 ELSE 1
      /\ chip.mode = IF Step.send_ack THEN "more" ELSE "idle"
      /\ chip.ptr = Due /\ frame.c = regs[Due]
  BY <1>2 DEF AtRead
<1>4. /\ call' = call /\ Step' = Step /\ out'.sda = out.sda /\ out'.scl = 0
      /\ chip' = Falls(chip) /\ ~chip'.hold /\ chip'.here = chip.here
      /\ regs' = IF Stores(chip)
                 THEN [regs EXCEPT ![chip.ptr] = chip.data]
                 ELSE regs
      /\ acks' = IF chip'.mode = "acknowledge" /\ chip.mode # "acknowledge"
                 THEN acks + 1
                 ELSE acks
  BY <1>1, <1>3, Lowers
<1>5. regs' = regs /\ Due' = Due
  BY <1>3, <1>4 DEF Stores, Due
<1>6. ~ (call.at \in {4, 5})
  <2>1. call.at \in 6 .. call.arg + 5 /\ call.arg \in Nat /\ call.at \in Nat
    BY RoutineIs DEF On, MpuTypes, CallSet
  <2> QED BY <2>1
<1>7. CASE Step.send_ack
  <2> DEFINE q == (chip.ptr + 1) % Registers
  <2>1. q \in RegNos /\ q = After(Due)
    <3>1. chip.ptr \in RegNos
      BY Signals, ChipIs
    <3>2. chip.ptr + 1 \in Nat
      BY <3>1, ByteSizes DEF RegNos
    <3> QED BY <1>3, <3>2, ByteSizes, ModHas DEF RegNos, After
  <2>2. chip' = SendFrom(chip, q)
    BY <1>3, <1>4, <1>7, FallsIs, Signals
  <2> HIDE DEF q
  <2>3. /\ chip'.mode = "send" /\ chip'.n = 1
        /\ chip'.data = ShiftedOut(regs[q])
        /\ chip'.sda = FirstBit(regs[q]) /\ chip'.ptr = q
    BY <2>1, <2>2, SendFromIs, Signals
  <2>4. (2 * 0 + FirstBit(regs[q])) * Pow[Bits] + ShiftedOut(regs[q])
           = regs[q] * Pow[1]
    <3> DEFINE r == regs[q]
               f == FirstBit(r)
               s == ShiftedOut(r)
               P == Pow[Bits]
    <3>1. regs[q] \in Byte
      BY <2>1 DEF MpuTypes
    <3>2. /\ f \in {0, 1} /\ s \in Nat /\ 2 * r = f * P + s /\ r \in Nat
          /\ P \in Nat /\ Pow[1] = 2
      BY <3>1, ShiftIs, ByteIs, ByteSizes
    <3> HIDE DEF r, f, s, P
    <3>3. (2 * 0 + f) * P + s = r * 2
      BY <3>2
    <3> QED BY <3>2, <3>3 DEF r, f, s, P
  <2>5. Sends(1, 0)'
    BY <1>5, <2>3, <2>4 DEF Sends
  <2>6. acks' = acks /\ chip'.ptr = After(Due)
    BY <1>4, <2>1, <2>3
  <2>7. After(Due)' = After(Due)
    BY <1>5 DEF After
  <2>8. Kept
    BY <1>4, <1>5, <1>6 DEF Kept, RegsKept
  <2> QED BY <1>2, <1>3, <1>4, <1>5, <1>7, <2>5, <2>6, <2>7, <2>8 DEF AtRead
<1>8. CASE ~Step.send_ack
  <2>1. chip' = chip /\ chip.mode = "idle"
    BY <1>3, <1>4, <1>8, FallsIs, Signals
  <2>2. Quiet' /\ acks' = acks
    BY <1>3, <1>4, <2>1 DEF Quiet
  <2>3. Kept
    BY <1>4, <1>5, <1>6 DEF Kept, RegsKept
  <2> QED BY <1>2, <1>3, <1>4, <1>5, <1>8, <2>2, <2>3 DEF AtRead
<1> QED BY <1>7, <1>8

LEMMA Read10 ==
  ASSUME MpuTypes, Placed, Returns, Step.routine = "read", frame.line = 10
  PROVE  Placed'
<1> DEFINE got == Len(call.buffer)
<1>1. Busy /\ AtRead /\ Got
  BY ReturnIs DEF Placed
<1>2. /\ out.scl = 0 /\ acks = 0 /\ chip.here /\ frame.c = regs[Due]
      /\ out.sda = IF Step.send_ack THEN 0 ELSE 1
      /\ ~Step.send_ack => Quiet
      /\ Step.send_ack => Sends(1, 0) /\ chip.ptr = After(Due)
  BY <1>1 DEF AtRead
<1>3. /\ call'.at = call.at + 1 /\ NextAt = call.at + 1
      /\ call'.kind = call.kind /\ call'.steps = call.steps
      /\ call'.reg = call.reg /\ call'.arg = call.arg
      /\ call'.buffer = Append(call.buffer, frame.c) /\ acks' = 0
      /\ frame'.line = 1 /\ frame'.i = 0
      /\ call'.ret = IF call.at + 1 = Len(call.steps) THEN 1 ELSE call.ret
      /\ UNCHANGED <<out, chip, regs>>
      /\ call.at \in Nat /\ Len(call.steps) \in Nat
  BY <1>2, ReturnIs DEF NextAt, Ok
<1>4. /\ call.kind = "read" /\ call.at \in 6 .. call.arg + 5
      /\ Step.send_ack = (call.at - 5 < call.arg)
      /\ call.arg \in Nat /\ Len(call.steps) = call.arg + 6
      /\ got = call.at - 6
  BY <1>1, RoutineIs, StopsLast DEF MpuTypes, BufferOK
<1>5. call.buffer \in Seq(Nat) /\ got \in Nat /\ call.reg \in Nat
  <2>1. call.buffer \in Seq(Nat) /\ call.reg \in RegNos
    BY DEF MpuTypes, CallSet
  <2>2. call.reg \in Nat
    BY <2>1, RegIsByte
  <2>3. got \in Nat
    BY <2>1
  <2> QED BY <2>1, <2>2, <2>3
<1>6. /\ Len(call'.buffer) = got + 1
      /\ \A k \in 1 .. got : call'.buffer[k] = call.buffer[k]
      /\ call'.buffer[got + 1] = frame.c
  BY <1>3, <1>5, FrameIs
<1> HIDE DEF got
<1>13. /\ call.at - 5 < call.arg =>
             /\ call.at - 4 \in 1 .. call.arg
             /\ call.at - 4 + 5 = call.at + 1
             /\ call.at + 1 < call.arg + 6 /\ call.at + 1 >= 6
       /\ ~ (call.at - 5 < call.arg) =>
             call.at + 1 = call.arg + 6 /\ got + 1 = call.arg
  <2> DEFINE a == call.at
             n == call.arg
  <2>1. a \in Nat /\ n \in Nat /\ a \in 6 .. n + 5 /\ got = a - 6
    BY <1>3, <1>4
  <2> HIDE DEF a, n
  <2>2. /\ a - 5 < n => a - 4 \in 1 .. n /\ a - 4 + 5 = a + 1
                         /\ a + 1 < n + 6 /\ a + 1 >= 6
        /\ ~ (a - 5 < n) => a + 1 = n + 6 /\ got + 1 = n
    BY <2>1
  <2> QED BY <2>2 DEF a, n
<1>7. Got'
  <2> SUFFICES ASSUME NEW k \in 1 .. Len(call'.buffer)
               PROVE  call'.buffer[k]
                        = regs'[(call'.reg + k - 1) % Registers]
    BY DEF Got
  <2>1. CASE k \in 1 .. got
    <3>1. call.buffer[k] = regs[(call.reg + k - 1) % Registers]
      BY <1>1, <1>4, <2>1 DEF Got, got
    <3> QED BY <1>3, <1>6, <2>1, <3>1
  <2>2. CASE k = got + 1
    <3>1. call.reg + k - 1 = call.reg + got
      BY <1>5, <2>2
    <3>2. regs[(call.reg + k - 1) % Registers] = regs[Due]
      BY <3>1 DEF Due, got
    <3> QED BY <1>2, <1>3, <1>6, <2>2, <3>2
  <2> QED BY <1>5, <1>6, <2>1, <2>2
<1>8. Due' = After(Due)
  <2>1. Due' = (call.reg + (got + 1)) % Registers
    BY <1>3, <1>6 DEF Due
  <2>2. call.reg + got \in Nat /\ call.reg + (got + 1) = (call.reg + got) + 1
    BY <1>5
  <2>3. (((call.reg + got) % Registers) + 1) % Registers
           = ((call.reg + got) + 1) % Registers
    BY <2>2, ByteSizes, NextModulo
  <2> QED BY <2>1, <2>2, <2>3 DEF Due, After, got
<1>9. call.ret = 0 /\ call.at < Len(call.steps)
  <2>1. call.at < Len(call.steps)
    BY <1>3, <1>4
  <2> QED BY <1>1, <2>1 DEF Placed
<1>10. Busy' /\ Step' = call.steps[call.at + 1] /\ frame'.c = Step'.c
  <2>1. NextAt <= Len(call.steps)
    BY <1>3, <1>9
  <2> QED BY <1>3, <2>1, NextStep
<1>11. CASE call.at - 5 < call.arg
  <2> DEFINE k == call.at - 4
  <2>1. k \in 1 .. call.arg /\ k + 5 = call.at + 1
    BY <1>11, <1>13
  <2>2. \A j \in 1 .. call.arg : call.steps[j + 5] = Reads(j < call.arg)
    BY <1>4, ProgramIs
  <2> HIDE DEF k
  <2>3. call.steps[k + 5] = Reads(k < call.arg)
    BY <2>1, <2>2
  <2>4. Step'.routine = "read" /\ frame'.c = 0
    BY <1>10, <2>1, <2>3, CallsAre DEF Reads, Calls
  <2>5. Step.send_ack
    BY <1>4, <1>11
  <2>6. Sends(frame.i + 1, frame.c)'
    <3>1. frame'.i + 1 = 1
      BY <1>3
    <3>2. Sends(1, 0)'
      BY <1>2, <1>3, <2>5 DEF Sends
    <3> QED BY <2>4, <3>1, <3>2
  <2>7. AtRead'
    <3>1. chip'.ptr = Due'
      BY <1>2, <1>3, <1>8, <2>5
    <3> QED BY <1>2, <1>3, <2>4, <2>6, <3>1 DEF AtRead
  <2>8. call'.at < Len(call'.steps) /\ ~ (call'.at \in {4, 5}) /\ call'.ret = 0
    <3>1. call.at + 1 < call.arg + 6 /\ call.at + 1 >= 6
      BY <1>11, <1>13
    <3>2. call'.at < Len(call'.steps)
      BY <1>3, <1>4, <3>1
    <3>3. ~ (call'.at \in {4, 5})
      BY <1>3, <3>1
    <3>4. call'.ret = 0
      BY <1>3, <1>9, <3>2
    <3> QED BY <3>2, <3>3, <3>4
  <2> QED BY <1>2, <1>3, <1>7, <1>10, <2>4, <2>7, <2>8 DEF Placed
<1>12. CASE ~ (call.at - 5 < call.arg)
  <2>1. call.at + 1 = Len(call.steps) /\ got + 1 = call.arg /\ ~Step.send_ack
    BY <1>4, <1>12, <1>13
  <2>2. Step'.routine = "stop"
    BY <1>1, <1>10, <2>1, StopsLast, CallsAre
  <2>3. Succeeded'
    BY <1>2, <1>3, <1>4, <1>6, <2>1 DEF Succeeded
  <2>4. AtStop'
    BY <1>2, <1>3, <2>1, <2>3 DEF AtStop, Quiet
  <2>5. /\ ~ (call'.at < Len(call'.steps))
        /\ ~ (call'.at \in 3 .. Len(call'.steps) - 1)
        /\ ~ (call'.at \in {4, 5})
    BY <1>3, <1>4, <2>1
  <2> QED BY <1>7, <1>10, <2>2, <2>4, <2>5 DEF Placed
<1> QED BY <1>11, <1>12

-----------------------------------------------------------------------------
(* i2c_stop. *)
LEMMA SameKeeps ==
  ASSUME Same, chip'.here = chip.here, chip'.ptr = chip.ptr
  PROVE  Kept
  BY DEF Same, Kept, RegsKept

LEMMA SucceededStays ==
  ASSUME Succeeded, Same, chip'.here = chip.here
  PROVE  Succeeded'
  BY DEF Succeeded, Same

LEMMA Stop1 ==
  ASSUME MpuTypes, AtStop, SetSda, On("stop", 1, Sda(0))
  PROVE  AtStop' /\ Kept
<1>1. PutSda(0) /\ GoOn
  BY LineIs DEF SetSda, On
<1>2. frame.line = 1 /\ frame'.line = 2
  BY <1>1, OnIs DEF On
<1>3. chip' = chip /\ Same /\ out'.sda = 0 /\ out'.scl = 0
  BY <1>1, <1>2, PutLow DEF AtStop
<1>4. call'.ret = 1 => Succeeded'
  BY <1>3, SucceededStays DEF AtStop, Same
<1> QED BY <1>2, <1>3, <1>4, SameKeeps DEF AtStop, Same, Quiet, OutIs

LEMMA Stop2 ==
  ASSUME MpuTypes, AtStop, SetScl, On("stop", 2, Scl(1))
  PROVE  AtStop' /\ Kept
<1>1. Here.arg = 1 /\ Here.back = 0
  BY LineIs DEF On
<1>2. /\ frame.line = 2 /\ frame'.line = 3
      /\ out'.sda = out.sda /\ out'.scl = 1
      /\ Same
      /\ chip.hold => chip' = chip
      /\ ~chip.hold /\ out.scl = 0 => Risen(SDA)
  BY <1>1, Raises DEF On
<1>3. /\ out.scl = 0 /\ out.sda = 0
      /\ \/ Quiet
         \/ chip.mode = "receive" /\ chip.sda = 1 /\ chip.n = 0
  BY <1>2 DEF AtStop, OutIs
<1>4. /\ chip'.here = chip.here /\ chip'.ptr = chip.ptr
      /\ \/ Quiet'
         \/ /\ chip'.mode = "receive" /\ chip'.sda = 1
            /\ chip'.n = 0 \/ ~chip'.hold
  <2>1. CASE chip.hold
    BY <1>2, <1>3, <2>1 DEF Quiet
  <2>2. CASE ~chip.hold
    <3>1. Risen(SDA)
      BY <1>2, <1>3, <2>2
    <3>2. CASE Quiet
      BY <3>1, <3>2 DEF Quiet, Risen
    <3>3. CASE chip.mode = "receive" /\ chip.sda = 1
      BY <3>1, <3>3 DEF Risen
    <3> QED BY <1>3, <3>2, <3>3
  <2> QED BY <2>1, <2>2
<1>5. call'.ret = 1 => Succeeded'
  BY <1>2, <1>4, SucceededStays DEF AtStop, Same
<1>6. OutIs(0, 1)'
  BY <1>2, <1>3 DEF OutIs
<1> QED BY <1>2, <1>4, <1>5, <1>6, SameKeeps DEF AtStop, Same

LEMMA Stop3 ==
  ASSUME MpuTypes, AtStop, ClockIsHigh, On("stop", 3, Wait8)
  PROVE  AtStop' /\ Kept
<1>1. frame.line = 3 /\ frame'.line = 4
  BY Waits DEF On
<1>2. call'.ret = 1 => Succeeded'
  BY Waits, SucceededStays DEF AtStop, Same
<1> QED BY <1>1, <1>2, Waits DEF AtStop, Same, Quiet, OutIs

LEMMA Stop4 ==
  ASSUME MpuTypes, Busy, AtStop, SetSda, On("stop", 4, Sda(1))
  PROVE  AtStop' /\ Kept
<1>1. PutSda(1) /\ GoOn
  BY LineIs DEF SetSda, On
<1>2. frame.line = 4 /\ frame'.line = 5
  BY <1>1, OnIs DEF On
<1>3. out.sda = 0 /\ out.scl = 1 /\ ~chip.hold /\ chip.sda = 1
  BY <1>2 DEF AtStop, OutIs, Quiet
<1>4. /\ Same /\ out'.sda = 1 /\ out'.scl = 1
      /\ chip'.mode = "idle" /\ chip'.sda = 1
      /\ ~chip'.hold /\ chip'.here = chip.here
  BY <1>1, <1>3, PutStop
<1>5. call'.ret = 1 => Succeeded'
  BY <1>4, SucceededStays DEF AtStop, Same
<1>6. ~ (call.kind = "read" /\ call.at \in {4, 5})
  <2>1. call.at = Len(call.steps)
    BY RoutineIs DEF On
  <2> DEFINE n == Len(call.steps)
  <2>2. call.kind = "read" => 6 < n /\ n \in Nat
    BY StopsLast
  <2>3. call.at = n
    BY <2>1
  <2> HIDE DEF n
  <2>4. 6 < n /\ n \in Nat => n # 4 /\ n # 5
    OBVIOUS
  <2> QED BY <2>2, <2>3, <2>4
<1>7. Kept
  BY <1>4, <1>6 DEF Kept, Same, RegsKept
<1> QED BY <1>2, <1>4, <1>5, <1>7 DEF AtStop, Same, OutIs, Quiet

LEMMA Stop5 ==
  ASSUME MpuTypes, Placed, Returns, Step.routine = "stop", frame.line = 5
  PROVE  Placed'
<1>1. Busy /\ AtStop /\ Got /\ call.at = Len(call.steps)
  BY ReturnIs, RoutineIs DEF Placed
<1>2. /\ acks = 0 /\ (call.ret = 1 => Succeeded) /\ OutIs(1, 1) /\ Quiet
  BY <1>1 DEF AtStop
<1>3. /\ call'.at = call.at + 1 /\ NextAt = call.at + 1
      /\ call'.kind = call.kind /\ call'.steps = call.steps
      /\ call'.reg = call.reg /\ call'.arg = call.arg
      /\ call'.buffer = call.buffer /\ acks' = 0
      /\ call'.ret = IF call.at + 1 = Len(call.steps) THEN 1 ELSE call.ret
      /\ UNCHANGED <<out, chip, regs>>
      /\ call.at \in Nat /\ Len(call.steps) \in Nat
  BY <1>2, ReturnIs DEF NextAt, Ok
<1>4. call'.ret = call.ret /\ ~Busy'
  BY <1>1, <1>3 DEF Busy
<1>5. Got'
  BY <1>1, <1>3 DEF Got
<1>6. AtRest'
  BY <1>2, <1>3, <1>4 DEF AtRest, OutIs, Quiet, Succeeded
<1> QED BY <1>4, <1>5, <1>6 DEF Placed

-----------------------------------------------------------------------------
(* The sensor holds the clock and lets it go. *)
AllButHold ==
  /\ chip'.mode = chip.mode /\ chip'.stage = chip.stage
  /\ chip'.ptr = chip.ptr /\ chip'.n = chip.n /\ chip'.data = chip.data
  /\ chip'.sda = chip.sda /\ chip'.here = chip.here

LEMMA HoldIs ==
  ASSUME MpuTypes, Hold
  PROVE  /\ Same /\ UNCHANGED <<out, frame, calls, gave>> /\ AllButHold
         /\ out.scl = 0 /\ chip.mode # "idle" /\ chip.here
<1>1. /\ chip' = [chip EXCEPT !.hold = TRUE] /\ out.scl = 0
      /\ chip.mode # "idle" /\ chip.here
      /\ UNCHANGED <<call, frame, calls, out, regs, acks, gave>>
  BY DEF Hold
<1>2. AllButHold
  BY <1>1, Signals DEF AllButHold, ChipSet
<1> QED BY <1>1, <1>2, SameCall DEF Same

LEMMA LetsGo ==
  ASSUME MpuTypes, LetGo
  PROVE  /\ Same /\ UNCHANGED <<out, frame, calls, gave>>
         /\ chip.hold /\ ~chip'.hold
         /\ out.scl = 1 => Risen(SDA)
         /\ out.scl = 0 => AllButHold
<1>1. chip.hold /\ UNCHANGED <<call, frame, calls, out, gave>>
  BY DEF LetGo
<1>2. CASE out.scl = 1
  <2>1. Reacts(SDA, 1) /\ SCL = 0
    BY <1>1, <1>2, Signals DEF LetGo, SCL
  <2>2. chip' = Rises(chip, SDA) /\ regs' = regs /\ acks' = acks
    BY <2>1, RisingEdge, Signals
  <2>3. Risen(SDA)
    BY <2>1, <2>2, RisesIs, Signals DEF Risen
  <2> QED BY <1>1, <1>2, <2>2, <2>3, SameCall DEF Same, Risen
<1>3. CASE out.scl # 1
  <2>1. chip' = [chip EXCEPT !.hold = FALSE] /\ UNCHANGED <<regs, acks>>
    BY <1>3 DEF LetGo
  <2>2. AllButHold /\ ~chip'.hold
    BY <2>1, Signals DEF AllButHold, ChipSet
  <2> QED BY <1>1, <1>3, <2>1, <2>2, SameCall DEF Same
<1> QED BY <1>2, <1>3

(* While the clock is low this changes nothing of the transfer. *)
Low ==
  /\ Same /\ UNCHANGED <<out, frame>> /\ AllButHold /\ out.scl = 0
  /\ chip'.hold => chip.mode # "idle"

LEMMA LowStart ==
  ASSUME MpuTypes, AtStart, Low, frame.line \in 1 .. 6,
         chip.hold \/ chip.mode # "idle"
  PROVE  AtStart'
<1>1. frame.line \in 1 .. 4 => ~First
  BY DEF AtStart, Quiet
<1>2. frame.line # 3 /\ frame.line # 4 /\ frame.line # 5
  BY DEF AtStart, OutIs, Low
<1>3. frame' = frame /\ out' = out /\ call' = call /\ acks' = acks
  BY DEF Low, Same
<1> QED BY <1>1, <1>2, <1>3
    DEF AtStart, Low, Same, AllButHold, First, Listens, OutIs

LEMMA LowWrite ==
  ASSUME MpuTypes, AtWrite, Low, frame.line \in 1 .. 10,
         chip.hold \/ chip.mode # "idle"
  PROVE  AtWrite'
<1>1. /\ frame.line \notin {3, 4, 7, 8, 9}
  BY DEF AtWrite, OutIs, Low
<1>2. /\ frame' = frame /\ out' = out /\ call' = call /\ acks' = acks
      /\ Step' = Step /\ regs' = regs
  BY DEF Low, Same
<1>3. frame.line \in 5 .. 9 => Acked' /\ chip.here
  BY <1>2 DEF AtWrite, Acked, Quiet, Low, AllButHold
<1>4. frame.line = 10 => chip.here
  BY DEF AtWrite, Quiet
<1>5. Sends(1, 0) => Sends(1, 0)'
  BY <1>2 DEF Sends, Low, AllButHold
<1>6. AllButHold
  BY DEF Low
<1>7. \A k, c, b : Come(k, chip.data, c, b) <=> Come(k, chip'.data, c, b)
  BY <1>6 DEF AllButHold
<1>8. CASE frame.line \in {1, 2}
  BY <1>2, <1>6, <1>8 DEF AtWrite, AllButHold
<1>9. CASE frame.line \in {5, 6}
  BY <1>2, <1>3, <1>6, <1>9 DEF AtWrite, AllButHold
<1>10. CASE frame.line = 10
  BY <1>2, <1>4, <1>5, <1>6, <1>10 DEF AtWrite, AllButHold, OutIs, Listens
<1> QED BY <1>1, <1>8, <1>9, <1>10

LEMMA LowRead ==
  ASSUME MpuTypes, AtRead, Low, frame.line \in 1 .. 10,
         chip.hold \/ chip.mode # "idle"
  PROVE  AtRead'
<1>1. /\ frame.line \notin {3, 4, 5, 8, 9}
  BY DEF AtRead, OutIs, Low
<1>2. /\ frame' = frame /\ out' = out /\ call' = call /\ acks' = acks
      /\ Step' = Step /\ regs' = regs
  BY DEF Low, Same
<1>3. frame.line = 10 => Step.send_ack
  BY DEF AtRead, Quiet
<1>6. AllButHold
  BY DEF Low
<1>4. Sends(1, 0) => Sends(1, 0)'
  BY <1>2, <1>6 DEF Sends, AllButHold
<1>5. Sends(frame.i + 1, frame.c) => Sends(frame.i + 1, frame.c)'
  BY <1>2, <1>6 DEF Sends, AllButHold
<1>7. Due' = Due /\ After(Due)' = After(Due)
  BY <1>2 DEF Due, After
<1>8. CASE frame.line \in {1, 2}
  BY <1>2, <1>5, <1>6, <1>7, <1>8 DEF AtRead, AllButHold
<1>9. CASE frame.line \in {6, 7}
  BY <1>2, <1>6, <1>7, <1>9 DEF AtRead, AllButHold
<1>10. CASE frame.line = 10
  BY <1>2, <1>3, <1>4, <1>6, <1>7, <1>10 DEF AtRead, AllButHold
<1> QED BY <1>1, <1>8, <1>9, <1>10

LEMMA LowStop ==
  ASSUME MpuTypes, AtStop, Low, frame.line \in 1 .. 5,
         chip.hold \/ chip.mode # "idle"
  PROVE  AtStop'
<1>1. frame.line \notin {3, 4, 5}
  BY DEF AtStop, OutIs, Low
<1>2. /\ frame' = frame /\ out' = out /\ call' = call /\ acks' = acks
      /\ Same /\ AllButHold
  BY DEF Low, Same
<1>3. call'.ret = 1 => Succeeded'
  BY <1>2, SucceededStays DEF AtStop, AllButHold
<1>4. chip'.mode = "receive" /\ chip'.sda = 1 /\ chip'.n = 0
  BY <1>1, <1>2 DEF AtStop, Quiet, AllButHold
<1> QED BY <1>1, <1>2, <1>3, <1>4 DEF AtStop, OutIs

(* The clock rises at last. *)
High ==
  /\ Same /\ UNCHANGED <<out, frame>> /\ chip.hold /\ out.scl = 1
  /\ Risen(SDA)

LEMMA HighStart ==
  ASSUME MpuTypes, AtStart, High, frame.line \in 1 .. 6
  PROVE  AtStart'
<1>1. frame.line = 3 /\ ~First
  BY DEF AtStart, OutIs, High, Quiet
<1>2. /\ frame' = frame /\ out' = out /\ call' = call /\ acks' = acks
      /\ ~chip'.hold /\ chip'.sda = chip.sda
      /\ chip.mode = "receive" => chip'.mode = "receive"
  BY DEF High, Same, Risen
<1> QED BY <1>1, <1>2 DEF AtStart, First, OutIs

LEMMA HighWrite ==
  ASSUME MpuTypes, AtWrite, High, frame.line \in 1 .. 10
  PROVE  AtWrite'
<1>1. frame.line \in {3, 7, 8}
  BY DEF AtWrite, OutIs, High
<1>2. /\ frame' = frame /\ out' = out /\ call' = call /\ acks' = acks
      /\ Step' = Step /\ regs' = regs /\ Risen(SDA)
  BY DEF High, Same
<1>3. CASE frame.line = 3
  <2>1. /\ chip.mode = "receive" /\ chip.sda = 1 /\ chip.n = frame.i
        /\ Come(frame.i + 1, 2 * chip.data + out.sda, frame.c, Step.c)
        /\ out.scl = 1
    BY <1>3 DEF AtWrite, High
  <2>2. SDA = out.sda
    BY <2>1, Signals
  <2>3. /\ ~chip'.hold /\ chip'.mode = "receive" /\ chip'.n = chip.n + 1
        /\ chip'.data = 2 * chip.data + out.sda
        /\ chip'.stage = chip.stage /\ chip'.sda = chip.sda
        /\ chip'.ptr = chip.ptr /\ chip'.here = chip.here
    BY <1>2, <2>1, <2>2 DEF Risen
  <2> QED BY <1>2, <1>3, <2>1, <2>3 DEF AtWrite
<1>4. CASE frame.line \in {7, 8}
  <2>1. Acked /\ OutIs(1, 1)
    BY <1>4 DEF AtWrite
  <2>2. /\ chip'.mode = chip.mode /\ chip'.stage = chip.stage
        /\ chip'.sda = chip.sda /\ chip'.ptr = chip.ptr
        /\ chip'.here = chip.here /\ ~chip'.hold
    BY <1>2, <2>1 DEF Acked, Quiet, Risen
  <2>3. Acked'
    BY <1>2, <2>1, <2>2 DEF Acked, Quiet
  <2> QED BY <1>2, <1>4, <2>1, <2>2, <2>3 DEF AtWrite, OutIs
<1> QED BY <1>1, <1>3, <1>4

LEMMA HighRead ==
  ASSUME MpuTypes, AtRead, High, frame.line \in 1 .. 10
  PROVE  AtRead'
<1>1. frame.line \in {3, 8}
  BY DEF AtRead, OutIs, High
<1>2. /\ frame' = frame /\ out' = out /\ call' = call /\ acks' = acks
      /\ Step' = Step /\ regs' = regs /\ Risen(SDA)
  BY DEF High, Same
<1>3. Due' = Due
  BY <1>2 DEF Due
<1>4. CASE frame.line = 3
  <2>1. Sends(frame.i + 1, frame.c)
    BY <1>4 DEF AtRead
  <2>2. /\ chip'.mode = chip.mode /\ chip'.n = chip.n
        /\ chip'.data = chip.data /\ chip'.sda = chip.sda
        /\ chip'.ptr = chip.ptr /\ chip'.here = chip.here
    BY <1>2, <2>1 DEF Risen, Sends
  <2>3. Sends(frame.i + 1, frame.c)'
    BY <1>2, <2>1, <2>2 DEF Sends
  <2> QED BY <1>2, <1>3, <1>4, <2>2, <2>3 DEF AtRead, OutIs
<1>5. CASE frame.line = 8
  <2>1. /\ chip.mode = "acked" /\ chip.sda = 1
        /\ out.sda = IF Step.send_ack THEN 0 ELSE 1
    BY <1>5 DEF AtRead, High
  <2>2. SDA = out.sda
    BY <2>1, Signals
  <2>3. /\ ~chip'.hold /\ chip'.ptr = chip.ptr /\ chip'.here = chip.here
        /\ chip'.sda = 1
        /\ chip'.mode = IF Step.send_ack THEN "more" ELSE "idle"
    BY <1>2, <2>1, <2>2 DEF Risen
  <2> QED BY <1>2, <1>3, <1>5, <2>1, <2>3 DEF AtRead
<1> QED BY <1>1, <1>4, <1>5

LEMMA HighStop ==
  ASSUME MpuTypes, AtStop, High, frame.line \in 1 .. 5
  PROVE  AtStop'
<1>1. frame.line = 3 /\ chip.mode = "receive" /\ chip.sda = 1
  BY DEF AtStop, OutIs, High, Quiet
<1>2. /\ frame' = frame /\ out' = out /\ call' = call /\ acks' = acks
      /\ Same /\ ~chip'.hold /\ chip'.here = chip.here
      /\ chip'.mode = "receive" /\ chip'.sda = 1
  BY <1>1 DEF High, Same, Risen
<1>3. call'.ret = 1 => Succeeded'
  BY <1>2, SucceededStays DEF AtStop
<1> QED BY <1>1, <1>2, <1>3 DEF AtStop, OutIs

-----------------------------------------------------------------------------
(* Every step, at its line. *)
LEMMA WithinCall ==
  ASSUME MpuTypes, Placed, Busy, Kept,
         Step.routine = "start" => AtStart',
         Step.routine = "write" => AtWrite',
         Step.routine = "read" => AtRead',
         Step.routine = "stop" => AtStop'
  PROVE  Placed'
<1>1. /\ call' = call /\ Step' = Step /\ Busy' /\ chip'.here = chip.here
      /\ call.kind = "read" => regs' = regs
      /\ call.kind = "read" /\ call.at \in {4, 5} => chip'.ptr = chip.ptr
  BY SameCall DEF Kept, RegsKept
<1>2. Got'
  BY <1>1 DEF Placed, Got
<1> QED BY <1>1, <1>2 DEF Placed

LEMMA LinesOf ==
  ASSUME MpuTypes, Busy
  PROVE  /\ Step.routine = "start" => frame.line \in 1 .. 6
         /\ Step.routine = "write" => frame.line \in 1 .. 10
         /\ Step.routine = "read" => frame.line \in 1 .. 10
         /\ Step.routine = "stop" => frame.line \in 1 .. 5
<1>1. frame.line \in 1 .. Len(Lines[Step.routine])
  BY NotLast
<1>2. /\ Step.routine = "start" => Len(Lines[Step.routine]) = 6
      /\ Step.routine = "stop" => Len(Lines[Step.routine]) = 5
      /\ Step.routine = "write" => Len(Lines[Step.routine]) = 10
      /\ Step.routine = "read" => Len(Lines[Step.routine]) = 10
  BY StartLines, StopLines, WriteLines, ReadLines
<1> QED BY <1>1, <1>2

LEMMA SetSdaPlaced ==
  ASSUME MpuTypes, Placed, SetSda
  PROVE  Placed' /\ RegsKept
<1>1. /\ Busy
      /\ \/ On("start", 1, Sda(1)) \/ On("start", 4, Sda(0))
         \/ On("stop", 1, Sda(0)) \/ On("stop", 4, Sda(1))
         \/ On("write", 5, Sda(1)) \/ On("read", 1, Sda(1))
  BY SdaLines DEF SetSda
<1>2. /\ Step.routine = "start" => AtStart
      /\ Step.routine = "write" => AtWrite
      /\ Step.routine = "read" => AtRead
      /\ Step.routine = "stop" => AtStop
  BY <1>1 DEF Placed
<1>3. CASE On("start", 1, Sda(1))
  <2>1. Step.routine = "start"
    BY <1>3 DEF On
  <2> QED BY <1>1, <1>2, <1>3, <2>1, Start1, WithinCall DEF Kept
<1>4. CASE On("start", 4, Sda(0))
  <2>1. Step.routine = "start"
    BY <1>4 DEF On
  <2> QED BY <1>1, <1>2, <1>4, <2>1, Start4, WithinCall DEF Kept
<1>5. CASE On("stop", 1, Sda(0))
  <2>1. Step.routine = "stop"
    BY <1>5 DEF On
  <2> QED BY <1>1, <1>2, <1>5, <2>1, Stop1, WithinCall DEF Kept
<1>6. CASE On("stop", 4, Sda(1))
  <2>1. Step.routine = "stop"
    BY <1>6 DEF On
  <2> QED BY <1>1, <1>2, <1>6, <2>1, Stop4, WithinCall DEF Kept
<1>7. CASE On("write", 5, Sda(1))
  <2>1. Step.routine = "write"
    BY <1>7 DEF On
  <2> QED BY <1>1, <1>2, <1>7, <2>1, Write5, WithinCall DEF Kept
<1>8. CASE On("read", 1, Sda(1))
  <2>1. Step.routine = "read"
    BY <1>8 DEF On
  <2> QED BY <1>1, <1>2, <1>8, <2>1, Read1, WithinCall DEF Kept
<1> QED BY <1>1, <1>3, <1>4, <1>5, <1>6, <1>7, <1>8

LEMMA SetSclPlaced ==
  ASSUME MpuTypes, Placed, SetScl
  PROVE  Placed' /\ RegsKept
<1>1. /\ Busy
      /\ \/ On("start", 2, Scl(1))
         \/ On("start", 5, Scl(0))
         \/ On("stop", 2, Scl(1))
         \/ On("write", 2, Scl(1))
         \/ On("write", 4, LoopTo(1))
         \/ On("write", 6, Scl(1))
         \/ On("write", 9, Scl(0))
         \/ On("read", 2, Scl(1))
         \/ On("read", 5, LoopTo(2))
         \/ On("read", 7, Scl(1))
         \/ On("read", 9, Scl(0))
  BY SclLines DEF SetScl
<1>2. /\ Step.routine = "start" => AtStart
      /\ Step.routine = "write" => AtWrite
      /\ Step.routine = "read" => AtRead
      /\ Step.routine = "stop" => AtStop
  BY <1>1 DEF Placed
<1>3. CASE On("start", 2, Scl(1))
  <2>1. Step.routine = "start"
    BY <1>3 DEF On
  <2> QED BY <1>1, <1>2, <1>3, <2>1, Start2, WithinCall DEF Kept
<1>4. CASE On("start", 5, Scl(0))
  <2>1. Step.routine = "start"
    BY <1>4 DEF On
  <2> QED BY <1>1, <1>2, <1>4, <2>1, Start5, WithinCall DEF Kept
<1>5. CASE On("stop", 2, Scl(1))
  <2>1. Step.routine = "stop"
    BY <1>5 DEF On
  <2> QED BY <1>1, <1>2, <1>5, <2>1, Stop2, WithinCall DEF Kept
<1>6. CASE On("write", 2, Scl(1))
  <2>1. Step.routine = "write"
    BY <1>6 DEF On
  <2> QED BY <1>1, <1>2, <1>6, <2>1, Write2, WithinCall DEF Kept
<1>7. CASE On("write", 4, LoopTo(1))
  <2>1. Step.routine = "write"
    BY <1>7 DEF On
  <2> QED BY <1>1, <1>2, <1>7, <2>1, Write4, WithinCall DEF Kept
<1>8. CASE On("write", 6, Scl(1))
  <2>1. Step.routine = "write"
    BY <1>8 DEF On
  <2> QED BY <1>1, <1>2, <1>8, <2>1, Write6, WithinCall DEF Kept
<1>9. CASE On("write", 9, Scl(0))
  <2>1. Step.routine = "write"
    BY <1>9 DEF On
  <2> QED BY <1>1, <1>2, <1>9, <2>1, Write9, WithinCall DEF Kept
<1>10. CASE On("read", 2, Scl(1))
  <2>1. Step.routine = "read"
    BY <1>10 DEF On
  <2> QED BY <1>1, <1>2, <1>10, <2>1, Read2, WithinCall DEF Kept
<1>11. CASE On("read", 5, LoopTo(2))
  <2>1. Step.routine = "read"
    BY <1>11 DEF On
  <2> QED BY <1>1, <1>2, <1>11, <2>1, Read5, WithinCall DEF Kept
<1>12. CASE On("read", 7, Scl(1))
  <2>1. Step.routine = "read"
    BY <1>12 DEF On
  <2> QED BY <1>1, <1>2, <1>12, <2>1, Read7, WithinCall DEF Kept
<1>13. CASE On("read", 9, Scl(0))
  <2>1. Step.routine = "read"
    BY <1>13 DEF On
  <2> QED BY <1>1, <1>2, <1>13, <2>1, Read9, WithinCall DEF Kept
<1> QED BY <1>1, <1>3, <1>4, <1>5, <1>6, <1>7, <1>8, <1>9, <1>10, <1>11,
       <1>12, <1>13

LEMMA ClockIsHighPlaced ==
  ASSUME MpuTypes, Placed, ClockIsHigh
  PROVE  Placed' /\ RegsKept
<1>1. /\ Busy
      /\ \/ On("start", 3, Wait8)
         \/ On("stop", 3, Wait8)
         \/ On("write", 3, Wait32)
         \/ On("write", 8, Wait32)
         \/ On("read", 3, Wait8)
         \/ On("read", 8, Wait8)
  BY WaitLines DEF ClockIsHigh
<1>2. /\ Step.routine = "start" => AtStart
      /\ Step.routine = "write" => AtWrite
      /\ Step.routine = "read" => AtRead
      /\ Step.routine = "stop" => AtStop
  BY <1>1 DEF Placed
<1>3. CASE On("start", 3, Wait8)
  <2>1. Step.routine = "start"
    BY <1>3 DEF On
  <2> QED BY <1>1, <1>2, <1>3, <2>1, Start3, WithinCall DEF Kept
<1>4. CASE On("stop", 3, Wait8)
  <2>1. Step.routine = "stop"
    BY <1>4 DEF On
  <2> QED BY <1>1, <1>2, <1>4, <2>1, Stop3, WithinCall DEF Kept
<1>5. CASE On("write", 3, Wait32)
  <2>1. Step.routine = "write"
    BY <1>5 DEF On
  <2> QED BY <1>1, <1>2, <1>5, <2>1, Write3, WithinCall DEF Kept
<1>6. CASE On("write", 8, Wait32)
  <2>1. Step.routine = "write"
    BY <1>6 DEF On
  <2> QED BY <1>1, <1>2, <1>6, <2>1, Write8, WithinCall DEF Kept
<1>7. CASE On("read", 3, Wait8)
  <2>1. Step.routine = "read"
    BY <1>7 DEF On
  <2> QED BY <1>1, <1>2, <1>7, <2>1, Read3, WithinCall DEF Kept
<1>8. CASE On("read", 8, Wait8)
  <2>1. Step.routine = "read"
    BY <1>8 DEF On
  <2> QED BY <1>1, <1>2, <1>8, <2>1, Read8, WithinCall DEF Kept
<1> QED BY <1>1, <1>3, <1>4, <1>5, <1>6, <1>7, <1>8

LEMMA OtherLines ==
  ASSUME MpuTypes
  PROVE  /\ ShiftOut => Busy /\ Step.routine = "write" /\ frame.line = 1
         /\ SendAck => Busy /\ Step.routine = "read" /\ frame.line = 6
         /\ ShiftIn => Busy /\ Step.routine = "read" /\ frame.line = 4
         /\ GetAck => Busy /\ On("write", 7, Op("ack"))
         /\ Returns => Busy /\ \/ Step.routine = "start" /\ frame.line = 6
                               \/ Step.routine = "write" /\ frame.line = 10
                               \/ Step.routine = "read" /\ frame.line = 10
                               \/ Step.routine = "stop" /\ frame.line = 5
<1>1. ShiftOut => Busy /\ Step.routine = "write" /\ frame.line = 1
  BY OutLines DEF ShiftOut, On
<1>2. SendAck => Busy /\ Step.routine = "read" /\ frame.line = 6
  BY SendAckLines DEF SendAck, On
<1>3. ShiftIn => Busy /\ Step.routine = "read" /\ frame.line = 4
  BY InLines DEF ShiftIn, On
<1>4. GetAck => Busy /\ On("write", 7, Op("ack"))
  BY AckLines DEF GetAck
<1>5. Returns => Busy /\ \/ Step.routine = "start" /\ frame.line = 6
                         \/ Step.routine = "write" /\ frame.line = 10
                         \/ Step.routine = "read" /\ frame.line = 10
                         \/ Step.routine = "stop" /\ frame.line = 5
  BY ReturnLines DEF Returns, On
<1> QED BY <1>1, <1>2, <1>3, <1>4, <1>5

LEMMA OthersPlaced ==
  ASSUME MpuTypes, Placed, ShiftOut \/ SendAck \/ ShiftIn \/ GetAck
  PROVE  Placed' /\ RegsKept
<1>1. CASE ShiftOut
  BY <1>1, OtherLines, Write1, WithinCall DEF Placed, Kept
<1>2. CASE SendAck
  BY <1>2, OtherLines, Read6, WithinCall DEF Placed, Kept
<1>3. CASE ShiftIn
  BY <1>3, OtherLines, Read4, WithinCall DEF Placed, Kept
<1>4. CASE GetAck
  <2>1. Step.routine = "write"
    BY <1>4, OtherLines DEF On
  <2> QED BY <1>4, <2>1, OtherLines, Write7, WithinCall DEF Placed, Kept
<1> QED BY <1>1, <1>2, <1>3, <1>4

LEMMA ReturnsPlaced ==
  ASSUME MpuTypes, MpuTypes', Placed, Returns
  PROVE  Placed' /\ RegsKept
<1>1. RegsKept
  BY ReturnIs DEF RegsKept
<1> QED BY <1>1, OtherLines, Start6, Write10, Read10, Stop5

LEMMA HoldPlaced ==
  ASSUME MpuTypes, Placed, Hold
  PROVE  Placed' /\ RegsKept
<1>1. /\ Same /\ UNCHANGED <<out, frame>> /\ AllButHold
      /\ out.scl = 0 /\ chip.mode # "idle"
  BY HoldIs
<1>2. Low /\ Kept
  BY <1>1, SameKeeps DEF Low, AllButHold
<1>3. Busy
  BY <1>1 DEF Placed, AtRest, Quiet
<1> QED BY <1>1, <1>2, <1>3, LinesOf, LowStart, LowWrite, LowRead, LowStop,
           WithinCall DEF Placed, Kept

LEMMA LetGoPlaced ==
  ASSUME MpuTypes, Placed, LetGo
  PROVE  Placed' /\ RegsKept
<1>1. /\ Same /\ UNCHANGED <<out, frame>>
      /\ chip.hold /\ ~chip'.hold
      /\ out.scl = 1 => Risen(SDA)
      /\ out.scl = 0 => AllButHold
  BY LetsGo
<1>2. Busy
  BY <1>1 DEF Placed, AtRest, Quiet
<1>3. CASE out.scl = 1
  <2>1. High /\ Kept
    BY <1>1, <1>3, SameKeeps DEF High, Risen
  <2> QED BY <1>2, <2>1, LinesOf, HighStart, HighWrite, HighRead, HighStop,
             WithinCall DEF Placed, Kept
<1>4. CASE out.scl = 0
  <2>1. Low /\ Kept
    BY <1>1, <1>4, SameKeeps DEF Low, AllButHold
  <2> QED BY <1>1, <1>2, <2>1, LinesOf, LowStart, LowWrite, LowRead, LowStop,
             WithinCall DEF Placed, Kept
<1> QED BY <1>3, <1>4, Signals

(* A call begins with i2c_start. *)
LEMMA BeginPlaced ==
  ASSUME MpuTypes, Placed, NEW c, Begin(c), c.at = 1, c.buffer = << >>,
         c.ret = 0, Len(c.steps) \in Nat, 4 < Len(c.steps),
         c.steps[1] = Starts
  PROVE  Placed' /\ RegsKept
<1>1. /\ call' = c /\ frame' = Frame(0) /\ ~Busy
      /\ UNCHANGED <<out, chip, regs, acks, gave>>
  BY DEF Begin
<1>2. frame'.line = 1
  <2> DEFINE zero == 0
  <2>1. zero \in Nat /\ frame' = Frame(zero)
    BY <1>1
  <2> HIDE DEF zero
  <2> QED BY <2>1, FramesIs
<1>3. acks = 0 /\ Quiet /\ out.sda = 1
  BY <1>1 DEF Placed, AtRest
<1>4. Quiet' /\ acks' = 0 /\ out'.sda = 1
  BY <1>1, <1>3 DEF Quiet
<1>5. First'
  BY <1>1 DEF First
<1>6. AtStart'
  BY <1>2, <1>4, <1>5 DEF AtStart
<1>7. Busy' /\ Step' = Starts /\ call'.at = 1 /\ call'.ret = 0
  BY <1>1 DEF Busy, Step
<1>8. Got'
  <2>1. Len(call'.buffer) = 0
    BY <1>1
  <2> QED BY <2>1 DEF Got
<1>9. Step'.routine = "start"
  BY <1>7, CallsAre
<1> QED BY <1>1, <1>6, <1>7, <1>8, <1>9 DEF Placed, RegsKept

LEMMA WritePlaced ==
  ASSUME MpuTypes, Placed, Write
  PROVE  Placed' /\ RegsKept
<1>1. PICK r \in RegNos, v \in Byte :
        LET c == Called("write", r, v, write_mpu_reg(r, v))
        IN  /\ Begin(c) /\ c.at = 1 /\ c.buffer = << >> /\ c.ret = 0
            /\ Len(c.steps) = 5 /\ c.reg = r /\ c.arg = v
            /\ c.steps = write_mpu_reg(c.reg, c.arg)
  BY WriteIs
<1> DEFINE c == Called("write", r, v, write_mpu_reg(r, v))
<1>2. r \in Nat /\ v \in Nat
  BY RegIsByte, ByteIs
<1>3. write_mpu_reg(r, v)[1] = Starts
  BY <1>2, WriteProgram
<1>4. c.steps[1] = Starts
  BY <1>1, <1>3
<1>5. Len(c.steps) = 5
  BY <1>1
<1> HIDE DEF c
<1>6. Len(c.steps) \in Nat /\ 4 < Len(c.steps)
  BY <1>5
<1> QED BY <1>1, <1>4, <1>6, BeginPlaced DEF c

LEMMA ReadBurstPlaced ==
  ASSUME MpuTypes, Placed, ReadBurst
  PROVE  Placed' /\ RegsKept
<1>1. PICK r \in RegNos, n \in 1 .. Registers :
        LET c == Called("read", r, n, read_mpu_reg_burst(r, n))
        IN  /\ Begin(c) /\ c.at = 1 /\ c.buffer = << >> /\ c.ret = 0
            /\ Len(c.steps) = n + 6 /\ c.reg = r /\ c.arg = n
            /\ c.steps = read_mpu_reg_burst(c.reg, c.arg)
  BY ReadBurstIs
<1> DEFINE c == Called("read", r, n, read_mpu_reg_burst(r, n))
<1>2. r \in Nat /\ n \in Nat
  BY RegIsByte
<1>3. read_mpu_reg_burst(r, n)[1] = Starts
  BY <1>2, ReadProgram
<1>4. c.steps[1] = Starts
  BY <1>1, <1>3
<1>5. Len(c.steps) = n + 6
  BY <1>1
<1> DEFINE k == Len(c.steps)
<1>6. k = n + 6 /\ n \in Nat
  BY <1>2, <1>5
<1> HIDE DEF k
<1>7. k \in Nat /\ 4 < k
  BY <1>6
<1>8. Len(c.steps) \in Nat /\ 4 < Len(c.steps)
  BY <1>7 DEF k
<1> HIDE DEF c
<1> QED BY <1>1, <1>4, <1>8, BeginPlaced DEF c

LEMMA StepPlaced ==
  ASSUME MpuTypes, Placed, MpuNext, ~gave'
  PROVE  Placed' /\ RegsKept
<1>1. MpuTypes'
  BY NextTypes
<1>2. CASE Runs
  BY <1>1, <1>2, SetSdaPlaced, SetSclPlaced, OthersPlaced, ReturnsPlaced
     DEF Runs
<1>3. CASE GiveUp
  BY <1>3, GiveUpTypes
<1> QED BY <1>2, <1>3, WritePlaced, ReadBurstPlaced, ClockIsHighPlaced,
           HoldPlaced, LetGoPlaced DEF MpuNext

LEMMA GaveStays ==
  ASSUME [MpuNext]_mpuVars
  PROVE  \/ gave' = gave
         \/ gave' = TRUE /\ regs' = regs
BY DEF MpuNext, mpuVars, Write, ReadBurst, Begin, Runs, SetSda, ShiftOut,
       SendAck, PutSda, SetScl, ShiftIn, GetAck, Returns, ClockIsHigh, GiveUp,
       Hold, LetGo

LEMMA InitPlaced ==
  ASSUME MpuInit
  PROVE  Placed
<1>1. /\ call = Called("none", 0, 0, << >>) /\ calls = 0 /\ acks = 0
      /\ out = [sda |-> 1, scl |-> 0]
      /\ chip \in {Idle} \cup {[Idle EXCEPT !.here = ~MayBeMissing]}
  BY DEF MpuInit
<1>2. /\ call.at = 1 /\ call.steps = << >> /\ call.ret = 0
      /\ call.kind = "none"
  BY <1>1 DEF Called
<1>3. ~Busy
  BY <1>2 DEF Busy
<1>4. Quiet
  BY <1>1 DEF Quiet, Idle
<1>5. Got
  BY <1>2 DEF Got
<1>6. AtRest
  BY <1>1, <1>2, <1>4 DEF AtRest
<1> QED BY <1>3, <1>5, <1>6 DEF Placed

(* The invariant. *)
LEMMA MpuInitInv == MpuInit => MpuInv
  BY InitTypes, InitPlaced DEF MpuInv

LEMMA MpuNextInv == MpuInv /\ [MpuNext]_mpuVars => MpuInv'
<1> SUFFICES ASSUME MpuInv, [MpuNext]_mpuVars PROVE MpuInv'
  OBVIOUS
<1>1. MpuTypes /\ MpuTypes'
  BY NextTypes DEF MpuInv
<1>2. ASSUME ~gave' PROVE Placed'
  <2>1. Placed
    BY <1>2, GaveStays DEF MpuInv
  <2>2. CASE MpuNext
    BY <1>1, <1>2, <2>1, <2>2, StepPlaced
  <2>3. CASE UNCHANGED mpuVars
    BY <2>1, <2>3 DEF mpuVars, Placed, Got, AtStart, AtWrite, AtRead, AtStop,
       AtRest, Succeeded, Quiet, Listens, OutIs, First, Acked, Sends, Midway,
       Due, Busy, Step
  <2> QED BY <2>2, <2>3
<1> QED BY <1>1, <1>2 DEF MpuInv

-----------------------------------------------------------------------------
LEMMA EntriesOf ==
  ASSUME NEW b \in Seq(Nat), NEW n, Len(b) = n
  PROVE  b = [k \in 1 .. n |-> b[k]]
  OBVIOUS

LEMMA InvWorks == MpuInv => CallsWork
<1> SUFFICES ASSUME MpuInv PROVE CallsWork
  OBVIOUS
<1>1. MpuTypes /\ (~gave => Placed)
  BY DEF MpuInv
<1>2. ~gave => acks \in {0, 1}
  <2> SUFFICES ASSUME ~gave PROVE acks \in {0, 1}
    OBVIOUS
  <2>1. CASE Busy
    BY <1>1, <2>1, RoutineOne
       DEF Placed, AtStart, AtWrite, AtRead, AtStop
  <2>2. CASE ~Busy
    BY <1>1, <2>2 DEF Placed, AtRest
  <2> QED BY <2>1, <2>2
<1>3. Len(call.buffer) <= Registers
  <2>1. CASE call.kind = "read"
    <3>1. /\ Len(call.buffer) <= call.arg /\ call.arg \in 1 .. Registers
          /\ call.buffer \in Seq(Nat)
      BY <1>1, <2>1 DEF MpuTypes, BufferOK, CallOK, CallSet
    <3>2. Len(call.buffer) \in Nat /\ Registers \in Nat
      BY <3>1, ByteSizes
    <3> QED BY <3>1, <3>2
  <2>2. CASE call.kind # "read"
    BY <1>1, <2>2, ByteSizes DEF MpuTypes, BufferOK
  <2> QED BY <2>1, <2>2
<1>4. MpuTypeOK
  <2>1. /\ calls \in 0 .. MaxCalls /\ gave \in BOOLEAN
        /\ out \in [sda : {0, 1}, scl : {0, 1}]
        /\ regs \in [0 .. Registers - 1 -> Byte]
        /\ call.at \in 1 .. Len(call.steps) + 1
    BY <1>1 DEF MpuTypes, CallOK, RegNos
  <2>2. call.ret \in {0, 1}
    BY <1>1 DEF MpuTypes, CallSet
  <2>3. /\ frame.ack \in {0, 1} /\ frame.i \in 0 .. Bits
    BY <1>1, FrameIs
  <2>4. chip.n \in 0 .. Bits /\ chip.ptr \in 0 .. Registers - 1
    BY <1>1, Signals, ChipIs DEF RegNos
  <2>5. ~gave => acks <= 1
    BY <1>2
  <2> QED BY <1>3, <2>1, <2>2, <2>3, <2>4, <2>5 DEF MpuTypeOK
<1>5. AckReceived
  BY <1>2 DEF AckReceived
<1>6. ASSUME NEW kind, Finished(kind)
      PROVE  AtRest /\ Succeeded /\ Got /\ call.kind = kind
  BY <1>1, <1>6 DEF Finished, Placed, AtRest
<1>7. Finished("write") => chip.here /\ regs[call.reg] = call.arg
  BY <1>6 DEF Succeeded
<1>8. ASSUME Finished("read")
      PROVE  /\ chip.here
             /\ call.buffer = [k \in 1 .. call.arg |->
                                 regs[(call.reg + k - 1) % Registers]]
  <2>1. call.kind = "read" /\ Succeeded /\ Got
    BY <1>6, <1>8
  <2>2. chip.here /\ Len(call.buffer) = call.arg /\ call.buffer \in Seq(Nat)
    BY <1>1, <2>1 DEF Succeeded, MpuTypes, CallSet
  <2>3. call.buffer = [k \in 1 .. call.arg |-> call.buffer[k]]
    BY <2>2, EntriesOf, Zenon
  <2>4. \A k \in 1 .. call.arg :
          call.buffer[k] = regs[(call.reg + k - 1) % Registers]
    BY <2>1, <2>2 DEF Got
  <2>5. [k \in 1 .. call.arg |-> call.buffer[k]]
          = [k \in 1 .. call.arg |-> regs[(call.reg + k - 1) % Registers]]
    BY <2>4
  <2> QED BY <2>2, <2>3, <2>5
<1> QED BY <1>4, <1>5, <1>7, <1>8 DEF CallsWork

LEMMA InvFree == MpuInv => BusLeftFree
<1> SUFFICES ASSUME MpuInv, ~gave, ~Busy, calls > 0
             PROVE  SDA = 1 /\ SCL = 1 /\ chip.mode = "idle"
  BY DEF BusLeftFree
<1>1. MpuTypes /\ AtRest
  BY DEF MpuInv, Placed
<1>2. /\ out.sda = 1 /\ out.scl = 1 /\ chip.sda = 1 /\ ~chip.hold
      /\ chip.mode = "idle"
  BY <1>1 DEF AtRest, Quiet
<1> QED BY <1>1, <1>2, Signals

StepWrites ==
  \A r \in DOMAIN regs : ~gave /\ regs'[r] # regs[r] =>
    call.kind = "write" /\ call.reg = r /\ call.arg = regs'[r]

LEMMA InvWrites == MpuInv /\ [MpuNext]_mpuVars => [StepWrites]_mpuVars
<1> SUFFICES ASSUME MpuInv, MpuNext, NEW r \in DOMAIN regs, ~gave,
                    regs'[r] # regs[r]
             PROVE  call.kind = "write" /\ call.reg = r /\ call.arg = regs'[r]
  BY DEF StepWrites
<1>1. MpuTypes /\ Placed
  BY DEF MpuInv
<1>2. ~gave'
  BY GaveStays
<1>3. RegsKept
  BY <1>1, <1>2, StepPlaced
<1>4. call.kind = "write" /\ regs' = [regs EXCEPT ![call.reg] = call.arg]
  BY <1>3 DEF RegsKept
<1>5. call.reg = r
  BY <1>4
<1> QED BY <1>4, <1>5

(* A call of write_mpu_reg or read_mpu_reg_burst that returns 1 has written *)
(* the register, or read all of them in order, of a sensor that is there    *)
(* (mpu-6050.c:65-122, i2c.c:141-257).                                      *)
THEOREM MpuCallsWork == MpuSpec => []CallsWork
<1>1. MpuSpec => []MpuInv
  BY MpuInitInv, MpuNextInv, PTL DEF MpuSpec
<1> QED BY <1>1, InvWorks, PTL

(* Between two calls both lines are high and the sensor has left the bus,   *)
(* also when the call has failed (i2c.c:168-182).                           *)
THEOREM MpuBusLeftFree == MpuSpec => []BusLeftFree
<1>1. MpuSpec => []MpuInv
  BY MpuInitInv, MpuNextInv, PTL DEF MpuSpec
<1> QED BY <1>1, InvFree, PTL

(* No register changes but the one that is written, and to what is written: *)
(* no change of SDA is a start or a stop that was not meant, and no bit is  *)
(* lost or counted twice (i2c.c:141-224).                                   *)
THEOREM MpuOnlyWritten == MpuSpec => OnlyRegisterWritten
<1>1. MpuSpec => []MpuInv
  BY MpuInitInv, MpuNextInv, PTL DEF MpuSpec
<1>2. MpuSpec => [][StepWrites]_mpuVars
  BY <1>1, InvWrites, PTL DEF MpuSpec
<1> QED BY <1>2 DEF OnlyRegisterWritten, StepWrites

=============================================================================
