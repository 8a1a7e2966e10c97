------------------------------- MODULE Cc2420 -------------------------------
(***************************************************************************)
(* The CC2420 driver of a sensor (core/dev/cc2420.c): the lock that defers *)
(* on and off, the frames in the receive FIFO, and the process that hands  *)
(* them to the RDC layer.                                                  *)
(*                                                                         *)
(* Two contexts execute the driver: the main loop (cc2420_process and the  *)
(* callbacks of the ctimers) and the interrupt of the rtimer, which sends  *)
(* in its slot or turns the radio on.  todo holds what a context still has *)
(* to execute, one statement after the other; calls put the statements of  *)
(* their body in front.  The main loop stands still while an interrupt is  *)
(* served and can be interrupted before every statement.                   *)
(***************************************************************************)
EXTENDS Integers, Sequences, FiniteSets

CONSTANTS
  MaxFrames,   \* bound: frames that reach the node
  Room,        \* frames the receive FIFO of the radio has room for
  MaxMet,      \* bound: slots that meet a frame or a call of the main loop
  Edges        \* does FIFOP go low and high again when a frame is read and
               \* another one follows?  Both, where the answer must not matter

ASSUME Cc2420Assumption ==
  /\ MaxFrames \in Nat /\ Room \in Nat \ {0} /\ MaxMet \in Nat
  /\ Edges \subseteq BOOLEAN /\ Edges # {}

Frames == 1 .. MaxFrames      \* in the order of their arrival
None == 0                   \* no frame; no time stamp
Rest == MaxFrames + 1       \* bytes in the FIFO that are no whole frame
Own == MaxFrames + 2       \* the frame this node has sent
Noise == MaxFrames + 3       \* what a broken transfer leaves in the buffer

VARIABLES
  drv,    \* receive_on, locked, lock_on, lock_off; a time stamp is the number
          \* of its frame: start (cc2420_sfd_start_time), last
          \* (last_packet_timestamp); polled (the process has been polled)
  chip,   \* rx (the receiver is on), air (frame being received), fifo, over
          \* (it has overflowed), ie and ifg of the FIFOP interrupt, capture
          \* (the SFD interrupt is pending), csn (who has a transfer open)
  todo,   \* statements that each context still has to execute
  buf,    \* the packet buffer: whose frame, with what time stamp, and len:
          \* the frame whose length cc2420_read has got
  heard,  \* number of the last frame that has begun
  want,   \* what was asked for last
  met     \* what slots and frames have met so far: slots, how many met a
          \* frame or a call of the main loop; release, one of them came in
          \* RELEASE_LOCK; again, one came in the same call of the main loop;
          \* queue, a frame began when another one waited

vars == <<drv, chip, todo, buf, heard, want, met>>

FIFOP(c) == c.over \/ \E i \in DOMAIN c.fifo : c.fifo[i] # Rest

flushrx(c) == [c EXCEPT !.fifo = <<>>, !.over = FALSE, !.air = None]

(* What has been received of a frame stays in the FIFO when it is cut off. *)
CutOff(c) ==
  IF c.air = None \/ Len(c.fifo) >= Room THEN [c EXCEPT !.air = None]
  ELSE [c EXCEPT !.air = None, !.fifo = Append(@, Rest)]

-----------------------------------------------------------------------------
(* The bodies of the driver's functions as sequences of statements.  The   *)
(* lock's conditional statements follow "release" if locked is 1.          *)

(* Fault: the flag is not set. *)
OnWithoutFlag == <<"enable", "select", "SRXON">>

On == <<"enable", "select", "SRXON", "receive_on">>
Off == <<"receive_off", "select", "SRFOFF", "disable", "flush">>
Release == <<"release", "unlock">>
Deferred == <<"lock_on?", "lock_off?">>
Send == <<"lock", "write">> \o Release \o <<"lock", "transmit">>

(* Fault: one of the returns leaves the lock taken. *)
ExitKeepsLock(way) == IF way = "tooshort" THEN <<>> ELSE Release

(* cc2420_transmit and cc2420_read have a RELEASE_LOCK at every return. *)
Exit(way) == Release

(* TDMA_SN_send, and the radio's on() as the callback of the rtimer. *)
SlotCalls ==
  {<<"copy", "cc2420_on">> \o Send \o <<"cc2420_off">>, <<"cc2420_on">>}

Init ==
  /\ drv = [receive_on |-> FALSE, locked |-> 0, lock_on |-> FALSE,
            lock_off |-> FALSE, start |-> None, last |-> None,
            polled |-> FALSE]
  /\ chip = [rx |-> FALSE, air |-> None, fifo |-> <<>>, over |-> FALSE,
             ie |-> FALSE, ifg |-> FALSE, capture |-> FALSE, csn |-> FALSE]
  /\ todo = [main |-> <<>>, isr |-> <<>>]
  /\ buf = [frame |-> None, stamp |-> None, len |-> None]
  /\ heard = 0
  /\ want = "off"
  /\ met = [slots |-> 0, release |-> FALSE, again |-> FALSE, queue |-> FALSE]

(* Context c has one of these statements still to execute. *)
Before(c, statements) == \E i \in 1 .. Len(todo[c]) : todo[c][i] \in statements

(* An interrupt is served as soon as no other one is. *)
Pending == chip.capture \/ (chip.ie /\ chip.ifg)

(* Context c executes statement s, a call puts more in front of the rest. *)
Do(c, s, more) ==
  /\ todo[c] # <<>> /\ Head(todo[c]) = s
  /\ c = "main" => todo.isr = <<>> /\ ~Pending
  /\ todo' = [todo EXCEPT ![c] = more \o Tail(@)]

(* A statement that assigns, and one that only decides what is next. *)
Plain(c, s, d, k) ==
  /\ Do(c, s, <<>>)
  /\ drv' = d /\ chip' = k /\ UNCHANGED <<buf, heard, want, met>>

Branch(c, s, more) ==
  Do(c, s, more) /\ UNCHANGED <<drv, chip, buf, heard, want, met>>

-----------------------------------------------------------------------------
(* cc2420_on and cc2420_off *)

CallOn(c) ==
  /\ Do(c, "cc2420_on",
        IF drv.receive_on THEN <<>> ELSE <<"on_locked?">>)
  /\ want' = "on"
  /\ UNCHANGED <<drv, chip, buf, heard, met>>

OnLocked(c) ==
  /\ Do(c, "on_locked?",
        IF drv.locked > 0 THEN <<>> ELSE <<"lock">> \o On \o Release)
  /\ drv' = [drv EXCEPT !.lock_on = @ \/ drv.locked > 0]
  /\ UNCHANGED <<chip, buf, heard, want, met>>

CallOff(c) ==
  /\ Do(c, "cc2420_off",
        IF drv.receive_on THEN <<"off_locked?">> ELSE <<>>)
  /\ want' = "off"
  /\ UNCHANGED <<drv, chip, buf, heard, met>>

OffLocked(c) ==
  /\ Do(c, "off_locked?",
        IF drv.locked > 0 THEN <<>> ELSE <<"lock">> \o Off \o Release)
  /\ drv' = [drv EXCEPT !.lock_off = @ \/ drv.locked > 0]
  /\ UNCHANGED <<chip, buf, heard, want, met>>

-----------------------------------------------------------------------------
(* GET_LOCK and RELEASE_LOCK *)

Lock(c) == Plain(c, "lock", [drv EXCEPT !.locked = @ + 1], chip)

(* Fault: RELEASE_LOCK tests the lock when it has given it back. *)
TestLockLate(c) ==
  /\ Do(c, "release", IF drv.locked = 0 THEN Deferred ELSE <<>>)
  /\ UNCHANGED <<drv, chip, buf, heard, want, met>>

TestLock(c) == Branch(c, "release", IF drv.locked = 1 THEN Deferred ELSE <<>>)

DeferredOn(c) ==
  Branch(c, "lock_on?", IF drv.lock_on THEN Append(On, "lock_on=0") ELSE <<>>)

DeferredOff(c) ==
  Branch(c, "lock_off?",
         IF drv.lock_off THEN Append(Off, "lock_off=0") ELSE <<>>)

ClearOn(c) == Plain(c, "lock_on=0", [drv EXCEPT !.lock_on = FALSE], chip)
ClearOff(c) == Plain(c, "lock_off=0", [drv EXCEPT !.lock_off = FALSE], chip)
Unlock(c) == Plain(c, "unlock", [drv EXCEPT !.locked = @ - 1], chip)

-----------------------------------------------------------------------------
(* on() and off().  A transfer over the SPI bus leaves the chip deselected, *)
(* also for a transfer of the main loop that it has interrupted: what that  *)
(* one still sends and reads is lost.                                       *)

Deselected(k) == [k EXCEPT !.csn = FALSE]

Select(c) == Plain(c, "select", drv, [chip EXCEPT !.csn = TRUE])

(* Fault: the interrupt flag is cleared before the interrupt is enabled. *)
EnableCleared(c) ==
  Plain(c, "enable", drv, [chip EXCEPT !.ie = TRUE, !.ifg = FALSE])

Enable(c) == Plain(c, "enable", drv, [chip EXCEPT !.ie = TRUE])

StrobeOn(c) ==
  Plain(c, "SRXON", drv, [Deselected(chip) EXCEPT !.rx = @ \/ chip.csn])

SetOn(c) == Plain(c, "receive_on", [drv EXCEPT !.receive_on = TRUE], chip)

SetOff(c) == Plain(c, "receive_off", [drv EXCEPT !.receive_on = FALSE], chip)

StrobeOff(c) ==
  Plain(c, "SRFOFF", drv,
        IF chip.csn THEN [Deselected(CutOff(chip)) EXCEPT !.rx = FALSE]
        ELSE chip)

Disable(c) == Plain(c, "disable", drv, [chip EXCEPT !.ie = FALSE])

Flush(c) ==
  Plain(c, "flush", drv,
        IF FIFOP(chip) THEN chip ELSE Deselected(flushrx(chip)))

-----------------------------------------------------------------------------
(* cc2420_prepare and cc2420_transmit, in the interrupt of the slot *)

(* tdma_rdc_buf_copyto_packetbuf clears the packet buffer and what belongs *)
(* to it before it takes the frame to be sent.                             *)
Copy ==
  /\ Do("isr", "copy", <<>>)
  /\ buf' = [buf EXCEPT !.frame = Own, !.stamp = None]
  /\ UNCHANGED <<drv, chip, heard, want, met>>

Write == Plain("isr", "write", drv, Deselected(chip))

(* The radio goes on to receive when it has sent: STXON -> RX_ACTIVE. *)
Transmit ==
  /\ Do("isr", "transmit",
        (IF drv.receive_on THEN <<>> ELSE Off) \o Exit("sent"))
  /\ chip' = [Deselected(CutOff(chip)) EXCEPT !.rx = TRUE]
  /\ UNCHANGED <<drv, buf, heard, want, met>>

(* A frame has just begun to arrive: the transmission is dropped. *)
Collide ==
  /\ chip.air # None
  /\ Do("isr", "transmit", Exit("dropped"))
  /\ chip' = Deselected(chip)
  /\ UNCHANGED <<drv, buf, heard, want, met>>

(* The radio has not begun to send when the wait for it ends. *)
NeverStarts ==
  /\ chip.air = None
  /\ Do("isr", "transmit", Exit("neverstarted"))
  /\ chip' = Deselected(chip)
  /\ UNCHANGED <<drv, buf, heard, want, met>>

-----------------------------------------------------------------------------
(* cc2420_process, cc2420_read *)

Poll ==
  /\ todo.main = <<>> /\ todo.isr = <<>> /\ ~Pending
  /\ drv.polled
  /\ drv' = [drv EXCEPT !.polled = FALSE]
  /\ todo' = [todo EXCEPT !.main = <<"clear", "read", "input">>]
  /\ met' = [met EXCEPT !.again = FALSE]
  /\ UNCHANGED <<chip, buf, heard, want>>

Clear ==
  /\ Do("main", "clear", <<>>)
  /\ buf' = [frame |-> None, stamp |-> drv.last, len |-> None]
  /\ UNCHANGED <<drv, chip, heard, want, met>>

Read ==
  Branch("main", "read",
         IF FIFOP(chip) THEN <<"lock", "select", "length">> ELSE <<>>)

InStep == chip.csn /\ chip.fifo # <<>> /\ Head(chip.fifo) # Rest

ReadBody == <<"select", "body", "again">> \o Exit("read")

Length ==
  /\ InStep
  /\ Do("main", "length", ReadBody)
  /\ buf' = [buf EXCEPT !.len = Head(chip.fifo)]
  /\ chip' = Deselected(chip)
  /\ UNCHANGED <<drv, heard, want, met>>

(* The length is noise: it is refused, or it is taken for one. *)
BadLength ==
  /\ ~InStep
  /\ \/ /\ \E way \in {"badsynch", "tooshort", "toolong"} :
             Do("main", "length", Exit(way))
        /\ chip' = Deselected(flushrx(chip))
     \/ /\ Do("main", "length", ReadBody)
        /\ chip' = Deselected(chip)
  /\ UNCHANGED <<drv, buf, heard, want, met>>

(* What reading a frame does to the interrupt flag of the pin. *)
Raised(k) == {[k EXCEPT !.ifg = @ \/ (edge /\ FIFOP(k))] : edge \in Edges}

(* cc2420_read takes the frame, or drops it when its checksum is wrong. *)
Body ==
  /\ InStep /\ buf.len = Head(chip.fifo)
  /\ Do("main", "body", <<>>)
  /\ buf' \in {[buf EXCEPT !.frame = f] : f \in {buf.len, None}}
  /\ chip' \in Raised([Deselected(chip) EXCEPT !.fifo = Tail(@)])
  /\ UNCHANGED <<drv, heard, want, met>>

(* As many bytes as the length said, from wherever the FIFO was. *)
BadBody ==
  /\ ~(InStep /\ buf.len = Head(chip.fifo))
  /\ Do("main", "body", <<>>)
  /\ buf' \in {[buf EXCEPT !.frame = f] : f \in {Noise, None}}
  /\ \E fifo \in IF chip.fifo = <<>> THEN {<<>>}
                 ELSE {<<Rest>> \o Tail(chip.fifo), Tail(chip.fifo)} :
       chip' \in Raised([Deselected(chip) EXCEPT !.fifo = fifo])
  /\ UNCHANGED <<drv, heard, want, met>>

(* Fault: an overflow is not cleaned up. *)
AgainNoFlush ==
  Plain("main", "again",
        [drv EXCEPT !.polled = @ \/ (FIFOP(chip) /\ ~chip.over)], chip)

(* FIFOP without FIFO: the FIFO has overflowed.  Otherwise FIFOP is the     *)
(* next frame.                                                              *)
Again ==
  Plain("main", "again",
        [drv EXCEPT !.polled = @ \/ (FIFOP(chip) /\ ~chip.over)],
        IF chip.over THEN Deselected(flushrx(chip)) ELSE chip)

(* NETSTACK_RDC.input turns the radio off for a frame it takes, or when the *)
(* node goes to sleep.                                                      *)
Input ==
  /\ \/ Do("main", "input", <<>>)
     \/ buf.frame # None /\ Do("main", "input", <<"cc2420_off">>)
  /\ UNCHANGED <<drv, chip, buf, heard, want, met>>

(* TDMA_SN_listen and TDMA_SN_sleep, as callbacks of their ctimers. *)
Callback ==
  /\ todo.main = <<>> /\ todo.isr = <<>> /\ ~Pending
  /\ \E call \in {"cc2420_on", "cc2420_off"} :
       todo' = [todo EXCEPT !.main = <<call>>]
  /\ met' = [met EXCEPT !.again = FALSE]
  /\ UNCHANGED <<drv, chip, buf, heard, want>>

-----------------------------------------------------------------------------
(* Interrupts *)

Releasing ==
  /\ todo.main # <<>>
  /\ \/ Head(todo.main) \in {"lock_off?", "lock_on=0", "lock_off=0", "unlock"}
     \/ Before("main", {"lock_on=0", "lock_off=0"})

(* Nothing is under way in the main loop or in the radio. *)
AllClear ==
  todo.main = <<>> /\ ~drv.polled /\ chip.air = None /\ chip.fifo = <<>>

(* No two slots fall into one call: there is most of a segment between them. *)
SlotInterrupt ==
  /\ todo.isr = <<>> /\ ~Pending
  /\ ~met.again
  /\ AllClear \/ met.slots < MaxMet
  /\ met' = [met EXCEPT !.slots = IF AllClear THEN @ ELSE @ + 1,
                        !.release = @ \/ Releasing,
                        !.again = todo.main # <<>>]
  /\ \E call \in SlotCalls : todo' = [todo EXCEPT !.isr = call]
  /\ UNCHANGED <<drv, chip, buf, heard, want>>

(* Fault: both edges are taken for the beginning of a frame. *)
CaptureBothEdges ==
  /\ todo.isr = <<>> /\ chip.capture
  /\ chip' = [chip EXCEPT !.capture = FALSE]
  /\ drv' = [drv EXCEPT !.start = chip.air]
  /\ UNCHANGED <<todo, buf, heard, want, met>>

(* cc2420_timerb1_interrupt *)
CaptureInterrupt ==
  /\ todo.isr = <<>> /\ chip.capture
  /\ chip' = [chip EXCEPT !.capture = FALSE]
  /\ drv' = [drv EXCEPT !.start = IF chip.air # None THEN chip.air ELSE @]
  /\ UNCHANGED <<todo, buf, heard, want, met>>

(* cc2420_interrupt *)
FifopInterrupt ==
  /\ todo.isr = <<>> /\ ~chip.capture /\ chip.ie /\ chip.ifg
  /\ chip' = [chip EXCEPT !.ifg = FALSE]
  /\ drv' = [drv EXCEPT !.polled = TRUE, !.last = drv.start]
  /\ UNCHANGED <<todo, buf, heard, want, met>>

-----------------------------------------------------------------------------
(* The radio *)

(* An interrupt is late for the next edge only when another handler runs. *)
InTime == Pending => todo.isr # <<>>

StartFrame ==
  /\ InTime
  /\ chip.rx /\ chip.air = None /\ ~chip.over
  /\ heard < MaxFrames
  /\ todo.isr = <<>> \/ met.slots < MaxMet
  /\ met' = [met EXCEPT !.slots = IF todo.isr = <<>> THEN @ ELSE @ + 1,
                        !.queue = @ \/ FIFOP(chip)]
  /\ heard' = heard + 1
  /\ chip' = [chip EXCEPT !.air = heard + 1, !.capture = TRUE]
  /\ UNCHANGED <<drv, todo, buf, want>>

EndFrame ==
  /\ InTime
  /\ chip.air # None
  /\ chip' = LET fits == Len(chip.fifo) < Room IN
       [chip EXCEPT !.air = None, !.capture = TRUE,
                    !.ifg = @ \/ ~FIFOP(chip),
                    !.over = ~fits,
                    !.fifo = IF fits THEN Append(@, chip.air) ELSE @]
  /\ UNCHANGED <<drv, todo, buf, heard, want, met>>

-----------------------------------------------------------------------------
Statement(c) ==
  \/ CallOn(c) \/ OnLocked(c) \/ CallOff(c) \/ OffLocked(c)
  \/ Lock(c) \/ TestLock(c) \/ DeferredOn(c) \/ DeferredOff(c)
  \/ ClearOn(c) \/ ClearOff(c) \/ Unlock(c)
  \/ Select(c) \/ Enable(c) \/ StrobeOn(c) \/ SetOn(c)
  \/ SetOff(c) \/ StrobeOff(c) \/ Disable(c) \/ Flush(c)

Main ==
  \/ Statement("main") \/ Poll \/ Clear \/ Read \/ Length \/ BadLength
  \/ Body \/ BadBody \/ Again \/ Input

Isr ==
  Statement("isr") \/ Copy \/ Write \/ Transmit \/ Collide \/ NeverStarts

Next ==
  \/ Main \/ Callback \/ Isr
  \/ SlotInterrupt \/ CaptureInterrupt \/ FifopInterrupt
  \/ StartFrame \/ EndFrame

(* Interrupts take less time than there is between them: the main loop is   *)
(* interrupted again and again, but gets on; process_run looks for polls    *)
(* before every event it takes.  Reads that are out of step end: each takes *)
(* at least one of the bytes that are left.                                 *)
Fairness ==
  /\ SF_vars(Main) /\ SF_vars(Poll) /\ WF_vars(Isr)
  /\ SF_vars(BadBody /\ chip.fifo # chip'.fifo)
  /\ WF_vars(CaptureInterrupt) /\ WF_vars(FifopInterrupt) /\ WF_vars(EndFrame)

Spec == Init /\ [][Next]_vars /\ Fairness

-----------------------------------------------------------------------------
TypeOK ==
  /\ drv \in [receive_on : BOOLEAN, locked : 0 .. 2, lock_on : BOOLEAN,
              lock_off : BOOLEAN, start : 0 .. MaxFrames,
              last : 0 .. MaxFrames, polled : BOOLEAN]
  /\ chip \in [rx : BOOLEAN, air : 0 .. MaxFrames, fifo : Seq(1 .. Rest),
               over : BOOLEAN, ie : BOOLEAN, ifg : BOOLEAN,
               capture : BOOLEAN, csn : BOOLEAN]
  /\ Len(chip.fifo) =< Room
  /\ DOMAIN todo = {"main", "isr"}
  /\ buf \in [frame : 0 .. Noise, stamp : 0 .. MaxFrames, len : 0 .. MaxFrames]
  /\ heard \in 0 .. MaxFrames /\ want \in {"on", "off"}
  /\ met \in [slots : 0 .. MaxMet, release : BOOLEAN, again : BOOLEAN,
              queue : BOOLEAN]

Idle == todo.main = <<>> /\ todo.isr = <<>>

(* Context c gives the lock back, or comes to where it decides by which     *)
(* return, before it takes the lock again.                                  *)
Holds(c) ==
  \E i \in DOMAIN todo[c] :
    /\ todo[c][i] \in {"unlock", "length", "transmit"}
    /\ \A j \in 1 .. i : todo[c][j] # "lock"

(* Every GET_LOCK is followed by one RELEASE_LOCK on every way through the  *)
(* driver, in whatever order a slot and the main loop get there.            *)
LockBalanced ==
  TypeOK /\ drv.locked = Cardinality({c \in DOMAIN todo : Holds(c)})

(* "If we are called when the driver is locked, we indicate that the radio  *)
(* should be turned off when the lock is unlocked" (cc2420.c:503), as long  *)
(* as no slot has come in RELEASE_LOCK, behind the test of its flag.        *)
DeferredDone ==
  ~met.release /\ drv.locked = 0 => ~drv.lock_on /\ ~drv.lock_off

(* When nothing is under way the driver knows what the radio does: a slot   *)
(* between chip select and strobe of the main loop's on() or off() ends the *)
(* transfer and the strobe goes nowhere (cc2420.c:208), but the request the *)
(* slot leaves behind repeats it, unless the slot has come behind the test  *)
(* of its flag.  And it does what was asked last, as long as no slot has    *)
(* met a call: the deferred requests have no order, and cc2420_off returns  *)
(* early (cc2420.c:499) when the radio is off but to be turned on.          *)
Honoured ==
  Idle =>
    /\ ~met.release => chip.rx = drv.receive_on
    /\ met.slots = 0 => drv.receive_on = (want = "on")

(* "Read a received packet into a buffer" (radio.h:74): the RDC layer is    *)
(* given received frames, with the time they began to arrive, as long as    *)
(* no slot has met a call and no frame waited when another one began: the   *)
(* time stamp is overwritten then (cc2420.c:633), and off() leaves the FIFO *)
(* alone for the frame that waits, with half of the other one behind it.    *)
Inputs ==
  met.slots = 0 /\ ~met.queue /\ todo.main # <<>> /\ Head(todo.main) = "input"

HandsOverFrames ==
  Inputs /\ buf.frame # None =>
    buf.frame \in Frames /\ buf.stamp = buf.frame

(* No frame is left in the FIFO of a radio that is on without the process   *)
(* being polled for it, whatever slots and frames have met.                 *)
Noticed ==
  chip.ie /\ FIFOP(chip) =>
    \/ chip.ifg \/ drv.polled
    \/ Before("main", {"read", "length", "again"})

(* A frame in the FIFO is read or flushed in the end, or the radio is       *)
(* turned off (cc2420.c:655-676, 722-738).                                  *)
FrameHandled ==
  \A f \in Frames :
    (\E i \in 1 .. Len(chip.fifo) : chip.fifo[i] = f)
      ~> (~\E i \in 1 .. Len(chip.fifo) : chip.fifo[i] = f) \/ ~chip.ie
=============================================================================
