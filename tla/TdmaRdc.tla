------------------------------ MODULE TdmaRdc -------------------------------
(***************************************************************************)
(* The TDMA radio duty cycling layer of SnowFort (core/net/mac/tdmardc.c)  *)
(* on a single-hop network: one base station (built with SF_MOTE_TYPE_AP)  *)
(* and the sensors (SF_MOTE_TYPE_SENSOR) that share its channel.           *)
(*                                                                         *)
(* The base station broadcasts a frame every SEGMENT_PERIOD.  A sensor     *)
(* that receives it turns its radio off, sends once in its own slot and    *)
(* turns the radio on again just before the next frame is due.             *)
(*                                                                         *)
(* Time is explicit: Tick lets one tick of the rtimer clock pass on every  *)
(* node.  Everything that is due at an instant happens before the next     *)
(* tick, in any order, except the main loop, which may take up to          *)
(* MAX_LATENCY ticks before it processes a received frame.  A handler is   *)
(* one step: interrupts and the main loop of a node interleave between     *)
(* handlers.                                                               *)
(***************************************************************************)
EXTENDS Rtimer

CONSTANTS
  Sensors,            \* the node ids (node-id.c) of the sensors
  TOTAL_TS, TS_PERIOD, BS_PERIOD, SEGMENT_PERIOD, GRD_PERIOD,  \* tdmardc.h
  CALIBRATION,        \* the 33 ticks of tdmardc.c:412
  REJECT_LIMIT,       \* TOTAL_TS*10 of tdmardc.c:358
  MAX_LISTEN_PERIOD,  \* the ctimer periods, in ticks here
  MAX_SLEEP_PERIOD,
  BS_AIR, SN_AIR,     \* how long a send of the base station / a sensor takes
  MAX_LATENCY,        \* ticks until the main loop processes a received frame
  Restartable,        \* nodes that may lose power
  ShellNodes,         \* nodes whose shell may run the timeslot command
  SlotChoices,        \* the slots those commands ask for
  WithCommands        \* whether sendcmd is used at the base station

BS == 0
Nodes == {BS} \cup Sensors

ASSUME ConstantsAssumption ==
  /\ Sensors \subseteq Nat \ {0}
  /\ {TOTAL_TS, TS_PERIOD, BS_PERIOD, SEGMENT_PERIOD, BS_AIR, SN_AIR,
      MAX_LISTEN_PERIOD, MAX_SLEEP_PERIOD} \subseteq Nat \ {0}
  /\ {GRD_PERIOD, CALIBRATION, REJECT_LIMIT, MAX_LATENCY} \subseteq Nat
  /\ Restartable \subseteq Nodes
  /\ ShellNodes \subseteq Nodes
  /\ SlotChoices \subseteq Nat
  /\ WithCommands \in BOOLEAN

VARIABLES
  up,        \* the node is powered and has run tdmardc's init()
  radio,     \* receive_on of the CC2420 driver
  timer,     \* the rtimer: BSTimer or SNTimer
  air,       \* ticks left of the send the node's interrupt is blocked in
  hear,      \* whose frame the node's receiver is locked on
  rx,        \* the frame in the RXFIFO that cc2420_process has not read yet
  rx_start,  \* ticks since SN_RX_start_time modulo the clock, while a send,
             \* the only reader of it, is booked (0 otherwise)
  listen,    \* ticks left of SN_listen_timer
  sleep,     \* ticks left of SN_sleep_timer
  rejected,  \* incorrect_rx_counter
  slot,      \* sf_tdma_slot_num
  pkt_type,  \* packet type attribute of the base station's packetbuf
  due,       \* history: the slot of the sensor's latest scheduled send
  since      \* history: ticks since the last frame of the base station began

vars == <<up, radio, timer, air, hear, rx, rx_start, listen, sleep,
          rejected, slot, pkt_type, due, since>>

Silent == -1      \* air: the node is not sending
Off    == -1      \* listen, sleep: the ctimer is not running
None   == -1      \* hear: no frame is being received
NoFrame == [from |-> None, kind |-> "none", age |-> 0]

FrameType == [from : Nodes, kind : {"data", "cmd"}, age : Nat]

(* Where in the segment a slot's send begins, counted from the base        *)
(* station's frame (tdmardc.c:412).                                        *)
SlotStart(k) == BS_PERIOD + TS_PERIOD * (k - 1) - GRD_PERIOD + CALIBRATION

(* Where in the segment a sensor turns its radio on again. *)
WakeTime == SEGMENT_PERIOD - GRD_PERIOD

(* Fault: the first frame of a base station is due after a beacon period. *)
BaseOnEarly(r) == rtimer_set(r, BS_PERIOD, "beacon")

(* on() at the base station books the first frame, given the old timer. *)
BaseOn(r) == rtimer_set(r, SEGMENT_PERIOD, "beacon")

(* Fault: "no slot" is compared with the wrong number. *)
HasOtherSlot(n) == slot[n] # 1

(* sf_tdma_slot_num != -1, both 16 bits wide like the clock. *)
HasSlot(n) == slot[n] # ClockModulus - 1

Blocked(n) == air[n] # Silent       \* inside a send, interrupts disabled

-----------------------------------------------------------------------------
(* The channel. *)

(* A frame starts: whoever listens locks on to it if the channel was free, *)
(* and loses what it was receiving if it was not.                          *)
StartFrame(s) ==
  LET free == \A m \in Nodes : air[m] = Silent
  IN hear' = [m \in Nodes |->
                IF m # s /\ up[m] /\ radio[m] /\ ~Blocked(m) /\ free
                THEN s ELSE None]

(* A frame ends: every receiver locked on to it has it in its RXFIFO, or   *)
(* lost it to noise.  A frame with a bad checksum reaches input() with     *)
(* length 0 (cc2420.c): a sensor returns early from it, as if it had been  *)
(* lost, and at the base station it does what any frame does.              *)
EndFrame(s) ==
  LET frame == [from |-> s,
                kind |-> IF s = BS /\ pkt_type = "cmd" THEN "cmd" ELSE "data",
                age  |-> IF s = BS THEN BS_AIR ELSE SN_AIR]
      receivers == {m \in Nodes : hear[m] = s /\ rx[m] = NoFrame}
  IN /\ \E got \in SUBSET receivers :
          rx' = [m \in Nodes |-> IF m \in got THEN frame ELSE rx[m]]
     /\ hear' = [m \in Nodes |-> IF hear[m] = s THEN None ELSE hear[m]]

-----------------------------------------------------------------------------
(* NETSTACK_RADIO.on and .off, as seen by the layer above (the driver's    *)
(* lock is the subject of Cc2420).  Turning the radio off aborts a         *)
(* reception; a complete frame stays in the RXFIFO.                        *)
RadioOn(n) == radio' = [radio EXCEPT ![n] = TRUE] /\ UNCHANGED hear

(* Fault: the reception is aborted but the receiver stays on. *)
RadioLeftOn(n) == UNCHANGED radio /\ hear' = [hear EXCEPT ![n] = None]

RadioOff(n) ==
  /\ radio' = [radio EXCEPT ![n] = FALSE]
  /\ hear' = [hear EXCEPT ![n] = None]

(* TDMA_SN_listen and TDMA_SN_sleep, given what remains of the timers. *)
TDMA_SN_listen(n, sleeping) ==
  /\ listen' = [listen EXCEPT ![n] = MAX_LISTEN_PERIOD]
  /\ sleep' = [sleep EXCEPT ![n] = sleeping]
  /\ RadioOn(n)

(* Fault: going to sleep without setting SN_sleep_timer. *)
SleepUntimed(n, listening) ==
  /\ listen' = [listen EXCEPT ![n] = listening]
  /\ sleep' = [sleep EXCEPT ![n] = Off]
  /\ rejected' = [rejected EXCEPT ![n] = 0]
  /\ RadioOff(n)

TDMA_SN_sleep(n, listening) ==
  /\ listen' = [listen EXCEPT ![n] = listening]
  /\ sleep' = [sleep EXCEPT ![n] = MAX_SLEEP_PERIOD]
  /\ rejected' = [rejected EXCEPT ![n] = 0]
  /\ RadioOff(n)

-----------------------------------------------------------------------------
(* Power. *)

(* A node boots: init() and on() of the RDC driver. *)
PowerOn(n) ==
  /\ ~up[n]
  /\ up' = [up EXCEPT ![n] = TRUE]
  /\ radio' = [radio EXCEPT ![n] = TRUE]
  /\ \/ /\ n = BS
        /\ timer' = [timer EXCEPT ![n] = BaseOn(NoTask)]
        /\ UNCHANGED <<listen, slot, rejected>>
     \/ /\ n \in Sensors
        /\ listen' = [listen EXCEPT ![n] = MAX_LISTEN_PERIOD]
        /\ slot' = [slot EXCEPT ![n] = n]
        /\ rejected' = [rejected EXCEPT ![n] = 0]
        /\ UNCHANGED timer
  /\ UNCHANGED <<air, hear, rx, rx_start, sleep, pkt_type, due, since>>

(* A node loses its power, and with it its memory and what it was sending. *)
PowerOff(n) ==
  /\ n \in Restartable
  /\ up[n]
  /\ up' = [up EXCEPT ![n] = FALSE]
  /\ radio' = [radio EXCEPT ![n] = FALSE]
  /\ timer' = [timer EXCEPT ![n] = NoTask]
  /\ air' = [air EXCEPT ![n] = Silent]
  /\ hear' = [m \in Nodes |-> IF m = n \/ hear[m] = n THEN None ELSE hear[m]]
  /\ rx' = [rx EXCEPT ![n] = NoFrame]
  /\ IF n = BS
     THEN /\ pkt_type' = "data"
          /\ UNCHANGED <<rx_start, listen, sleep>>
     ELSE /\ rx_start' = [rx_start EXCEPT ![n] = 0]
          /\ listen' = [listen EXCEPT ![n] = Off]
          /\ sleep' = [sleep EXCEPT ![n] = Off]
          /\ UNCHANGED pkt_type
  /\ UNCHANGED <<rejected, slot, due, since>>

-----------------------------------------------------------------------------
(* The rtimer interrupt. *)

IsrReady(n) == Due(timer[n]) /\ ~Blocked(n)

(* The interrupt runs the task f, which leaves the timer r behind. *)
RunTask(n, f, r) ==
  /\ IsrReady(n)
  /\ timer[n].func = f
  /\ timer' = [timer EXCEPT ![n] = Rescheduled(r)]

(* The base station sends the command in its packetbuf, or a beacon, and   *)
(* books the next frame one segment after the time this one was booked for.*)
TDMA_BS_send ==
  /\ RunTask(BS, "beacon",
       rtimer_set(Taken(timer[BS]), timer[BS].time + SEGMENT_PERIOD, "beacon"))
  /\ pkt_type' = IF pkt_type = "cmd" THEN "cmd" ELSE "timestamp"
  /\ air' = [air EXCEPT ![BS] = BS_AIR]
  /\ StartFrame(BS)
  /\ since' = 0
  /\ UNCHANGED <<up, radio, rx, rx_start, listen, sleep, rejected, slot, due>>

(* A sensor's slot: book the wake-up, turn the radio on and send. *)
TDMA_SN_send(n) ==
  /\ RunTask(n, "send",
       rtimer_set(Taken(timer[n]), WakeTime - rx_start[n], "radio_on"))
  /\ radio' = [radio EXCEPT ![n] = TRUE]
  /\ air' = [air EXCEPT ![n] = SN_AIR]
  /\ StartFrame(n)
  /\ rx_start' = [rx_start EXCEPT ![n] = 0]
  /\ UNCHANGED <<up, rx, listen, sleep, rejected, slot, pkt_type, due, since>>

(* The wake-up before the next frame of the base station. *)
WakeUp(n) ==
  /\ RunTask(n, "radio_on", Taken(timer[n]))
  /\ RadioOn(n)
  /\ UNCHANGED <<up, air, rx, rx_start, listen, sleep, rejected, slot,
                 pkt_type, due, since>>

(* The blocking send returns; the interrupt handler runs to its end. *)
SendReturns(n) ==
  /\ air[n] = 0
  /\ air' = [air EXCEPT ![n] = Silent]
  /\ EndFrame(n)
  /\ IF n = BS
     THEN pkt_type' = "timestamp" /\ UNCHANGED radio
     ELSE radio' = [radio EXCEPT ![n] = FALSE] /\ UNCHANGED pkt_type
  /\ UNCHANGED <<up, timer, rx_start, listen, sleep, rejected, slot, due,
                 since>>

-----------------------------------------------------------------------------
(* The main loop: cc2420_process hands a received frame to input(), the    *)
(* ctimer process runs expired timers, the shell runs commands.            *)

TakeFrame(n) ==
  /\ rx[n] # NoFrame
  /\ ~Blocked(n)
  /\ rx' = [rx EXCEPT ![n] = NoFrame]

(* input() at the base station: the frame replaces whatever the packetbuf  *)
(* held, and goes to the application.                                      *)
BaseInput ==
  /\ TakeFrame(BS)
  /\ pkt_type' = "data"
  /\ UNCHANGED <<up, radio, timer, air, hear, rx_start, listen, sleep,
                 rejected, slot, due, since>>

(* input() at a sensor, a frame of another sensor: both timers are         *)
(* stopped, and too many of those send the sensor to sleep.                *)
RejectFrame(n) ==
  /\ TakeFrame(n)
  /\ rx[n].from # BS
  /\ IF rejected[n] + 1 > REJECT_LIMIT
     THEN TDMA_SN_sleep(n, Off)
     ELSE /\ rejected' = [rejected EXCEPT ![n] = @ + 1]
          /\ listen' = [listen EXCEPT ![n] = Off]
          /\ sleep' = [sleep EXCEPT ![n] = Off]
          /\ UNCHANGED <<radio, hear>>
  /\ UNCHANGED <<up, timer, air, rx_start, slot, pkt_type, due, since>>

(* Fault: the segment is taken to start when the frame is processed. *)
RxAgeAtInput(n) == 0

(* How long ago the received frame began (PACKETBUF_ATTR_TIMESTAMP). *)
RxAge(n) == rx[n].age

(* input() at a sensor, a frame of the base station: radio off until the   *)
(* sensor's slot, or until the next frame if this one is a command.        *)
FromBaseInput(n) ==
  LET age == RxAge(n) IN
  /\ TakeFrame(n)
  /\ rx[n].from = BS
  /\ listen' = [listen EXCEPT ![n] = Off]
  /\ sleep' = [sleep EXCEPT ![n] = Off]
  /\ RadioOff(n)
  /\ \/ /\ rx[n].kind = "cmd"
        /\ timer' = [timer EXCEPT ![n] =
                       rtimer_set(@, WakeTime - age, "radio_on")]
        /\ rx_start' = [rx_start EXCEPT ![n] = 0]
        /\ UNCHANGED due
     \/ /\ rx[n].kind = "data"
        /\ HasSlot(n)
        /\ timer' = [timer EXCEPT ![n] =
                       rtimer_set(@, SlotStart(slot[n]) - age, "send")]
        /\ rx_start' = [rx_start EXCEPT ![n] = age % ClockModulus]
        /\ due' = [due EXCEPT ![n] = slot[n]]
     \/ /\ rx[n].kind = "data"
        /\ ~HasSlot(n)
        /\ rx_start' = [rx_start EXCEPT ![n] =
             IF timer[n].func = "send" THEN age % ClockModulus ELSE 0]
        /\ UNCHANGED <<timer, due>>
  /\ UNCHANGED <<up, air, rejected, slot, pkt_type, since>>

ListenExpires(n) ==
  /\ listen[n] = 0
  /\ ~Blocked(n)
  /\ TDMA_SN_sleep(n, Off)
  /\ UNCHANGED <<up, timer, air, rx, rx_start, slot, pkt_type, due, since>>

SleepExpires(n) ==
  /\ sleep[n] = 0
  /\ ~Blocked(n)
  /\ TDMA_SN_listen(n, Off)
  /\ UNCHANGED <<up, timer, air, rx, rx_start, rejected, slot, pkt_type, due,
                 since>>

(* The timeslot command: RDC off, set the slot, RDC on.  On a sensor that  *)
(* is TDMA_SN_listen with a pending rtimer left alone; the receiver loses  *)
(* what it was receiving in between.                                       *)
Timeslot(n, k) ==
  /\ n \in ShellNodes
  /\ up[n]
  /\ ~Blocked(n)
  /\ radio' = [radio EXCEPT ![n] = TRUE]
  /\ hear' = [hear EXCEPT ![n] = None]
  /\ IF n = BS
     THEN /\ timer' = [timer EXCEPT ![n] = BaseOn(@)]
          /\ UNCHANGED <<slot, listen>>
     ELSE /\ slot' = [slot EXCEPT ![n] = k]
          /\ listen' = [listen EXCEPT ![n] = MAX_LISTEN_PERIOD]
          /\ UNCHANGED timer
  /\ UNCHANGED <<up, air, rx, rx_start, sleep, rejected, pkt_type, due, since>>

(* sendcmd: remote_shell_send puts the command into the packetbuf. *)
SendCommand ==
  /\ WithCommands
  /\ up[BS]
  /\ ~Blocked(BS)
  /\ pkt_type' = "cmd"
  /\ UNCHANGED <<up, radio, timer, air, hear, rx, rx_start, listen, sleep,
                 rejected, slot, due, since>>

-----------------------------------------------------------------------------
(* Time. *)

(* What must happen before the next tick. *)
Urgent(n) ==
  \/ air[n] = 0
  \/ IsrReady(n)
  \/ /\ ~Blocked(n)
     /\ \/ /\ rx[n] # NoFrame
           /\ rx[n].age >= MAX_LATENCY + (IF rx[n].from = BS THEN BS_AIR
                                                             ELSE SN_AIR)
        \/ n \in Sensors /\ (listen[n] = 0 \/ sleep[n] = 0)

CountDown(t) == IF t > 0 THEN t - 1 ELSE t

Tick ==
  /\ \A n \in Nodes : ~Urgent(n)
  /\ timer' = [n \in Nodes |-> Elapse(timer[n])]
  /\ air' = [n \in Nodes |-> CountDown(air[n])]
  /\ rx' = [n \in Nodes |-> IF rx[n] = NoFrame THEN NoFrame
                            ELSE [rx[n] EXCEPT !.age = @ + 1]]
  /\ rx_start' = [n \in Sensors |-> IF timer[n].func = "send"
                                    THEN (rx_start[n] + 1) % ClockModulus
                                    ELSE 0]
  /\ listen' = [n \in Sensors |-> CountDown(listen[n])]
  /\ sleep' = [n \in Sensors |-> CountDown(sleep[n])]
  /\ since' = IF since < SEGMENT_PERIOD THEN since + 1 ELSE since
  /\ UNCHANGED <<up, radio, hear, rejected, slot, pkt_type, due>>

-----------------------------------------------------------------------------
Init ==
  /\ up = [n \in Nodes |-> FALSE]
  /\ radio = [n \in Nodes |-> FALSE]
  /\ timer = [n \in Nodes |-> NoTask]
  /\ air = [n \in Nodes |-> Silent]
  /\ hear = [n \in Nodes |-> None]
  /\ rx = [n \in Nodes |-> NoFrame]
  /\ rx_start = [n \in Sensors |-> 0]
  /\ listen = [n \in Sensors |-> Off]
  /\ sleep = [n \in Sensors |-> Off]
  /\ rejected = [n \in Sensors |-> 0]
  /\ slot = [n \in Sensors |-> n]
  /\ pkt_type = "data"
  /\ due = [n \in Sensors |-> n]
  /\ since = SEGMENT_PERIOD

Handlers(n) ==
  \/ TDMA_SN_send(n) \/ WakeUp(n) \/ SendReturns(n)
  \/ RejectFrame(n) \/ FromBaseInput(n) \/ ListenExpires(n) \/ SleepExpires(n)

Next ==
  \/ Tick
  \/ \E n \in Nodes : PowerOn(n) \/ PowerOff(n)
  \/ TDMA_BS_send \/ SendReturns(BS) \/ BaseInput
  \/ \E n \in Sensors : Handlers(n)
  \/ \E n \in ShellNodes, k \in SlotChoices : Timeslot(n, k)
  \/ SendCommand

Spec == Init /\ [][Next]_vars

(* Time goes on, and what is due is run: interrupts by the hardware, the   *)
(* rest by the main loop, which runs every posted event.  Nothing is       *)
(* assumed of power, commands and the channel.                             *)
Fairness ==
  /\ WF_vars(Tick)
  /\ WF_vars(TDMA_BS_send) /\ WF_vars(SendReturns(BS)) /\ WF_vars(BaseInput)
  /\ \A n \in Sensors : WF_vars(Handlers(n))

FairSpec == Spec /\ Fairness
=============================================================================
