--------------------------- MODULE TdmaRdc_proofs ---------------------------
(***************************************************************************)
(* The schedule of TdmaRdc is proved for every value of the constants that *)
(* satisfies the assumption below.                                         *)
(***************************************************************************)
EXTENDS TdmaSchedule, TLAPS

(* The constants of tdmardc.h satisfy these (SlotStart(1) = 748,           *)
(* SlotStart(6) = 4648, WakeTime = 5396, 2^16 = 65536 ticks) as long as a  *)
(* send takes no longer than a slot and the main loop processes the base   *)
(* station's frame before the first slot.  The code checks no slot number, *)
(* so that the slots in use exist is up to whoever assigns them; and the   *)
(* timeslot command is for sensors.                                        *)
ASSUME TimingAssumption ==
  /\ GRD_PERIOD > 0
  /\ BS_AIR + MAX_LATENCY < SlotStart(1)
  /\ SN_AIR < TS_PERIOD
  /\ SlotStart(TOTAL_TS) + SN_AIR <= WakeTime
  /\ 2 * SEGMENT_PERIOD < ClockModulus
  /\ Sensors \subseteq 1 .. TOTAL_TS
  /\ SlotChoices \subseteq 1 .. TOTAL_TS
  /\ BS \notin ShellNodes

-----------------------------------------------------------------------------
(* The clock and the timer of Rtimer, for every clock width. *)

(* The remainder of the clock arithmetic is a clock value. *)
LEMMA ModClock == \A t \in Int : t % ClockModulus \in Clock
  BY ClockAssumption DEF Clock

(* A value that fits into the clock is its own remainder. *)
LEMMA ModSmall == \A t \in Clock : t % ClockModulus = t
  BY ClockAssumption DEF Clock

(* The compare matches a task that is due in the near future exactly when  *)
(* it is due.                                                              *)
LEMMA ScheduleFuture ==
  \A t \in Clock \ {0} : rtimer_arch_schedule(t) = t
  BY ModSmall, ClockAssumption DEF rtimer_arch_schedule, Clock

(* A matching compare is never more than one turn of the clock away. *)
LEMMA ScheduleRange ==
  \A t \in Int : rtimer_arch_schedule(t) \in 1 .. ClockModulus
  BY ModClock, ClockAssumption DEF rtimer_arch_schedule, Clock

(* rtimer_set on a timer without a task: the task is due in t ticks, and   *)
(* so is the compare, for a t within one turn of the clock.                *)
LEMMA SetIdle ==
  ASSUME NEW r, r.func = "none", NEW t \in Clock \ {0}, NEW f
  PROVE  rtimer_set(r, t, f) = [func |-> f, time |-> t, match |-> t]
  BY ModSmall, ScheduleFuture DEF rtimer_set

(* Setting a task, taking it, reprogramming and a tick keep a timer's type.*)
LEMMA SetType ==
  ASSUME NEW C, NEW r \in RtimerType(C), NEW t \in Int, NEW f \in C
  PROVE  rtimer_set(r, t, f) \in RtimerType(C)
<1>1. t % ClockModulus \in Clock
  BY ModClock
<1>2. rtimer_arch_schedule(t) \in 0 .. ClockModulus
  BY ScheduleRange, ClockAssumption
<1>3. r.match \in 0 .. ClockModulus
  BY DEF RtimerType
<1> QED BY <1>1, <1>2, <1>3 DEF rtimer_set, RtimerType

LEMMA NoTaskType == ASSUME NEW C PROVE NoTask \in RtimerType(C)
  BY ClockAssumption DEF NoTask, RtimerType, Clock

LEMMA TakenType ==
  ASSUME NEW C, NEW r \in RtimerType(C)
  PROVE  Taken(r) \in RtimerType(C) /\ Taken(r).func = "none"
                                    /\ Taken(r).time = r.time
  BY DEF Taken, RtimerType

LEMMA RescheduledType ==
  ASSUME NEW C, NEW r \in RtimerType(C)
  PROVE  Rescheduled(r) \in RtimerType(C) /\ Rescheduled(r).func = r.func
<1>1. r.time \in Int
  BY ClockAssumption DEF RtimerType, Clock
<1>2. rtimer_arch_schedule(r.time) \in 0 .. ClockModulus
  BY <1>1, ScheduleRange, ClockAssumption
<1>3. CASE r.func = "none"
  BY <1>3, NoTaskType DEF Rescheduled, NoTask
<1>4. CASE r.func # "none"
  BY <1>2, <1>4 DEF Rescheduled, RtimerType
<1> QED BY <1>3, <1>4

LEMMA ElapseType ==
  ASSUME NEW C, NEW r \in RtimerType(C)
  PROVE  Elapse(r) \in RtimerType(C) /\ Elapse(r).func = r.func
<1>1. r.time \in Int /\ r.match \in 0 .. ClockModulus
  BY ClockAssumption DEF RtimerType, Clock
<1>2. (r.time - 1) % ClockModulus \in Clock
  BY <1>1, ModClock
<1>3. (IF r.match = 0 THEN 0 ELSE r.match - 1) \in 0 .. ClockModulus
  BY <1>1, ClockAssumption
<1> QED BY <1>2, <1>3 DEF Elapse, RtimerType

(* A pending task whose time and compare agree stays so as time passes. *)
LEMMA ElapseInStep ==
  ASSUME NEW C, NEW r \in RtimerType(C),
         r.func # "none", r.time = r.match, r.match # 0
  PROVE  /\ Elapse(r).time = r.time - 1
         /\ Elapse(r).match = r.match - 1
<1>1. r.time \in Clock /\ r.time - 1 \in Clock
  BY ClockAssumption DEF RtimerType, Clock
<1>2. (r.time - 1) % ClockModulus = r.time - 1
  BY <1>1, ModSmall
<1> QED BY <1>2 DEF Elapse, RtimerType

(* What the interrupt leaves behind when the task it runs sets a new one   *)
(* that is due in t ticks: that task, on time.                             *)
LEMMA TaskSetsNext ==
  ASSUME NEW r, r.func = "none", NEW t \in Clock \ {0}, NEW f, f # "none"
  PROVE  Rescheduled(rtimer_set(r, t, f))
           = [func |-> f, time |-> t, match |-> t]
<1>1. rtimer_set(r, t, f) = [func |-> f, time |-> t, match |-> t]
  BY SetIdle
<1> QED BY <1>1, ScheduleFuture DEF Rescheduled

-----------------------------------------------------------------------------
(* The constants. *)

(* The numbers are numbers, and the base station is not a sensor. *)
LEMMA ConstantTypes ==
  /\ {TOTAL_TS, TS_PERIOD, BS_PERIOD, SEGMENT_PERIOD, BS_AIR, SN_AIR,
      MAX_LISTEN_PERIOD, MAX_SLEEP_PERIOD} \subseteq Nat \ {0}
  /\ {GRD_PERIOD, CALIBRATION, REJECT_LIMIT, MAX_LATENCY} \subseteq Nat
  /\ ClockModulus \in Nat \ {0}
  /\ 0 \notin Sensors /\ Sensors \subseteq Nodes /\ BS \in Nodes
  /\ Nodes \subseteq Nat
  BY ConstantsAssumption, ClockAssumption DEF Nodes, BS

(* The slots lie between the base station's frame and the wake-up, in      *)
(* order and without overlap, and a segment fits into the clock.           *)
LEMMA Layout ==
  ASSUME NEW k \in 1 .. TOTAL_TS
  PROVE  /\ SlotStart(k) \in Nat
         /\ BS_AIR + MAX_LATENCY < SlotStart(k)
         /\ SlotStart(k) + SN_AIR <= WakeTime
         /\ WakeTime \in Nat /\ WakeTime < SEGMENT_PERIOD
         /\ 2 * SEGMENT_PERIOD < ClockModulus
<1>1. /\ TS_PERIOD \in Nat \ {0} /\ TOTAL_TS \in Nat \ {0}
      /\ {BS_PERIOD, SEGMENT_PERIOD, GRD_PERIOD, CALIBRATION, BS_AIR, SN_AIR,
          MAX_LATENCY, ClockModulus} \subseteq Nat
  BY ConstantTypes
<1>2. 0 <= TS_PERIOD * (k - 1)
  BY <1>1
<1>3. TS_PERIOD * (k - 1) <= TS_PERIOD * (TOTAL_TS - 1)
  BY <1>1
<1>4. TS_PERIOD * (1 - 1) = 0
  BY <1>1
<1>5. /\ TS_PERIOD * (k - 1) \in Int /\ TS_PERIOD * (TOTAL_TS - 1) \in Int
  BY <1>1
<1> QED BY <1>1, <1>2, <1>3, <1>4, <1>5, TimingAssumption
        DEF SlotStart, WakeTime

(* A send in one slot is over before the next slot begins. *)
LEMMA SlotsApart ==
  ASSUME NEW j \in 1 .. TOTAL_TS, NEW k \in 1 .. TOTAL_TS, j < k
  PROVE  SlotStart(j) + SN_AIR < SlotStart(k)
<1>1. /\ TS_PERIOD \in Nat \ {0} /\ TOTAL_TS \in Nat \ {0}
      /\ {BS_PERIOD, GRD_PERIOD, CALIBRATION, SN_AIR} \subseteq Nat
  BY ConstantTypes
<1>2. TS_PERIOD * (j - 1) + TS_PERIOD <= TS_PERIOD * (k - 1)
  BY <1>1
<1>3. TS_PERIOD * (k - 1) \in Int /\ TS_PERIOD * (j - 1) \in Int
  BY <1>1
<1> QED BY <1>1, <1>2, <1>3, TimingAssumption DEF SlotStart

-----------------------------------------------------------------------------
(* Type correctness. *)

Callbacks == {"beacon", "send", "radio_on"}

LEMMA TypeInit == Init => TypeOK
<1> SUFFICES ASSUME Init PROVE TypeOK
  OBVIOUS
<1>1. NoTask \in RtimerType(Callbacks) /\ NoTask.func = "none"
  BY NoTaskType DEF NoTask
<1> QED BY <1>1, ConstantTypes, TimingAssumption
        DEF Init, TypeOK, Callbacks, Silent, Off, None, FrameType, NoFrame,
            Clock, BS

(* The channel hands over frames of nodes, and nothing else. *)
LEMMA StartFrameType ==
  ASSUME NEW s \in Nodes, StartFrame(s)
  PROVE  hear' \in [Nodes -> Nodes \cup {None}]
  BY DEF StartFrame

LEMMA EndFrameType ==
  ASSUME TypeOK, NEW s \in Nodes, EndFrame(s)
  PROVE  /\ rx' \in [Nodes -> FrameType \cup {NoFrame}]
         /\ hear' \in [Nodes -> Nodes \cup {None}]
<1> DEFINE frame == [from |-> s,
                     kind |-> IF s = BS /\ pkt_type = "cmd" THEN "cmd"
                                                            ELSE "data",
                     age  |-> IF s = BS THEN BS_AIR ELSE SN_AIR]
<1>1. frame \in FrameType
  BY ConstantTypes DEF FrameType
<1>2. PICK got : rx' = [m \in Nodes |-> IF m \in got THEN frame ELSE rx[m]]
  BY DEF EndFrame
<1>3. rx' \in [Nodes -> FrameType \cup {NoFrame}]
  BY <1>1, <1>2 DEF TypeOK
<1>4. hear' \in [Nodes -> Nodes \cup {None}]
  BY DEF EndFrame, TypeOK
<1> QED BY <1>3, <1>4

LEMMA TypeNext == TypeOK /\ [Next]_vars => TypeOK'
<1> SUFFICES ASSUME TypeOK, [Next]_vars PROVE TypeOK'
  OBVIOUS
<1> USE ConstantTypes DEF TypeOK, BS
<1>1. CASE Tick
  <2>1. \A n \in Nodes : /\ Elapse(timer[n]) \in RtimerType(Callbacks)
                         /\ Elapse(timer[n]).func = timer[n].func
    BY ElapseType DEF Callbacks
  <2>2. \A n \in Nodes : ~Urgent(n)
    BY <1>1 DEF Tick
  <2>3. \A n \in Sensors : (rx_start[n] + 1) % ClockModulus \in Clock
    <3>1. \A n \in Sensors : rx_start[n] + 1 \in Int
      BY DEF Clock
    <3> QED BY <3>1, ModClock
  <2>4. /\ timer' \in [Nodes -> RtimerType(Callbacks)]
        /\ timer'[BS].func \in {"none", "beacon"}
        /\ \A n \in Sensors : timer'[n].func \in {"none", "send", "radio_on"}
    BY <1>1, <2>1 DEF Tick
  <2>5. /\ air' \in [Nodes -> Int]
        /\ air'[BS] \in -1 .. BS_AIR
        /\ \A n \in Sensors : air'[n] \in -1 .. SN_AIR
    BY <1>1 DEF Tick, CountDown
  <2>6. rx' \in [Nodes -> FrameType \cup {NoFrame}]
    <3>1. \A f \in FrameType : [f EXCEPT !.age = @ + 1] \in FrameType
      BY DEF FrameType
    <3> QED BY <1>1, <3>1 DEF Tick
  <2>7. rx_start' \in [Sensors -> Clock]
    BY <1>1, <2>3, ClockAssumption DEF Tick, Clock
  <2>8. /\ listen' \in [Sensors -> -1 .. MAX_LISTEN_PERIOD]
        /\ sleep' \in [Sensors -> -1 .. MAX_SLEEP_PERIOD]
    BY <1>1 DEF Tick, CountDown
  <2>9. since' \in 0 .. SEGMENT_PERIOD
    BY <1>1 DEF Tick
  <2> QED BY <1>1, <2>4, <2>5, <2>6, <2>7, <2>8, <2>9 DEF Tick, Callbacks
<1>2. CASE \E n \in Nodes : PowerOn(n)
  <2> PICK n \in Nodes : PowerOn(n)
    BY <1>2
  <2>1. CASE n = BS
    <3>1. BaseOn(NoTask) \in RtimerType(Callbacks)
      BY NoTaskType, SetType DEF BaseOn, Callbacks
    <3>2. BaseOn(NoTask).func = "beacon"
      BY DEF BaseOn, rtimer_set
    <3> QED BY <2>1, <3>1, <3>2 DEF PowerOn, Callbacks
  <2>2. CASE n \in Sensors
    BY <2>2, TimingAssumption DEF PowerOn
  <2> QED BY <2>1, <2>2 DEF Nodes
<1>3. CASE \E n \in Nodes : PowerOff(n)
  <2> PICK n \in Nodes : PowerOff(n)
    BY <1>3
  <2>1. NoTask \in RtimerType(Callbacks) /\ NoTask.func = "none"
    BY NoTaskType DEF NoTask
  <2>2. CASE n = BS
    BY <2>1, <2>2 DEF PowerOff, Callbacks, Silent, None
  <2>3. CASE n \in Sensors
    BY <2>1, <2>3, ClockAssumption
       DEF PowerOff, Callbacks, Silent, Off, None, Clock
  <2> QED BY <2>2, <2>3 DEF Nodes
<1>4. CASE TDMA_BS_send
  <2> DEFINE t == timer[BS].time + SEGMENT_PERIOD
             r == rtimer_set(Taken(timer[BS]), t, "beacon")
  <2>1. t \in Int
    BY DEF RtimerType, Clock
  <2>2. r \in RtimerType(Callbacks) /\ r.func = "beacon"
    BY <2>1, TakenType, SetType DEF Callbacks, rtimer_set
  <2>3. Rescheduled(r) \in RtimerType(Callbacks) /\ Rescheduled(r).func = "beacon"
    BY <2>2, RescheduledType
  <2>4. timer' = [timer EXCEPT ![BS] = Rescheduled(r)]
    BY <1>4 DEF TDMA_BS_send, RunTask
  <2>5. hear' \in [Nodes -> Nodes \cup {None}]
    BY <1>4, StartFrameType DEF TDMA_BS_send
  <2> HIDE DEF r
  <2>6. /\ timer' \in [Nodes -> RtimerType(Callbacks)]
        /\ timer'[BS].func \in {"none", "beacon"}
        /\ \A m \in Sensors : timer'[m].func \in {"none", "send", "radio_on"}
    BY <2>3, <2>4 DEF Callbacks
  <2>7. /\ air' \in [Nodes -> Int]
        /\ air'[BS] \in -1 .. BS_AIR
        /\ \A m \in Sensors : air'[m] \in -1 .. SN_AIR
    BY <1>4 DEF TDMA_BS_send
  <2> QED BY <1>4, <2>5, <2>6, <2>7 DEF TDMA_BS_send, Callbacks
<1>5. CASE \E n \in Nodes : SendReturns(n)
  <2> PICK n \in Nodes : SendReturns(n)
    BY <1>5
  <2>1. /\ rx' \in [Nodes -> FrameType \cup {NoFrame}]
        /\ hear' \in [Nodes -> Nodes \cup {None}]
    BY EndFrameType DEF SendReturns
  <2>2. /\ air' \in [Nodes -> Int]
        /\ air'[BS] \in -1 .. BS_AIR
        /\ \A m \in Sensors : air'[m] \in -1 .. SN_AIR
    BY DEF SendReturns, Silent
  <2>3. /\ radio' \in [Nodes -> BOOLEAN]
        /\ pkt_type' \in {"data", "timestamp", "cmd"}
    BY DEF SendReturns
  <2> QED BY <2>1, <2>2, <2>3 DEF SendReturns
<1>6. CASE BaseInput
  BY <1>6 DEF BaseInput, TakeFrame
<1>7. CASE \E n \in Sensors : TDMA_SN_send(n)
  <2> PICK n \in Sensors : TDMA_SN_send(n)
    BY <1>7
  <2> DEFINE t == WakeTime - rx_start[n]
             r == rtimer_set(Taken(timer[n]), t, "radio_on")
  <2>1. t \in Int
    BY DEF Clock, WakeTime
  <2>2. r \in RtimerType(Callbacks) /\ r.func = "radio_on"
    BY <2>1, TakenType, SetType DEF Callbacks, rtimer_set
  <2>3. Rescheduled(r) \in RtimerType(Callbacks) /\ Rescheduled(r).func = "radio_on"
    BY <2>2, RescheduledType
  <2>4. timer' = [timer EXCEPT ![n] = Rescheduled(r)]
    BY DEF TDMA_SN_send, RunTask
  <2>5. hear' \in [Nodes -> Nodes \cup {None}]
    BY StartFrameType DEF TDMA_SN_send
  <2>6. 0 \in Clock
    BY DEF Clock
  <2> HIDE DEF r
  <2>7. /\ timer' \in [Nodes -> RtimerType(Callbacks)]
        /\ timer'[BS].func \in {"none", "beacon"}
        /\ \A m \in Sensors : timer'[m].func \in {"none", "send", "radio_on"}
    BY <2>3, <2>4 DEF Callbacks
  <2>8. /\ air' \in [Nodes -> Int]
        /\ air'[BS] \in -1 .. BS_AIR
        /\ \A m \in Sensors : air'[m] \in -1 .. SN_AIR
    BY DEF TDMA_SN_send
  <2>9. radio' \in [Nodes -> BOOLEAN] /\ rx_start' \in [Sensors -> Clock]
    BY <2>6 DEF TDMA_SN_send
  <2> QED BY <2>5, <2>7, <2>8, <2>9 DEF TDMA_SN_send, Callbacks
<1>8. CASE \E n \in Sensors : WakeUp(n)
  <2> PICK n \in Sensors : WakeUp(n)
    BY <1>8
  <2>1. /\ Rescheduled(Taken(timer[n])) \in RtimerType(Callbacks)
        /\ Rescheduled(Taken(timer[n])).func = "none"
    <3>1. Taken(timer[n]) \in RtimerType(Callbacks) /\ Taken(timer[n]).func = "none"
      BY TakenType DEF Callbacks
    <3> QED BY <3>1, RescheduledType
  <2> QED BY <2>1 DEF WakeUp, RunTask, RadioOn, Callbacks
<1>9. CASE \E n \in Sensors : RejectFrame(n)
  <2> PICK n \in Sensors : RejectFrame(n)
    BY <1>9
  <2>1. rx' \in [Nodes -> FrameType \cup {NoFrame}]
    BY DEF RejectFrame, TakeFrame
  <2>2. /\ listen' \in [Sensors -> -1 .. MAX_LISTEN_PERIOD]
        /\ sleep' \in [Sensors -> -1 .. MAX_SLEEP_PERIOD]
        /\ rejected' \in [Sensors -> 0 .. REJECT_LIMIT]
    <3>1. CASE rejected[n] + 1 > REJECT_LIMIT
      BY <3>1 DEF RejectFrame, TDMA_SN_sleep, Off
    <3>2. CASE ~(rejected[n] + 1 > REJECT_LIMIT)
      <4>1. rejected[n] + 1 \in 0 .. REJECT_LIMIT
        BY <3>2
      <4> QED BY <3>2, <4>1 DEF RejectFrame, Off
    <3> QED BY <3>1, <3>2
  <2>3. /\ radio' \in [Nodes -> BOOLEAN]
        /\ hear' \in [Nodes -> Nodes \cup {None}]
    BY DEF RejectFrame, TDMA_SN_sleep, RadioOff
  <2> QED BY <2>1, <2>2, <2>3 DEF RejectFrame
<1>10. CASE \E n \in Sensors : FromBaseInput(n)
  <2> PICK n \in Sensors : FromBaseInput(n)
    BY <1>10
  <2>1. rx[n].age \in Nat
    BY DEF FromBaseInput, TakeFrame, FrameType
  <2>2. rx[n].age % ClockModulus \in Clock /\ 0 \in Clock
    <3>1. rx[n].age % ClockModulus \in Clock
      BY <2>1, ModClock
    <3> QED BY <3>1, ClockAssumption DEF Clock
  <2>3. \A t \in Int, f \in {"send", "radio_on"} :
          /\ rtimer_set(timer[n], t, f) \in RtimerType(Callbacks)
          /\ rtimer_set(timer[n], t, f).func = f
    BY SetType DEF Callbacks, rtimer_set
  <2>4. /\ WakeTime - rx[n].age \in Int
        /\ SlotStart(slot[n]) - rx[n].age \in Int
    BY <2>1, Layout DEF WakeTime
  <2>5. /\ timer' \in [Nodes -> RtimerType(Callbacks)]
        /\ timer'[BS].func \in {"none", "beacon"}
        /\ \A m \in Sensors : timer'[m].func \in {"none", "send", "radio_on"}
    BY <2>3, <2>4 DEF FromBaseInput, RxAge, Callbacks
  <2>6. /\ rx_start' \in [Sensors -> Clock]
        /\ due' \in [Sensors -> 1 .. TOTAL_TS]
    BY <2>2 DEF FromBaseInput, RxAge
  <2>7. rx' \in [Nodes -> FrameType \cup {NoFrame}]
    BY DEF FromBaseInput, TakeFrame
  <2>8. /\ listen' \in [Sensors -> -1 .. MAX_LISTEN_PERIOD]
        /\ sleep' \in [Sensors -> -1 .. MAX_SLEEP_PERIOD]
    BY DEF FromBaseInput, Off
  <2>9. /\ radio' \in [Nodes -> BOOLEAN]
        /\ hear' \in [Nodes -> Nodes \cup {None}]
    BY DEF FromBaseInput, RadioOff
  <2> QED BY <2>5, <2>6, <2>7, <2>8, <2>9 DEF FromBaseInput, Callbacks
<1>11. CASE \E n \in Sensors : ListenExpires(n)
  BY <1>11 DEF ListenExpires, TDMA_SN_sleep, RadioOff, Off, None
<1>12. CASE \E n \in Sensors : SleepExpires(n)
  BY <1>12 DEF SleepExpires, TDMA_SN_listen, RadioOn, Off
<1>13. CASE \E n \in ShellNodes, k \in SlotChoices : Timeslot(n, k)
  <2>1. \A n \in ShellNodes : n \in Sensors
    BY ConstantsAssumption, TimingAssumption DEF Nodes
  <2> PICK n \in ShellNodes, k \in SlotChoices : Timeslot(n, k)
    BY <1>13
  <2>2. n \in Sensors /\ n # BS /\ k \in 1 .. TOTAL_TS
    BY <2>1, TimingAssumption
  <2>3. /\ slot' = [slot EXCEPT ![n] = k]
        /\ listen' = [listen EXCEPT ![n] = MAX_LISTEN_PERIOD]
        /\ UNCHANGED timer
    BY <2>2 DEF Timeslot
  <2>4. /\ slot' \in [Sensors -> 1 .. TOTAL_TS]
        /\ listen' \in [Sensors -> -1 .. MAX_LISTEN_PERIOD]
    BY <2>2, <2>3
  <2>5. /\ radio' \in [Nodes -> BOOLEAN]
        /\ hear' \in [Nodes -> Nodes \cup {None}]
    BY DEF Timeslot
  <2> QED BY <2>2, <2>3, <2>4, <2>5 DEF Timeslot
<1>14. CASE SendCommand
  BY <1>14 DEF SendCommand
<1>15. CASE UNCHANGED vars
  BY <1>15 DEF vars
<1> QED BY <1>1, <1>2, <1>3, <1>4, <1>5, <1>6, <1>7, <1>8, <1>9, <1>10, <1>11,
           <1>12, <1>13, <1>14, <1>15 DEF Next, Handlers

(* Every variable keeps its type, from every state the nodes can reach.    *)
THEOREM TypeCorrect == Spec => []TypeOK
  BY TypeInit, TypeNext, PTL DEF Spec

-----------------------------------------------------------------------------
(* The schedule is inductive. *)

LEMMA ScheduleInit == Init => ScheduleInv
<1> SUFFICES ASSUME Init PROVE ScheduleInv
  OBVIOUS
<1>1. TypeOK
  BY TypeInit
<1>2. BaseInv
  BY ConstantTypes DEF Init, BaseInv, Blocked, NoTask, NoFrame, None, BS
<1>3. HearInv
  BY DEF Init, HearInv
<1>4. \A n \in Sensors : SensorInv(n)
  BY ConstantTypes
     DEF Init, SensorInv, Blocked, NoTask, NoFrame, None, BS
<1> QED BY <1>1, <1>2, <1>3, <1>4 DEF ScheduleInv

(* What a sensor has booked or is sending lies before the end of the       *)
(* segment: when the next frame of the base station may start, the sensors *)
(* are quiet.                                                              *)
LEMMA SensorOffsets ==
  ASSUME ScheduleInv, NEW n \in Sensors
  PROVE  /\ timer[n].func # "none" => since < SEGMENT_PERIOD
         /\ Blocked(n) => timer[n].func = "radio_on" /\ since <= WakeTime
         /\ rx[n].from = BS => since < SEGMENT_PERIOD /\ ~Blocked(n)
<1>1. due[n] \in 1 .. TOTAL_TS /\ timer[n] \in RtimerType(Callbacks)
  BY ConstantTypes DEF ScheduleInv, TypeOK, Callbacks
<1>2. /\ timer[n].func \in {"none", "send", "radio_on"}
      /\ timer[n].match \in Nat
      /\ since \in Nat
      /\ air[n] \in -1 .. SN_AIR
  BY <1>1, ConstantTypes DEF ScheduleInv, TypeOK, RtimerType
<1>3. SensorInv(n)
  BY DEF ScheduleInv
<1>4. {SN_AIR, BS_AIR, MAX_LATENCY, SEGMENT_PERIOD} \subseteq Nat
  BY ConstantTypes
<1> QED BY <1>1, <1>2, <1>3, <1>4, Layout DEF SensorInv, Blocked, Silent

(* A sensor keeps its part of the invariant when nothing of it changes,    *)
(* except that it may lose or receive a frame that is not the base         *)
(* station's.                                                              *)
LEMMA SensorFrame ==
  ASSUME NEW m \in Sensors, SensorInv(m),
         UNCHANGED <<since, timer[m], rx_start[m], due[m], air[m]>>,
         rx'[m] = rx[m] \/ rx'[m].from # BS
  PROVE  SensorInv(m)'
  BY DEF SensorInv, Blocked

(* So does the base station when neither it nor, during its frame, a       *)
(* sensor does anything.                                                   *)
LEMMA BaseFrame ==
  ASSUME BaseInv,
         UNCHANGED <<since, timer[BS], air[BS]>>,
         up'[BS] => up[BS],
         Blocked(BS) =>
           \A m \in Sensors : /\ timer'[m].func = timer[m].func
                              /\ air'[m] = air[m]
                              /\ rx'[m] = rx[m] \/ rx'[m].from # BS
  PROVE  BaseInv'
  BY DEF BaseInv, Blocked

(* Whoever is still locked on to a frame that is still being sent is right *)
(* to be.                                                                  *)
LEMMA HearKept ==
  ASSUME HearInv,
         \A m \in Nodes : hear'[m] # None =>
           hear'[m] = hear[m] /\ (Blocked(hear[m]) => Blocked(hear[m])')
  PROVE  HearInv'
  BY DEF HearInv

(* Receivers stay locked on to frames that are being sent. *)
LEMMA HearNext ==
  ASSUME TypeOK, HearInv, [Next]_vars
  PROVE  HearInv'
<1>1. hear \in [Nodes -> Nodes \cup {None}] /\ air \in [Nodes -> Int]
  BY DEF TypeOK
<1>2. ASSUME UNCHANGED air,
             \A m \in Nodes : hear'[m] \in {hear[m], None}
      PROVE  HearInv'
  BY <1>2, HearKept DEF Blocked
<1>3. ASSUME NEW n \in Nodes, \A k \in Nodes \ {n} : air'[k] = air[k],
             \A m \in Nodes : hear'[m] # None => hear'[m] = hear[m]
                                                /\ hear[m] # n
      PROVE  HearInv'
  BY <1>1, <1>3, HearKept DEF Blocked
<1>4. ASSUME NEW n \in Nodes, StartFrame(n), air'[n] # Silent
      PROVE  HearInv'
  BY <1>4 DEF HearInv, Blocked, StartFrame
<1>5. ASSUME Tick PROVE HearInv'
  <2>1. \A n \in Nodes : air[n] # 0
    BY <1>5 DEF Tick, Urgent
  <2>2. \A n \in Nodes : Blocked(n) => Blocked(n)'
    BY <1>1, <1>5, <2>1 DEF Tick, CountDown, Blocked, Silent
  <2> QED BY <1>1, <1>5, <2>2, HearKept DEF Tick
<1>6. ASSUME NEW n \in Nodes, PowerOn(n) PROVE HearInv'
  BY <1>2, <1>6 DEF PowerOn
<1>7. ASSUME NEW n \in Nodes, PowerOff(n) PROVE HearInv'
  <2>1. \A k \in Nodes \ {n} : air'[k] = air[k]
    BY <1>1, <1>7 DEF PowerOff
  <2>2. \A m \in Nodes : hear'[m] # None => hear'[m] = hear[m] /\ hear[m] # n
    BY <1>1, <1>7 DEF PowerOff
  <2> QED BY <1>3, <2>1, <2>2
<1>8. ASSUME TDMA_BS_send PROVE HearInv'
  <2>1. StartFrame(BS) /\ air'[BS] # Silent
    BY <1>1, <1>8, ConstantTypes DEF TDMA_BS_send, Silent
  <2> QED BY <1>4, <2>1, ConstantTypes
<1>9. ASSUME NEW n \in Nodes, SendReturns(n) PROVE HearInv'
  <2>1. \A k \in Nodes \ {n} : air'[k] = air[k]
    BY <1>1, <1>9 DEF SendReturns
  <2>2. \A m \in Nodes : hear'[m] # None => hear'[m] = hear[m] /\ hear[m] # n
    BY <1>9 DEF SendReturns, EndFrame
  <2> QED BY <1>3, <2>1, <2>2
<1>10. ASSUME BaseInput PROVE HearInv'
  BY <1>2, <1>10 DEF BaseInput
<1>11. ASSUME NEW n \in Sensors, TDMA_SN_send(n) PROVE HearInv'
  <2>1. StartFrame(n) /\ air'[n] # Silent /\ n \in Nodes
    BY <1>1, <1>11, ConstantTypes DEF TDMA_SN_send, Silent
  <2> QED BY <1>4, <2>1
<1>12. ASSUME NEW n \in Sensors, WakeUp(n) PROVE HearInv'
  BY <1>2, <1>12 DEF WakeUp, RadioOn
<1>13. ASSUME NEW n \in Sensors, RadioOff(n), UNCHANGED air PROVE HearInv'
  BY <1>1, <1>2, <1>13 DEF RadioOff
<1>14. ASSUME NEW n \in Sensors, RejectFrame(n) PROVE HearInv'
  <2>1. UNCHANGED air /\ (RadioOff(n) \/ UNCHANGED hear)
    BY <1>14 DEF RejectFrame, TDMA_SN_sleep
  <2> QED BY <1>2, <1>13, <2>1
<1>15. ASSUME NEW n \in Sensors, FromBaseInput(n) PROVE HearInv'
  BY <1>13, <1>15 DEF FromBaseInput
<1>16. ASSUME NEW n \in Sensors, ListenExpires(n) PROVE HearInv'
  BY <1>13, <1>16 DEF ListenExpires, TDMA_SN_sleep
<1>17. ASSUME NEW n \in Sensors, SleepExpires(n) PROVE HearInv'
  BY <1>2, <1>17 DEF SleepExpires, TDMA_SN_listen, RadioOn
<1>18. ASSUME NEW n \in ShellNodes, NEW k \in SlotChoices, Timeslot(n, k)
       PROVE HearInv'
  BY <1>1, <1>2, <1>18 DEF Timeslot
<1>19. ASSUME SendCommand \/ UNCHANGED vars PROVE HearInv'
  BY <1>2, <1>19 DEF SendCommand, vars
<1> QED BY <1>5, <1>6, <1>7, <1>8, <1>9, <1>10, <1>11, <1>12, <1>14, <1>15,
           <1>16, <1>17, <1>18, <1>19, ConstantTypes DEF Next, Handlers

(* A tick brings every booked task and every send one tick closer. *)
LEMMA TickStep ==
  ASSUME ScheduleInv, Tick
  PROVE  BaseInv' /\ \A n \in Sensors : SensorInv(n)'
<1> USE ConstantTypes DEF BS
<1>1. /\ \A n \in Nodes : ~Urgent(n) /\ timer'[n] = Elapse(timer[n])
      /\ \A n \in Nodes : timer[n] \in RtimerType(Callbacks)
      /\ since \in 0 .. SEGMENT_PERIOD
      /\ since' = IF since < SEGMENT_PERIOD THEN since + 1 ELSE since
  BY DEF ScheduleInv, TypeOK, Tick, Callbacks
<1>2. \A n \in Nodes : /\ air[n] \in Int
                       /\ air[n] # 0
                       /\ air'[n] = IF air[n] > 0 THEN air[n] - 1 ELSE air[n]
  BY <1>1 DEF ScheduleInv, TypeOK, Tick, CountDown, Urgent
<1>3. \A n \in Nodes : timer'[n].func = timer[n].func
  BY <1>1, ElapseType
<1>4. \A n \in Nodes : timer[n].match \in Nat /\ timer[n].time \in Nat
  BY <1>1 DEF RtimerType, Clock
<1>5. \A n \in Nodes :
        timer[n].func # "none" /\ timer[n].time = timer[n].match
          /\ timer[n].match # 0 =>
            /\ timer'[n].time = timer[n].time - 1
            /\ timer'[n].match = timer[n].match - 1
  BY <1>1, ElapseInStep
<1>6. \A n \in Nodes : ~Blocked(n) /\ timer[n].func # "none" =>
                         timer[n].match # 0
  BY <1>1 DEF Urgent, IsrReady, Due
<1>7. \A n \in Nodes : /\ rx'[n].from = rx[n].from
                       /\ rx[n].from = BS => rx'[n].age = rx[n].age + 1
                       /\ rx[n] \in FrameType \cup {NoFrame}
  BY DEF ScheduleInv, TypeOK, Tick, FrameType, NoFrame, None
<1>8. BaseInv'
  <2>0. BS_AIR < SEGMENT_PERIOD /\ SEGMENT_PERIOD \in Nat
    <3>1. 1 \in 1 .. TOTAL_TS
      OBVIOUS
    <3> QED BY <3>1, Layout
  <2>1. Blocked(BS) => /\ since < SEGMENT_PERIOD
                       /\ since = BS_AIR - air[BS]
                       /\ air[BS] > 0
    BY <1>1, <1>2, <2>0 DEF ScheduleInv, TypeOK, BaseInv, Blocked, Silent
  <2>2. ASSUME Blocked(BS)'
        PROVE  /\ since' = BS_AIR - air'[BS]
               /\ \A n \in Sensors : /\ timer'[n].func = "none"
                                      /\ ~Blocked(n)'
                                      /\ rx'[n].from # BS
    <3>1. Blocked(BS)
      BY <1>2, <2>2 DEF Blocked, Silent
    <3>2. since' = BS_AIR - air'[BS]
      BY <1>1, <1>2, <2>0, <2>1, <3>1
    <3>3. \A n \in Sensors : ~Blocked(n)'
      BY <1>2, <3>1 DEF ScheduleInv, BaseInv, Blocked, Silent
    <3> QED BY <1>3, <1>7, <3>1, <3>2, <3>3 DEF ScheduleInv, BaseInv
  <2>3. up'[BS] => timer'[BS].func = "beacon"
    BY <1>3 DEF ScheduleInv, BaseInv, Tick
  <2>4. ASSUME timer'[BS].func = "beacon"
        PROVE  /\ timer'[BS].time = timer'[BS].match
               /\ timer'[BS].match <= SEGMENT_PERIOD
               /\ since' + timer'[BS].match >= SEGMENT_PERIOD
    <3>1. /\ timer[BS].func = "beacon"
          /\ timer[BS].time = timer[BS].match
          /\ timer[BS].match <= SEGMENT_PERIOD
          /\ since + timer[BS].match >= SEGMENT_PERIOD
      BY <1>3, <2>4 DEF ScheduleInv, BaseInv
    <3>2. timer[BS].match # 0
      BY <1>1, <1>4, <1>6, <2>1, <3>1
    <3> QED BY <1>1, <1>4, <1>5, <3>1, <3>2
  <2> QED BY <2>2, <2>3, <2>4 DEF BaseInv
<1>9. ASSUME NEW n \in Sensors PROVE SensorInv(n)'
  <2>1. /\ SensorInv(n)
        /\ due[n] \in 1 .. TOTAL_TS /\ due'[n] = due[n]
        /\ air[n] \in -1 .. SN_AIR
    BY DEF ScheduleInv, TypeOK, Tick
  <2>2. timer[n].func # "none" => since < SEGMENT_PERIOD /\ timer[n].match # 0
    BY <1>1, <1>2, <1>4, <1>6, <2>1, SensorOffsets, Layout
       DEF SensorInv, Blocked, Silent
  <2>7. timer[n].match \in Int /\ since \in Int
    BY <1>1, <1>4
  <2>3. ASSUME timer'[n].func = "send"
        PROVE  /\ rx_start'[n] = since'
               /\ timer'[n].time = timer'[n].match
               /\ since' + timer'[n].match = SlotStart(due'[n])
    <3>1. rx_start'[n] = (since + 1) % ClockModulus
      BY <1>3, <2>1, <2>3 DEF Tick, SensorInv
    <3>2. since' = since + 1 /\ since + 1 \in Clock
      BY <1>1, <1>3, <2>1, <2>2, <2>3, Layout DEF Clock
    <3>3. rx_start'[n] = since'
      BY <3>1, <3>2, ModSmall
    <3>4. /\ timer[n].time = timer[n].match
          /\ since + timer[n].match = SlotStart(due[n])
      BY <1>3, <2>1, <2>3 DEF SensorInv
    <3>5. /\ timer'[n].time = timer[n].match - 1
          /\ timer'[n].match = timer[n].match - 1
      BY <1>3, <1>5, <2>2, <2>3, <3>4
    <3> QED BY <2>7, <2>1, <3>2, <3>3, <3>4, <3>5
  <2>4. ASSUME timer'[n].func = "radio_on"
        PROVE  /\ timer'[n].time = timer'[n].match
               /\ since' + timer'[n].match = WakeTime
    <3>1. /\ timer[n].func = "radio_on"
          /\ timer[n].time = timer[n].match
          /\ since + timer[n].match = WakeTime
      BY <1>3, <2>1, <2>4 DEF SensorInv
    <3>2. /\ timer'[n].time = timer[n].match - 1
          /\ timer'[n].match = timer[n].match - 1
      BY <1>5, <2>2, <3>1
    <3>3. since' = since + 1 /\ since \in Nat
      BY <1>1, <2>2, <3>1
    <3> QED BY <2>7, <3>1, <3>2, <3>3
  <2>5. ASSUME Blocked(n)'
        PROVE  /\ timer'[n].func = "radio_on"
               /\ since' = SlotStart(due'[n]) + SN_AIR - air'[n]
    <3>1. Blocked(n)
      BY <1>2, <2>5 DEF Blocked, Silent
    <3>2. timer[n].func = "radio_on" /\ since = SlotStart(due[n]) + SN_AIR - air[n]
      BY <2>1, <3>1 DEF SensorInv
    <3>3. since' = since + 1 /\ air'[n] = air[n] - 1
      BY <1>1, <1>2, <2>1, <2>2, <3>1, <3>2 DEF Blocked, Silent
    <3>4. SlotStart(due[n]) \in Nat
      BY <2>1, Layout
    <3> QED BY <1>2, <1>3, <2>1, <3>2, <3>3, <3>4
  <2>6. ASSUME rx'[n].from = BS
        PROVE  /\ rx'[n].age = since'
               /\ since' <= BS_AIR + MAX_LATENCY
               /\ timer'[n].func = "none"
    <3>1. rx[n].from = BS /\ rx[n] # NoFrame /\ rx'[n].age = rx[n].age + 1
      <4>1. rx[n].from = BS /\ rx'[n].age = rx[n].age + 1
        BY <1>7, <2>6
      <4> QED BY <4>1 DEF NoFrame, None
    <3>2. ~Blocked(n) /\ since < SEGMENT_PERIOD
      BY <3>1, SensorOffsets
    <3>3. ~(rx[n].age >= MAX_LATENCY + BS_AIR)
      BY <1>1, <3>1, <3>2 DEF Urgent
    <3> QED BY <1>1, <1>3, <2>1, <3>1, <3>2, <3>3 DEF SensorInv
  <2> QED BY <2>3, <2>4, <2>5, <2>6 DEF SensorInv
<1> QED BY <1>8, <1>9

(* The base station begins a frame at the end of a segment, when no sensor *)
(* has anything booked, on the air or unread.                              *)
LEMMA BaseSendStep ==
  ASSUME ScheduleInv, TDMA_BS_send
  PROVE  /\ since = SEGMENT_PERIOD
         /\ BaseInv' /\ \A n \in Sensors : SensorInv(n)'
<1> USE ConstantTypes DEF BS
<1>1. /\ timer[BS].func = "beacon" /\ timer[BS].match = 0
      /\ timer[BS].time = 0
      /\ timer[BS] \in RtimerType(Callbacks)
      /\ since \in 0 .. SEGMENT_PERIOD
  BY DEF TDMA_BS_send, RunTask, IsrReady, Due, ScheduleInv, TypeOK, BaseInv,
         Callbacks
<1>2. since = SEGMENT_PERIOD
  BY <1>1 DEF ScheduleInv, BaseInv
<1>3. \A n \in Sensors : /\ timer[n].func = "none"
                         /\ ~Blocked(n)
                         /\ rx[n].from # BS
  BY <1>2, SensorOffsets
<1>4. /\ timer'[BS] = [func |-> "beacon", time |-> SEGMENT_PERIOD,
                       match |-> SEGMENT_PERIOD]
      /\ \A n \in Sensors : timer'[n] = timer[n]
  <2>1. timer' = [timer EXCEPT ![BS] =
                    Rescheduled(rtimer_set(Taken(timer[BS]),
                      timer[BS].time + SEGMENT_PERIOD, "beacon"))]
    BY DEF TDMA_BS_send, RunTask
  <2>2. Taken(timer[BS]).func = "none"
    BY <1>1, TakenType
  <2>3. timer[BS].time + SEGMENT_PERIOD = SEGMENT_PERIOD
        /\ SEGMENT_PERIOD \in Clock \ {0}
    BY <1>1, TimingAssumption DEF Clock
  <2>4. Rescheduled(rtimer_set(Taken(timer[BS]), SEGMENT_PERIOD, "beacon"))
          = [func |-> "beacon", time |-> SEGMENT_PERIOD,
             match |-> SEGMENT_PERIOD]
    BY <2>2, <2>3, TaskSetsNext
  <2> QED BY <2>1, <2>3, <2>4 DEF ScheduleInv, TypeOK
<1>5. /\ since' = 0
      /\ air'[BS] = BS_AIR
      /\ \A n \in Sensors : air'[n] = air[n]
      /\ UNCHANGED rx
  BY DEF TDMA_BS_send, ScheduleInv, TypeOK
<1>6. BaseInv'
  BY <1>3, <1>4, <1>5 DEF BaseInv, Blocked
<1>7. \A n \in Sensors : SensorInv(n)'
  BY <1>3, <1>4, <1>5 DEF SensorInv, Blocked
<1> QED BY <1>2, <1>6, <1>7

(* A sensor sends at the start of its slot and books its wake-up.          *)
LEMMA SensorSendStep ==
  ASSUME ScheduleInv, NEW n \in Sensors, TDMA_SN_send(n)
  PROVE  BaseInv' /\ \A m \in Sensors : SensorInv(m)'
<1> USE ConstantTypes DEF BS
<1>1. /\ timer[n].func = "send" /\ timer[n].match = 0
      /\ timer[n] \in RtimerType(Callbacks)
      /\ since \in Nat /\ due[n] \in 1 .. TOTAL_TS
      /\ SensorInv(n)
  BY DEF TDMA_SN_send, RunTask, IsrReady, Due, ScheduleInv, TypeOK, Callbacks
<1>2. since = SlotStart(due[n]) /\ rx_start[n] = since /\ rx[n].from # BS
  BY <1>1 DEF SensorInv
<1>3. WakeTime - rx_start[n] \in Clock \ {0}
  BY <1>1, <1>2, Layout DEF Clock
<1>4. /\ timer'[n] = [func |-> "radio_on", time |-> WakeTime - rx_start[n],
                      match |-> WakeTime - rx_start[n]]
      /\ \A m \in Nodes : m # n => timer'[m] = timer[m]
  <2>1. timer' = [timer EXCEPT ![n] =
                    Rescheduled(rtimer_set(Taken(timer[n]),
                      WakeTime - rx_start[n], "radio_on"))]
    BY DEF TDMA_SN_send, RunTask
  <2>2. Taken(timer[n]).func = "none"
    BY <1>1, TakenType
  <2>3. Rescheduled(rtimer_set(Taken(timer[n]), WakeTime - rx_start[n],
                               "radio_on"))
          = [func |-> "radio_on", time |-> WakeTime - rx_start[n],
             match |-> WakeTime - rx_start[n]]
    BY <1>3, <2>2, TaskSetsNext
  <2> QED BY <2>1, <2>3 DEF ScheduleInv, TypeOK
<1>5. /\ air'[n] = SN_AIR
      /\ \A m \in Nodes : m # n => air'[m] = air[m]
      /\ \A m \in Sensors : m # n => rx_start'[m] = rx_start[m]
      /\ UNCHANGED <<rx, due, since, up>>
  BY DEF TDMA_SN_send, ScheduleInv, TypeOK
<1>6. BaseInv'
  <2>1. ~Blocked(BS)
    BY <1>1 DEF ScheduleInv, BaseInv
  <2> QED BY <1>4, <1>5, <2>1, BaseFrame DEF ScheduleInv
<1>7. SensorInv(n)'
  BY <1>1, <1>2, <1>4, <1>5, Layout DEF SensorInv, Blocked
<1>8. \A m \in Sensors \ {n} : SensorInv(m)'
  BY <1>4, <1>5, SensorFrame DEF ScheduleInv
<1> QED BY <1>6, <1>7, <1>8

(* A sensor that processes the base station's frame books its slot or its  *)
(* wake-up at the right distance from the frame, however late it is.       *)
LEMMA FromBaseStep ==
  ASSUME ScheduleInv, NEW n \in Sensors, FromBaseInput(n)
  PROVE  BaseInv' /\ \A m \in Sensors : SensorInv(m)'
<1> USE ConstantTypes DEF BS
<1>1. /\ rx[n].from = BS
      /\ SensorInv(n)
      /\ since \in Nat /\ slot[n] \in 1 .. TOTAL_TS
      /\ ~Blocked(n)
  BY DEF FromBaseInput, TakeFrame, ScheduleInv, TypeOK
<1>2. /\ RxAge(n) = since /\ since <= BS_AIR + MAX_LATENCY
      /\ timer[n].func = "none"
  BY <1>1 DEF SensorInv, RxAge
<1>3. /\ \A m \in Nodes : m # n => timer'[m] = timer[m]
      /\ \A m \in Sensors : m # n => /\ rx_start'[m] = rx_start[m]
                                     /\ due'[m] = due[m]
      /\ \A m \in Nodes : m # n => rx'[m] = rx[m]
      /\ rx'[n].from # BS
      /\ UNCHANGED <<air, since, up>>
  BY DEF FromBaseInput, TakeFrame, ScheduleInv, TypeOK, NoFrame, None
<1>4. BaseInv'
  <2>1. ~Blocked(BS)
    BY <1>1 DEF ScheduleInv, BaseInv
  <2> QED BY <1>3, <2>1, BaseFrame DEF ScheduleInv
<1>5. \A m \in Sensors \ {n} : SensorInv(m)'
  BY <1>3, SensorFrame DEF ScheduleInv
<1>6. /\ WakeTime - since \in Clock \ {0}
      /\ SlotStart(slot[n]) - since \in Clock \ {0}
      /\ since \in Clock
      /\ WakeTime \in Nat /\ SlotStart(slot[n]) \in Nat
  BY <1>1, <1>2, Layout DEF Clock
<1>7. air'[n] = Silent /\ since' = since /\ rx'[n].from # BS
  BY <1>1, <1>3 DEF Blocked
<1>8. ASSUME rx[n].kind = "cmd" PROVE SensorInv(n)'
  <2>1. timer'[n] = [func |-> "radio_on", time |-> WakeTime - since,
                     match |-> WakeTime - since]
    BY <1>2, <1>6, <1>8, SetIdle DEF FromBaseInput, ScheduleInv, TypeOK
  <2> QED BY <1>1, <1>6, <1>7, <2>1 DEF SensorInv, Blocked
<1>9. ASSUME rx[n].kind = "data" /\ HasSlot(n) PROVE SensorInv(n)'
  <2>1. timer'[n] = [func |-> "send", time |-> SlotStart(slot[n]) - since,
                     match |-> SlotStart(slot[n]) - since]
    BY <1>2, <1>6, <1>9, SetIdle DEF FromBaseInput, ScheduleInv, TypeOK
  <2>2. rx_start'[n] = since /\ due'[n] = slot[n]
    BY <1>2, <1>6, <1>9, ModSmall DEF FromBaseInput, ScheduleInv, TypeOK
  <2> QED BY <1>1, <1>6, <1>7, <2>1, <2>2 DEF SensorInv, Blocked
<1>10. ASSUME rx[n].kind = "data" /\ ~HasSlot(n) PROVE SensorInv(n)'
  <2>1. UNCHANGED timer
    BY <1>10 DEF FromBaseInput
  <2> QED BY <1>2, <1>7, <2>1 DEF SensorInv, Blocked
<1>11. SensorInv(n)'
  BY <1>8, <1>9, <1>10 DEF FromBaseInput
<1> QED BY <1>4, <1>5, <1>11

(* Steps that touch no task, no send and no frame of the base station      *)
(* touch no part of the schedule.                                          *)
LEMMA QuietStep ==
  ASSUME ScheduleInv,
         UNCHANGED <<timer, air, rx_start, due, since>>,
         up'[BS] => up[BS],
         \A m \in Sensors : rx'[m] = rx[m] \/ rx'[m].from # BS
  PROVE  BaseInv' /\ \A m \in Sensors : SensorInv(m)'
<1>1. BaseInv'
  BY BaseFrame DEF ScheduleInv
<1>2. ASSUME NEW m \in Sensors PROVE SensorInv(m)'
  BY SensorFrame DEF ScheduleInv
<1> QED BY <1>1, <1>2

(* A base station that boots waits a whole segment before its first frame. *)
LEMMA BaseOnStep ==
  ASSUME ScheduleInv, PowerOn(BS)
  PROVE  BaseInv' /\ \A m \in Sensors : SensorInv(m)'
<1> USE ConstantTypes DEF BS
<1>1. BaseOn(NoTask) = [func |-> "beacon", time |-> SEGMENT_PERIOD,
                        match |-> SEGMENT_PERIOD]
  BY SetIdle, TimingAssumption DEF BaseOn, NoTask, Clock
<1>2. /\ timer'[BS] = BaseOn(NoTask)
      /\ \A m \in Sensors : timer'[m] = timer[m]
      /\ UNCHANGED <<air, rx, rx_start, due, since>>
      /\ since \in Nat
  BY DEF PowerOn, ScheduleInv, TypeOK
<1>3. BaseInv'
  BY <1>1, <1>2 DEF ScheduleInv, BaseInv, Blocked
<1>4. ASSUME NEW m \in Sensors PROVE SensorInv(m)'
  BY <1>2, SensorFrame DEF ScheduleInv
<1> QED BY <1>3, <1>4

(* A node that loses its power forgets its tasks. *)
LEMMA PowerOffStep ==
  ASSUME ScheduleInv, NEW n \in Nodes, PowerOff(n)
  PROVE  BaseInv' /\ \A m \in Sensors : SensorInv(m)'
<1> USE ConstantTypes DEF BS
<1>1. /\ timer'[n].func = "none" /\ air'[n] = Silent /\ rx'[n].from # BS
      /\ \A m \in Nodes \ {n} : /\ timer'[m] = timer[m]
                                /\ air'[m] = air[m]
                                /\ rx'[m] = rx[m]
      /\ \A m \in Sensors \ {n} : rx_start'[m] = rx_start[m]
      /\ UNCHANGED <<since, due>>
      /\ up'[BS] => up[BS] /\ n # BS
  BY DEF PowerOff, NoTask, NoFrame, None, ScheduleInv, TypeOK
<1>2. \A m \in Sensors \ {n} : SensorInv(m)'
  BY <1>1, SensorFrame DEF ScheduleInv
<1>3. n \in Sensors => SensorInv(n)'
  BY <1>1 DEF SensorInv, Blocked
<1>4. BaseInv'
  BY <1>1 DEF ScheduleInv, BaseInv, Blocked
<1> QED BY <1>2, <1>3, <1>4

(* Who receives the base station's frame has it exactly BS_AIR ticks after *)
(* the frame began.                                                        *)
LEMMA BaseSentStep ==
  ASSUME ScheduleInv, SendReturns(BS)
  PROVE  BaseInv' /\ \A m \in Sensors : SensorInv(m)'
<1> USE ConstantTypes DEF BS
<1>1. air[BS] = 0 /\ since = BS_AIR
  BY DEF SendReturns, ScheduleInv, BaseInv, Blocked, Silent
<1>2. \A m \in Sensors : timer[m].func = "none" /\ air[m] = Silent
  BY <1>1 DEF ScheduleInv, BaseInv, Blocked, Silent
<1>3. /\ air'[BS] = Silent
      /\ \A m \in Sensors : air'[m] = air[m]
      /\ UNCHANGED <<up, timer, rx_start, due, since>>
  BY DEF SendReturns, ScheduleInv, TypeOK
<1>4. \A m \in Sensors : rx'[m] = rx[m] \/ rx'[m].age = BS_AIR
  BY DEF SendReturns, EndFrame
<1>5. BaseInv'
  BY <1>3 DEF ScheduleInv, BaseInv, Blocked
<1>6. ASSUME NEW m \in Sensors PROVE SensorInv(m)'
  BY <1>1, <1>2, <1>3, <1>4 DEF ScheduleInv, SensorInv, Blocked
<1> QED BY <1>5, <1>6

(* A sensor's send ends; what is received is not the base station's.       *)
LEMMA SensorSentStep ==
  ASSUME ScheduleInv, NEW n \in Sensors, SendReturns(n)
  PROVE  BaseInv' /\ \A m \in Sensors : SensorInv(m)'
<1> USE ConstantTypes DEF BS
<1>1. Blocked(n)
  BY DEF SendReturns, Blocked, Silent
<1>2. ~Blocked(BS)
  BY <1>1 DEF ScheduleInv, BaseInv
<1>3. /\ air'[n] = Silent
      /\ \A m \in Nodes \ {n} : air'[m] = air[m]
      /\ UNCHANGED <<up, timer, rx_start, due, since>>
  BY DEF SendReturns, ScheduleInv, TypeOK
<1>4. \A m \in Sensors : rx'[m] = rx[m] \/ rx'[m].from # BS
  BY DEF SendReturns, EndFrame
<1>5. BaseInv'
  BY <1>2, <1>3, BaseFrame DEF ScheduleInv
<1>6. \A m \in Sensors \ {n} : SensorInv(m)'
  BY <1>3, <1>4, SensorFrame DEF ScheduleInv
<1>7. SensorInv(n)'
  BY <1>3, <1>4 DEF ScheduleInv, SensorInv, Blocked
<1> QED BY <1>5, <1>6, <1>7

(* The wake-up leaves no task behind. *)
LEMMA WakeUpStep ==
  ASSUME ScheduleInv, NEW n \in Sensors, WakeUp(n)
  PROVE  BaseInv' /\ \A m \in Sensors : SensorInv(m)'
<1> USE ConstantTypes DEF BS
<1>1. /\ timer[n].func = "radio_on"
      /\ timer[n] \in RtimerType(Callbacks)
      /\ ~Blocked(n)
  BY DEF WakeUp, RunTask, IsrReady, ScheduleInv, TypeOK, Callbacks
<1>2. Taken(timer[n]).func = "none"
  BY <1>1, TakenType
<1>3. /\ timer'[n] = NoTask
      /\ \A m \in Nodes \ {n} : timer'[m] = timer[m]
      /\ UNCHANGED <<up, air, rx, rx_start, due, since>>
  BY <1>2 DEF WakeUp, RunTask, Rescheduled, ScheduleInv, TypeOK
<1>4. ~Blocked(BS) /\ rx[n].from # BS
  BY <1>1 DEF ScheduleInv, BaseInv, SensorInv
<1>5. BaseInv'
  BY <1>3, <1>4, BaseFrame DEF ScheduleInv
<1>6. \A m \in Sensors \ {n} : SensorInv(m)'
  BY <1>3, SensorFrame DEF ScheduleInv
<1>7. SensorInv(n)'
  BY <1>1, <1>3, <1>4 DEF SensorInv, Blocked, NoTask
<1> QED BY <1>5, <1>6, <1>7

LEMMA ScheduleNext == ScheduleInv /\ [Next]_vars => ScheduleInv'
<1> SUFFICES ASSUME ScheduleInv, [Next]_vars PROVE ScheduleInv'
  OBVIOUS
<1> DEFINE Goal == BaseInv' /\ \A m \in Sensors : SensorInv(m)'
<1>1. TypeOK' /\ HearInv'
  BY TypeNext, HearNext DEF ScheduleInv
<1>2. ASSUME Tick PROVE Goal
  BY <1>2, TickStep
<1>3. ASSUME NEW n \in Nodes, PowerOn(n) PROVE Goal
  <2>1. ASSUME n \in Sensors PROVE Goal
    <3>1. /\ UNCHANGED <<timer, air, rx_start, due, since, rx>>
          /\ up'[BS] = up[BS]
      BY <1>3, <2>1, ConstantTypes DEF PowerOn, ScheduleInv, TypeOK, BS
    <3> QED BY <3>1, QuietStep
  <2>2. ASSUME n = BS PROVE Goal
    BY <1>3, <2>2, BaseOnStep
  <2> QED BY <2>1, <2>2 DEF Nodes
<1>4. ASSUME NEW n \in Nodes, PowerOff(n) PROVE Goal
  BY <1>4, PowerOffStep
<1>5. ASSUME TDMA_BS_send PROVE Goal
  BY <1>5, BaseSendStep
<1>6. ASSUME SendReturns(BS) PROVE Goal
  BY <1>6, BaseSentStep
<1>7. ASSUME BaseInput PROVE Goal
  <2>1. \A m \in Sensors : rx'[m] = rx[m]
    BY <1>7, ConstantTypes DEF BaseInput, TakeFrame, ScheduleInv, TypeOK, BS
  <2> QED BY <1>7, <2>1, QuietStep DEF BaseInput
<1>8. ASSUME NEW n \in Sensors, TDMA_SN_send(n) PROVE Goal
  BY <1>8, SensorSendStep
<1>9. ASSUME NEW n \in Sensors, WakeUp(n) PROVE Goal
  BY <1>9, WakeUpStep
<1>10. ASSUME NEW n \in Sensors, SendReturns(n) PROVE Goal
  BY <1>10, SensorSentStep
<1>11. ASSUME NEW n \in Sensors, RejectFrame(n) PROVE Goal
  <2>1. \A m \in Sensors : rx'[m] = rx[m] \/ rx'[m].from # BS
    BY <1>11, ConstantTypes
       DEF RejectFrame, TakeFrame, NoFrame, None, ScheduleInv, TypeOK, BS
  <2> QED BY <1>11, <2>1, QuietStep DEF RejectFrame
<1>12. ASSUME NEW n \in Sensors, FromBaseInput(n) PROVE Goal
  BY <1>12, FromBaseStep
<1>13. ASSUME NEW n \in Sensors, ListenExpires(n) PROVE Goal
  BY <1>13, QuietStep DEF ListenExpires
<1>14. ASSUME NEW n \in Sensors, SleepExpires(n) PROVE Goal
  BY <1>14, QuietStep DEF SleepExpires
<1>15. ASSUME NEW n \in ShellNodes, NEW k \in SlotChoices, Timeslot(n, k)
       PROVE Goal
  <2>1. UNCHANGED <<timer, air, rx, rx_start, due, since, up>>
    BY <1>15, TimingAssumption DEF Timeslot
  <2> QED BY <2>1, QuietStep
<1>16. ASSUME SendCommand PROVE Goal
  BY <1>16, QuietStep DEF SendCommand
<1>17. ASSUME UNCHANGED vars PROVE Goal
  BY <1>17, QuietStep DEF vars
<1>18. Goal
  BY <1>2, <1>3, <1>4, <1>5, <1>6, <1>7, <1>8, <1>9, <1>10, <1>11, <1>12,
     <1>13, <1>14, <1>15, <1>16, <1>17 DEF Next, Handlers
<1> QED BY <1>1, <1>18 DEF ScheduleInv

(* In every state the nodes can reach, whatever is lost, late or           *)
(* restarted, every task and every send is where the schedule of the base  *)
(* station's last frame puts it.                                           *)
THEOREM ScheduleCorrect == Spec => []ScheduleInv
  BY ScheduleInit, ScheduleNext, PTL DEF Spec

-----------------------------------------------------------------------------
(* What the schedule is for. *)

(* Two nodes are never on the air together, unless they are sensors that   *)
(* were given the same slot: TDMA_SN_send and TDMA_BS_send need no carrier *)
(* sense.                                                                  *)
THEOREM ExclusiveSlots == Spec => []NoOverlap
<1>1. ASSUME ScheduleInv PROVE NoOverlap
  <2> SUFFICES ASSUME NEW n \in Nodes, NEW m \in Nodes,
                      n # m, Blocked(n), Blocked(m)
               PROVE  n \in Sensors /\ m \in Sensors /\ due[n] = due[m]
    BY DEF NoOverlap
  <2>1. n \in Sensors /\ m \in Sensors
    BY <1>1 DEF ScheduleInv, BaseInv, Nodes
  <2>2. \A s \in {n, m} : /\ due[s] \in 1 .. TOTAL_TS
                          /\ SlotStart(due[s]) \in Nat
                          /\ SlotStart(due[s]) <= since
                          /\ since <= SlotStart(due[s]) + SN_AIR
    <3> SUFFICES ASSUME NEW s \in {n, m}
                 PROVE  /\ due[s] \in 1 .. TOTAL_TS
                        /\ SlotStart(due[s]) \in Nat
                        /\ SlotStart(due[s]) <= since
                        /\ since <= SlotStart(due[s]) + SN_AIR
      OBVIOUS
    <3>1. s \in Sensors /\ due[s] \in 1 .. TOTAL_TS /\ air[s] \in -1 .. SN_AIR
      BY <1>1, <2>1 DEF ScheduleInv, TypeOK
    <3>2. air[s] # -1 /\ since = SlotStart(due[s]) + SN_AIR - air[s]
      BY <1>1, <3>1 DEF ScheduleInv, SensorInv, Blocked, Silent
    <3>3. SlotStart(due[s]) \in Nat
      BY <3>1, Layout
    <3> QED BY <3>1, <3>2, <3>3, ConstantTypes
  <2>3. since \in Nat /\ SN_AIR \in Nat
    BY <1>1, ConstantTypes DEF ScheduleInv, TypeOK
  <2>4. ~(due[n] < due[m]) /\ ~(due[m] < due[n])
    BY <2>2, <2>3, SlotsApart
  <2> QED BY <2>1, <2>2, <2>4, ConstantTypes
<1> QED BY <1>1, ScheduleCorrect, PTL

(* Frames of the base station are at least SEGMENT_PERIOD apart: the task  *)
(* that sends one books the next from its own time, and a base station     *)
(* that boots waits a whole segment.                                       *)
THEOREM SpacedBeacons == Spec => BeaconSpacing
<1>1. ASSUME ScheduleInv, [Next]_vars, air[BS] = Silent, air'[BS] # Silent
      PROVE  since = SEGMENT_PERIOD
  <2> USE ConstantTypes DEF ScheduleInv, TypeOK, BS, Silent
  <2>1. ~Tick
    BY <1>1 DEF Tick, CountDown
  <2>2. ASSUME NEW n \in Nodes PROVE ~PowerOn(n) /\ ~PowerOff(n)
    BY <1>1 DEF PowerOn, PowerOff
  <2>3. ~SendReturns(BS) /\ ~BaseInput /\ ~SendCommand /\ ~UNCHANGED vars
    BY <1>1 DEF SendReturns, BaseInput, SendCommand, vars
  <2>4. ASSUME NEW n \in Sensors PROVE ~Handlers(n)
    <3>1. ~TDMA_SN_send(n) /\ ~SendReturns(n)
      BY <1>1 DEF TDMA_SN_send, SendReturns
    <3> QED BY <1>1, <3>1
            DEF Handlers, WakeUp, RejectFrame, FromBaseInput, ListenExpires,
                SleepExpires
  <2>5. ASSUME NEW n \in ShellNodes, NEW k \in SlotChoices
        PROVE  ~Timeslot(n, k)
    BY <1>1 DEF Timeslot
  <2>6. TDMA_BS_send
    BY <1>1, <2>1, <2>2, <2>3, <2>4, <2>5 DEF Next
  <2> QED BY <1>1, <2>6, BaseSendStep
<1>2. ScheduleInv /\ [Next]_vars =>
        [air[BS] = Silent /\ air'[BS] # Silent => since = SEGMENT_PERIOD]_vars
  BY <1>1
<1> QED BY <1>2, ScheduleCorrect, PTL DEF Spec, BeaconSpacing

(* The wake-up a sensor books comes before the next frame of the base      *)
(* station, so the frame finds the receiver on.                            *)
THEOREM WakesInTime == Spec => []WakesBeforeBeacon
<1>1. ScheduleInv => WakesBeforeBeacon
  <2>1. 1 \in 1 .. TOTAL_TS
    BY ConstantTypes
  <2>2. WakeTime < SEGMENT_PERIOD
    BY <2>1, Layout
  <2> QED BY <2>2 DEF ScheduleInv, SensorInv, WakesBeforeBeacon
<1> QED BY <1>1, ScheduleCorrect, PTL

(* SNTimer is never set while it is pending: its task runs at its time.    *)
THEOREM SensorsOnTime == Spec => []SensorTasksOnTime
<1>1. ScheduleInv => SensorTasksOnTime
  <2> SUFFICES ASSUME ScheduleInv, NEW n \in Sensors, IsrReady(n)
               PROVE  timer[n].time = 0
    BY DEF SensorTasksOnTime
  <2>1. timer[n].func \in {"send", "radio_on"} /\ timer[n].match = 0
    BY DEF ScheduleInv, TypeOK, IsrReady, Due
  <2> QED BY <2>1 DEF ScheduleInv, SensorInv
<1> QED BY <1>1, ScheduleCorrect, PTL

-----------------------------------------------------------------------------
(* Between its tasks a sensor is quiet. *)

LEMMA QuietNext ==
  ASSUME ScheduleInv, QuietInv, [Next]_vars
  PROVE  QuietInv'
<1> SUFFICES ASSUME NEW n \in Sensors \ ShellNodes
             PROVE  PoweredInv(n)' /\ BookedInv(n)'
  BY DEF QuietInv
<1> DEFINE Goal == PoweredInv(n)' /\ BookedInv(n)'
<1> USE ConstantTypes
<1>0. /\ n \in Sensors /\ n \in Nodes /\ n # BS /\ n # None
      /\ BS \in Nodes /\ Nodes \subseteq Nat
  BY DEF BS, None
<1>1. PoweredInv(n) /\ BookedInv(n)
  BY DEF QuietInv
<1>2. /\ radio \in [Nodes -> BOOLEAN] /\ air \in [Nodes -> Int]
      /\ timer \in [Nodes -> RtimerType({"beacon", "send", "radio_on"})]
      /\ hear \in [Nodes -> Nodes \cup {None}]
      /\ DOMAIN rx = Nodes /\ DOMAIN up = Nodes
      /\ DOMAIN listen = Sensors /\ DOMAIN sleep = Sensors
  BY DEF ScheduleInv, TypeOK
<1>3. /\ Blocked(n) => timer[n].func = "radio_on"
      /\ rx[n].from = BS => timer[n].func = "none"
  BY <1>0 DEF ScheduleInv, SensorInv
\* What another node sends does not reach it.
<1>4. ASSUME NEW s \in Nodes, StartFrame(s)
      PROVE  /\ timer[n].func # "none" => hear'[n] = None
             /\ ~up[n] => hear'[n] = None
  BY <1>0, <1>1, <1>2, <1>4 DEF StartFrame, BookedInv
<1>5. ASSUME NEW s \in Nodes, EndFrame(s), hear[n] = None
      PROVE  hear'[n] = None /\ rx'[n] = rx[n]
  <2>1. hear'[n] = None
    BY <1>0, <1>2, <1>5 DEF EndFrame
  <2> DEFINE kind == IF s = BS /\ pkt_type = "cmd" THEN "cmd" ELSE "data"
             age == IF s = BS THEN BS_AIR ELSE SN_AIR
             frame == [from |-> s, kind |-> kind, age |-> age]
  <2>2. PICK got \in SUBSET {m \in Nodes : hear[m] = s /\ rx[m] = NoFrame} :
          rx' = [m \in Nodes |-> IF m \in got THEN frame ELSE rx[m]]
    BY <1>5, Zenon DEF EndFrame
  <2> HIDE DEF frame
  <2>3. n \notin got
    BY <1>0, <1>5, <2>2 DEF None
  <2> QED BY <1>0, <2>1, <2>2, <2>3
<1>6. ASSUME timer'[n].func = "none", rx'[n] = rx[n] \/ rx'[n] = NoFrame,
             hear'[n] = hear[n] \/ hear'[n] = None, up'[n] = up[n]
      PROVE  Goal
  BY <1>1, <1>6 DEF PoweredInv, BookedInv
<1>9. CASE Tick
  <2>1. /\ timer'[n].func = timer[n].func
        /\ UNCHANGED <<up, radio, hear>>
    <3>1. timer' = [m \in Nodes |-> Elapse(timer[m])]
      BY <1>9 DEF Tick
    <3>2. UNCHANGED <<up, radio, hear>>
      BY <1>9 DEF Tick
    <3>3. timer[n] \in RtimerType({"beacon", "send", "radio_on"})
      BY <1>0, <1>2
    <3>4. Elapse(timer[n]).func = timer[n].func
      BY <3>3 DEF Elapse, RtimerType
    <3> QED BY <1>0, <3>1, <3>2, <3>4
  <2>2. Blocked(n)' = Blocked(n)
    BY <1>0, <1>2, <1>9 DEF Tick, CountDown, Blocked, Silent
  <2>3. ASSUME timer[n].func # "none"
        PROVE  /\ rx'[n] = rx[n] /\ hear'[n] = None
               /\ listen'[n] = listen[n] /\ sleep'[n] = sleep[n]
    BY <1>0, <1>1, <1>2, <1>9, <2>1, <2>3
       DEF Tick, BookedInv, CountDown, Off, NoFrame
  <2>4. rx[n] = NoFrame => rx'[n] = NoFrame
    BY <1>0, <1>9 DEF Tick
  <2> QED BY <1>1, <2>1, <2>2, <2>3, <2>4 DEF PoweredInv, BookedInv
<1>10. ASSUME NEW m \in Nodes, PowerOn(m) PROVE Goal
  <2>1. CASE m = n
    <3>1. ~up[n] /\ timer' = timer /\ rx' = rx /\ hear' = hear
      BY <1>0, <1>10, <2>1 DEF PowerOn
    <3>2. up'[n] = TRUE
      BY <1>0, <1>2, <1>10, <2>1 DEF PowerOn
    <3> QED BY <1>1, <3>1, <3>2 DEF PoweredInv, BookedInv
  <2>2. CASE m # n
    <3>1. /\ timer'[n] = timer[n] /\ up'[n] = up[n] /\ radio'[n] = radio[n]
          /\ UNCHANGED <<air, hear, rx, sleep>> /\ listen'[n] = listen[n]
      BY <1>0, <1>2, <1>10, <2>2 DEF PowerOn
    <3> QED BY <1>1, <3>1 DEF PoweredInv, BookedInv, Blocked
  <2> QED BY <2>1, <2>2
<1>11. ASSUME NEW m \in Nodes, PowerOff(m) PROVE Goal
  <2>1. CASE m = n
    <3>1. timer'[n] = NoTask /\ rx'[n] = NoFrame /\ hear'[n] = None
      BY <1>0, <1>2, <1>11, <2>1 DEF PowerOff
    <3> QED BY <3>1 DEF NoTask, PoweredInv, BookedInv
  <2>2. CASE m # n
    <3>1. /\ timer'[n] = timer[n] /\ up'[n] = up[n] /\ radio'[n] = radio[n]
          /\ air'[n] = air[n] /\ rx'[n] = rx[n]
          /\ listen'[n] = listen[n] /\ sleep'[n] = sleep[n]
          /\ hear[n] = None => hear'[n] = None
      BY <1>0, <1>2, <1>11, <2>2 DEF PowerOff
    <3> QED BY <1>1, <3>1 DEF PoweredInv, BookedInv, Blocked
  <2> QED BY <2>1, <2>2
<1>12. CASE TDMA_BS_send
  <2>1. /\ timer'[n] = timer[n] /\ air'[n] = air[n]
        /\ UNCHANGED <<up, radio, rx, listen, sleep>> /\ StartFrame(BS)
    BY <1>0, <1>2, <1>12 DEF TDMA_BS_send, RunTask
  <2> QED BY <1>0, <1>1, <1>4, <2>1 DEF PoweredInv, BookedInv, Blocked
<1>13. CASE SendReturns(BS)
  <2>1. /\ UNCHANGED <<timer, up, radio, listen, sleep>> /\ EndFrame(BS)
        /\ air'[n] = air[n]
    BY <1>0, <1>2, <1>13 DEF SendReturns
  <2> QED BY <1>0, <1>1, <1>5, <2>1 DEF PoweredInv, BookedInv, Blocked
<1>14. CASE BaseInput
  <2>1. rx'[n] = rx[n]
    BY <1>0, <1>2, <1>14 DEF BaseInput, TakeFrame
  <2> QED BY <1>1, <1>14, <2>1 DEF BaseInput, PoweredInv, BookedInv, Blocked
<1>15. ASSUME NEW m \in Sensors, TDMA_SN_send(m) PROVE Goal
  <2>1. /\ UNCHANGED <<up, rx, listen, sleep>> /\ StartFrame(m) /\ m \in Nodes
    BY <1>0, <1>15 DEF TDMA_SN_send
  <2>2. CASE m = n
    <3>1. timer[n].func # "none"
      BY <1>15, <2>2 DEF TDMA_SN_send, RunTask, IsrReady, Due
    <3>2. air'[n] = SN_AIR /\ SN_AIR \in Nat
      BY <1>0, <1>2, <1>15, <2>2 DEF TDMA_SN_send
    <3>3. Blocked(n)'
      BY <3>2 DEF Blocked, Silent
    <3>4. up[n]
      BY <1>1, <3>1 DEF PoweredInv
    <3> QED BY <1>1, <1>4, <2>1, <3>1, <3>3, <3>4 DEF PoweredInv, BookedInv
  <2>3. CASE m # n
    <3>1. /\ timer'[n] = timer[n] /\ radio'[n] = radio[n] /\ air'[n] = air[n]
      BY <1>0, <1>2, <1>15, <2>3 DEF TDMA_SN_send, RunTask
    <3> QED BY <1>1, <1>4, <2>1, <3>1 DEF PoweredInv, BookedInv, Blocked
  <2> QED BY <2>2, <2>3
<1>16. ASSUME NEW m \in Sensors, WakeUp(m) PROVE Goal
  <2>1. CASE m = n
    <3>1. timer'[n] = Rescheduled(Taken(timer[n]))
      BY <1>0, <1>2, <1>16, <2>1 DEF WakeUp, RunTask
    <3>2. timer'[n] = NoTask
      BY <1>0, <1>2, <3>1 DEF Rescheduled, Taken, RtimerType
    <3>3. UNCHANGED <<up, rx, hear>>
      BY <1>16, <2>1 DEF WakeUp, RadioOn
    <3> QED BY <1>6, <3>2, <3>3 DEF NoTask
  <2>2. CASE m # n
    <3>1. /\ timer'[n] = timer[n] /\ radio'[n] = radio[n]
          /\ UNCHANGED <<up, air, hear, rx, listen, sleep>>
      BY <1>0, <1>2, <1>16, <2>2 DEF WakeUp, RunTask, RadioOn
    <3> QED BY <1>1, <3>1 DEF PoweredInv, BookedInv, Blocked
  <2> QED BY <2>1, <2>2
<1>17. ASSUME NEW m \in Sensors, SendReturns(m) PROVE Goal
  <2>1. /\ UNCHANGED <<up, timer, listen, sleep>> /\ EndFrame(m) /\ m \in Nodes
        /\ m # BS
    BY <1>0, <1>17 DEF SendReturns, BS
  <2>2. CASE m = n
    <3>1. radio'[n] = FALSE
      BY <1>0, <1>2, <1>17, <2>1, <2>2 DEF SendReturns
    <3> QED BY <1>1, <1>5, <2>1, <3>1 DEF PoweredInv, BookedInv
  <2>3. CASE m # n
    <3>1. radio'[n] = radio[n] /\ air'[n] = air[n]
      BY <1>0, <1>2, <1>17, <2>1, <2>3 DEF SendReturns
    <3> QED BY <1>1, <1>5, <2>1, <3>1 DEF PoweredInv, BookedInv, Blocked
  <2> QED BY <2>2, <2>3
<1>18. ASSUME NEW m \in Sensors, RejectFrame(m) PROVE Goal
  <2>1. timer' = timer /\ up' = up /\ air' = air /\ rx[m] # NoFrame
    BY <1>18 DEF RejectFrame, TakeFrame
  <2>2. CASE m = n
    <3>1. timer'[n].func = "none"
      BY <1>1, <2>1, <2>2 DEF BookedInv
    <3>2. rx'[n] = NoFrame
      BY <1>0, <1>2, <1>18, <2>2 DEF RejectFrame, TakeFrame
    <3>3. hear'[n] = hear[n] \/ hear'[n] = None
      BY <1>0, <1>2, <1>18, <2>2 DEF RejectFrame, TDMA_SN_sleep, RadioOff
    <3> QED BY <1>6, <2>1, <3>1, <3>2, <3>3
  <2>3. CASE m # n
    <3>1. /\ rx'[n] = rx[n] /\ listen'[n] = listen[n] /\ sleep'[n] = sleep[n]
          /\ radio'[n] = radio[n] /\ hear'[n] = hear[n]
      BY <1>0, <1>2, <1>18, <2>3
         DEF RejectFrame, TakeFrame, TDMA_SN_sleep, RadioOff
    <3> QED BY <1>1, <2>1, <3>1 DEF PoweredInv, BookedInv, Blocked
  <2> QED BY <2>2, <2>3
<1>19. ASSUME NEW m \in Sensors, FromBaseInput(m) PROVE Goal
  <2>1. up' = up /\ air' = air /\ rx[m].from = BS
    BY <1>19 DEF FromBaseInput
  <2>2. CASE m = n
    <3>1. timer[n].func = "none"
      BY <1>3, <2>1, <2>2
    <3>2. rx[n] # NoFrame
      BY <1>19, <2>2 DEF FromBaseInput, TakeFrame
    <3>3. /\ rx'[n] = NoFrame /\ hear'[n] = None /\ radio'[n] = FALSE
          /\ listen'[n] = Off /\ sleep'[n] = Off
      BY <1>0, <1>2, <1>19, <2>2 DEF FromBaseInput, TakeFrame, RadioOff
    <3>4. up[n]
      BY <1>1, <3>2 DEF PoweredInv
    <3> QED BY <2>1, <3>3, <3>4 DEF PoweredInv, BookedInv
  <2>3. CASE m # n
    <3>1. /\ rx'[n] = rx[n] /\ listen'[n] = listen[n] /\ sleep'[n] = sleep[n]
          /\ radio'[n] = radio[n] /\ hear'[n] = hear[n]
          /\ timer'[n] = timer[n]
      BY <1>0, <1>2, <1>19, <2>3 DEF FromBaseInput, TakeFrame, RadioOff
    <3> QED BY <1>1, <2>1, <3>1 DEF PoweredInv, BookedInv, Blocked
  <2> QED BY <2>2, <2>3
<1>20. ASSUME NEW m \in Sensors, ListenExpires(m) PROVE Goal
  <2>1. UNCHANGED <<timer, up, air, rx>> /\ listen[m] = 0
    BY <1>20 DEF ListenExpires
  <2>2. CASE m = n
    <3>1. timer[n].func = "none"
      BY <1>1, <2>1, <2>2 DEF BookedInv, Off
    <3>2. hear'[n] = None
      BY <1>0, <1>2, <1>20, <2>2 DEF ListenExpires, TDMA_SN_sleep, RadioOff
    <3> QED BY <1>6, <2>1, <3>1, <3>2
  <2>3. CASE m # n
    <3>1. /\ listen'[n] = listen[n] /\ sleep'[n] = sleep[n]
          /\ radio'[n] = radio[n] /\ hear'[n] = hear[n]
      BY <1>0, <1>2, <1>20, <2>3 DEF ListenExpires, TDMA_SN_sleep, RadioOff
    <3> QED BY <1>1, <2>1, <3>1 DEF PoweredInv, BookedInv, Blocked
  <2> QED BY <2>2, <2>3
<1>21. ASSUME NEW m \in Sensors, SleepExpires(m) PROVE Goal
  <2>1. UNCHANGED <<timer, up, air, rx, hear>> /\ sleep[m] = 0
    BY <1>21 DEF SleepExpires, TDMA_SN_listen, RadioOn
  <2>2. CASE m = n
    <3>1. timer[n].func = "none"
      BY <1>1, <2>1, <2>2 DEF BookedInv, Off
    <3> QED BY <1>6, <2>1, <3>1
  <2>3. CASE m # n
    <3>1. /\ listen'[n] = listen[n] /\ sleep'[n] = sleep[n]
          /\ radio'[n] = radio[n]
      BY <1>0, <1>2, <1>21, <2>3 DEF SleepExpires, TDMA_SN_listen, RadioOn
    <3> QED BY <1>1, <2>1, <3>1 DEF PoweredInv, BookedInv, Blocked
  <2> QED BY <2>2, <2>3
<1>22. ASSUME NEW m \in ShellNodes, NEW k \in SlotChoices, Timeslot(m, k)
       PROVE Goal
  <2>1. m # n /\ m # BS /\ m \in Sensors
    BY <1>0, TimingAssumption, ConstantsAssumption DEF Nodes
  <2>2. /\ UNCHANGED <<timer, up, air, rx, sleep>>
        /\ radio'[n] = radio[n] /\ hear'[n] = hear[n]
        /\ listen'[n] = listen[n]
    BY <1>0, <1>2, <1>22, <2>1 DEF Timeslot
  <2> QED BY <1>1, <2>2 DEF PoweredInv, BookedInv, Blocked
<1>23. CASE SendCommand
  BY <1>1, <1>23 DEF SendCommand, PoweredInv, BookedInv, Blocked
<1>24. CASE UNCHANGED vars
  BY <1>1, <1>24 DEF vars, PoweredInv, BookedInv, Blocked
<1> QED
  BY <1>9, <1>10, <1>11, <1>12, <1>13, <1>14, <1>15, <1>16, <1>17, <1>18,
     <1>19, <1>20, <1>21, <1>22, <1>23, <1>24 DEF Next, Handlers

(* Between the base station's frame and its slot, and from the slot to the *)
(* wake-up, the radio of a sensor whose shell is not used is off (the      *)
(* point of tdmardc.c:371, 282, 313): no timer, frame or command of the    *)
(* network turns it on in between.                                         *)
THEOREM RadioStaysOff == Spec => []RadioOffBetween
<1>1. Init => QuietInv
  BY ConstantTypes DEF Init, QuietInv, PoweredInv, BookedInv, NoTask
<1>2. ScheduleInv /\ QuietInv /\ [Next]_vars => QuietInv'
  BY QuietNext
<1>3. QuietInv => RadioOffBetween
  BY DEF QuietInv, BookedInv, RadioOffBetween
<1> QED BY <1>1, <1>2, <1>3, ScheduleCorrect, PTL DEF Spec
-----------------------------------------------------------------------------
(* A sensor without others.  Nothing below uses TimingAssumption: the      *)
(* slots may be any numbers, and the main loop as slow as it likes.        *)

Domains ==
  /\ DOMAIN timer = Nodes /\ DOMAIN air = Nodes /\ DOMAIN radio = Nodes
  /\ DOMAIN up = Nodes /\ DOMAIN rx = Nodes /\ DOMAIN hear = Nodes
  /\ DOMAIN listen = Sensors /\ DOMAIN sleep = Sensors
  /\ DOMAIN slot = Sensors

IsTask(r) == r = [func |-> r.func, time |-> r.time, match |-> r.match]
IsFromBase(f) == f = [from |-> BS, kind |-> f.kind, age |-> f.age]

(* It hears the base station only, and has its wake-up booked when it sends.*)
HearsBase(s) ==
  /\ Domains /\ IsTask(timer[s]) /\ listen[s] \in Int /\ sleep[s] \in Int
  /\ hear[s] \in {BS, None}
  /\ rx[s] # NoFrame => IsFromBase(rx[s])
  /\ Blocked(s) => timer[s].func # "none"

ComesBack(s) ==
  up[s] /\ HasSlot(s) /\ ~radio[s] =>
    \/ timer[s].func # "none"
    \/ listen[s] # Off \/ sleep[s] # Off
    \/ rx[s] # NoFrame

LoneInv(s) == HearsBase(s) /\ ComesBack(s)

(* What the timer does with a task leaves a task. *)
LEMMA TaskKinds ==
  ASSUME NEW r, IsTask(r), NEW t, NEW f, f # "none"
  PROVE  /\ IsTask(rtimer_set(r, t, f)) /\ rtimer_set(r, t, f).func = f
         /\ IsTask(Taken(r)) /\ Taken(r).func = "none"
         /\ IsTask(Rescheduled(r)) /\ Rescheduled(r).func = r.func
         /\ IsTask(Elapse(r)) /\ Elapse(r).func = r.func
         /\ IsTask(NoTask) /\ NoTask.func = "none"
<1>1. IsTask(rtimer_set(r, t, f)) /\ rtimer_set(r, t, f).func = f
  BY DEF IsTask, rtimer_set
<1>2. IsTask(NoTask) /\ NoTask.func = "none"
  BY DEF IsTask, NoTask
<1>3. IsTask(Taken(r)) /\ Taken(r).func = "none"
  BY DEF IsTask, Taken
<1>4. IsTask(Rescheduled(r)) /\ Rescheduled(r).func = r.func
  BY <1>2 DEF IsTask, Rescheduled
<1>5. IsTask(Elapse(r)) /\ Elapse(r).func = r.func
  BY DEF IsTask, Elapse
<1> QED BY <1>1, <1>2, <1>3, <1>4, <1>5

LEMMA LoneNext ==
  ASSUME NEW s, Sensors = {s}, LoneInv(s), [Next]_vars
  PROVE  LoneInv(s)'
<1>1. /\ s \in Nodes /\ s \in Sensors /\ s # BS /\ s # None
      /\ Nodes = {BS, s} /\ BS # None /\ MAX_LISTEN_PERIOD \in Nat
      /\ MAX_SLEEP_PERIOD \in Nat /\ BS_AIR \in Nat /\ SN_AIR \in Nat
  BY ConstantTypes DEF Nodes, BS, None
<1>2. HearsBase(s) /\ ComesBack(s)
  BY DEF LoneInv
<1>3. /\ DOMAIN timer = Nodes /\ DOMAIN air = Nodes /\ DOMAIN radio = Nodes
      /\ DOMAIN up = Nodes /\ DOMAIN rx = Nodes /\ DOMAIN hear = Nodes
      /\ DOMAIN listen = Sensors /\ DOMAIN sleep = Sensors
      /\ DOMAIN slot = Sensors
      /\ IsTask(timer[s]) /\ listen[s] \in Int /\ sleep[s] \in Int
      /\ hear[s] \in {BS, None}
      /\ rx[s] # NoFrame => IsFromBase(rx[s])
      /\ Blocked(s) => timer[s].func # "none"
  BY <1>2 DEF HearsBase, Domains
<1>4. rx[s] # NoFrame => rx[s].from = BS
  BY <1>3 DEF IsFromBase
<1>5. CASE Tick
  <2>1. /\ timer' = [n \in Nodes |-> Elapse(timer[n])]
        /\ air' = [n \in Nodes |-> CountDown(air[n])]
        /\ rx' = [n \in Nodes |-> IF rx[n] = NoFrame THEN NoFrame
                                  ELSE [rx[n] EXCEPT !.age = @ + 1]]
        /\ listen' = [n \in Sensors |-> CountDown(listen[n])]
        /\ sleep' = [n \in Sensors |-> CountDown(sleep[n])]
        /\ UNCHANGED <<up, radio, hear, slot>>
    BY <1>5 DEF Tick
  <2>2. /\ timer'[s] = Elapse(timer[s]) /\ air'[s] = CountDown(air[s])
        /\ rx'[s] = IF rx[s] = NoFrame THEN NoFrame
                    ELSE [rx[s] EXCEPT !.age = @ + 1]
        /\ listen'[s] = CountDown(listen[s])
        /\ sleep'[s] = CountDown(sleep[s])
        /\ DOMAIN timer' = Nodes /\ DOMAIN air' = Nodes /\ DOMAIN rx' = Nodes
        /\ DOMAIN listen' = Sensors /\ DOMAIN sleep' = Sensors
    BY <1>1, <2>1
  <2>3. IsTask(timer'[s]) /\ timer'[s].func = timer[s].func
    BY <1>3, <2>2, TaskKinds
  <2>4. rx[s] # NoFrame => IsFromBase(rx'[s]) /\ rx'[s] # NoFrame
    BY <1>1, <1>3, <2>2 DEF IsFromBase, NoFrame
  <2>5. /\ listen'[s] \in Int /\ (listen[s] # Off => listen'[s] # Off)
        /\ sleep'[s] \in Int /\ (sleep[s] # Off => sleep'[s] # Off)
    BY <1>3, <2>2 DEF CountDown, Off
  <2>6. Blocked(s)' => Blocked(s)
    BY <2>2 DEF Blocked, CountDown, Silent
  <2>7. HearsBase(s)'
    BY <1>3, <2>1, <2>2, <2>3, <2>4, <2>5, <2>6 DEF HearsBase, Domains
  <2>8. ComesBack(s)'
    BY <1>2, <2>1, <2>3, <2>4, <2>5 DEF ComesBack, HasSlot
  <2> QED BY <2>7, <2>8 DEF LoneInv
<1>6. ASSUME NEW n \in Nodes, PowerOn(n) PROVE LoneInv(s)'
  <2>1. /\ UNCHANGED <<air, hear, rx, sleep>>
        /\ up' = [up EXCEPT ![n] = TRUE]
        /\ radio' = [radio EXCEPT ![n] = TRUE]
    BY <1>6 DEF PowerOn
  <2>2. CASE n = BS
    <3>1. /\ timer' = [timer EXCEPT ![BS] = BaseOn(NoTask)]
          /\ UNCHANGED <<listen, slot>>
      BY <1>1, <1>6, <2>2 DEF PowerOn
    <3>2. /\ timer'[s] = timer[s] /\ up'[s] = up[s] /\ radio'[s] = radio[s]
          /\ DOMAIN timer' = Nodes /\ DOMAIN up' = Nodes
          /\ DOMAIN radio' = Nodes
      BY <1>1, <1>3, <2>1, <2>2, <3>1
    <3>3. HearsBase(s)'
      BY <1>3, <2>1, <3>1, <3>2 DEF HearsBase, Domains, Blocked
    <3>4. ComesBack(s)'
      BY <1>2, <2>1, <3>1, <3>2 DEF ComesBack, HasSlot
    <3> QED BY <3>3, <3>4 DEF LoneInv
  <2>3. CASE n = s
    <3>1. /\ timer' = timer
          /\ listen' = [listen EXCEPT ![s] = MAX_LISTEN_PERIOD]
          /\ slot' = [slot EXCEPT ![s] = s]
      BY <1>1, <1>6, <2>3 DEF PowerOn
    <3>2. /\ listen'[s] \in Int /\ radio'[s] = TRUE
          /\ DOMAIN up' = Nodes /\ DOMAIN radio' = Nodes
          /\ DOMAIN listen' = Sensors /\ DOMAIN slot' = Sensors
      BY <1>1, <1>3, <2>1, <2>3, <3>1
    <3>3. HearsBase(s)'
      BY <1>3, <2>1, <3>1, <3>2 DEF HearsBase, Domains, Blocked
    <3> QED BY <3>2, <3>3 DEF LoneInv, ComesBack
  <2> QED BY <1>1, <2>2, <2>3
<1>7. ASSUME NEW n \in Nodes, PowerOff(n) PROVE LoneInv(s)'
  <2>1. /\ up' = [up EXCEPT ![n] = FALSE]
        /\ radio' = [radio EXCEPT ![n] = FALSE]
        /\ timer' = [timer EXCEPT ![n] = NoTask]
        /\ air' = [air EXCEPT ![n] = Silent]
        /\ hear' = [m \in Nodes |->
                      IF m = n \/ hear[m] = n THEN None ELSE hear[m]]
        /\ rx' = [rx EXCEPT ![n] = NoFrame]
        /\ UNCHANGED slot
    BY <1>7 DEF PowerOff
  <2>2. /\ DOMAIN up' = Nodes /\ DOMAIN radio' = Nodes
        /\ DOMAIN timer' = Nodes /\ DOMAIN air' = Nodes
        /\ DOMAIN hear' = Nodes /\ DOMAIN rx' = Nodes
        /\ hear'[s] \in {BS, None} /\ DOMAIN slot' = Sensors
    BY <1>1, <1>3, <2>1
  <2>3. CASE n = BS
    <3>1. UNCHANGED <<listen, sleep>>
      BY <1>7, <2>3 DEF PowerOff
    <3>2. /\ timer'[s] = timer[s] /\ up'[s] = up[s] /\ radio'[s] = radio[s]
          /\ air'[s] = air[s] /\ rx'[s] = rx[s]
      BY <1>1, <1>3, <2>1, <2>3
    <3>3. HearsBase(s)'
      BY <1>3, <2>2, <3>1, <3>2 DEF HearsBase, Domains, Blocked
    <3>4. ComesBack(s)'
      BY <1>2, <2>1, <3>1, <3>2 DEF ComesBack, HasSlot
    <3> QED BY <3>3, <3>4 DEF LoneInv
  <2>4. CASE n = s
    <3>1. /\ listen' = [listen EXCEPT ![s] = Off]
          /\ sleep' = [sleep EXCEPT ![s] = Off]
      BY <1>1, <1>7, <2>4 DEF PowerOff
    <3>2. /\ listen'[s] \in Int /\ sleep'[s] \in Int
          /\ DOMAIN listen' = Sensors /\ DOMAIN sleep' = Sensors
      BY <1>1, <1>3, <3>1 DEF Off
    <3>3. /\ timer'[s] = NoTask /\ up'[s] = FALSE
          /\ air'[s] = Silent /\ rx'[s] = NoFrame
      BY <1>1, <1>3, <2>1, <2>4
    <3>4. IsTask(timer'[s])
      BY <3>3 DEF IsTask, NoTask
    <3>5. HearsBase(s)'
      BY <2>2, <3>2, <3>3, <3>4 DEF HearsBase, Domains, Blocked
    <3> QED BY <3>3, <3>5 DEF LoneInv, ComesBack
  <2> QED BY <1>1, <2>3, <2>4
<1>8. CASE TDMA_BS_send
  <2>1. /\ timer' = [timer EXCEPT ![BS] =
             Rescheduled(rtimer_set(Taken(timer[BS]),
                           timer[BS].time + SEGMENT_PERIOD, "beacon"))]
        /\ air' = [air EXCEPT ![BS] = BS_AIR] /\ StartFrame(BS)
        /\ UNCHANGED <<up, radio, rx, listen, sleep, slot>>
    BY <1>8 DEF TDMA_BS_send, RunTask
  <2>2. /\ timer'[s] = timer[s] /\ air'[s] = air[s]
        /\ DOMAIN timer' = Nodes /\ DOMAIN air' = Nodes
    BY <1>1, <1>3, <2>1
  <2>3. DOMAIN hear' = Nodes /\ hear'[s] \in {BS, None}
    BY <1>1, <2>1 DEF StartFrame
  <2>4. HearsBase(s)'
    BY <1>3, <2>1, <2>2, <2>3 DEF HearsBase, Domains, Blocked
  <2>5. ComesBack(s)'
    BY <1>2, <2>1, <2>2 DEF ComesBack, HasSlot
  <2> QED BY <2>4, <2>5 DEF LoneInv
<1>9. ASSUME NEW n \in Nodes, SendReturns(n) PROVE LoneInv(s)'
  <2>1. /\ air[n] = 0 /\ air' = [air EXCEPT ![n] = Silent] /\ EndFrame(n)
        /\ UNCHANGED <<up, timer, listen, sleep, slot>>
    BY <1>9 DEF SendReturns
  <2> DEFINE frame == [from |-> n,
                       kind |-> IF n = BS /\ pkt_type = "cmd" THEN "cmd"
                                ELSE "data",
                       age  |-> IF n = BS THEN BS_AIR ELSE SN_AIR]
             receivers == {m \in Nodes : hear[m] = n /\ rx[m] = NoFrame}
  <2>2. /\ hear' = [m \in Nodes |-> IF hear[m] = n THEN None ELSE hear[m]]
        /\ \E got \in SUBSET receivers :
             rx' = [m \in Nodes |-> IF m \in got THEN frame ELSE rx[m]]
    BY <2>1 DEF EndFrame
  <2>3. PICK got \in SUBSET receivers :
          rx' = [m \in Nodes |-> IF m \in got THEN frame ELSE rx[m]]
    BY <2>2
  <2>4. s \in got => n = BS
    BY <1>1, <1>3
  <2>5. /\ DOMAIN rx' = Nodes /\ DOMAIN hear' = Nodes /\ DOMAIN air' = Nodes
        /\ hear'[s] \in {BS, None}
        /\ rx'[s] = IF s \in got THEN frame ELSE rx[s]
    BY <1>1, <1>3, <2>1, <2>2, <2>3
  <2>6. n = BS => IsFromBase(frame) /\ frame # NoFrame
    BY <1>1 DEF IsFromBase, NoFrame
  <2> HIDE DEF frame, receivers
  <2>7. /\ rx'[s] # NoFrame => IsFromBase(rx'[s])
        /\ rx[s] # NoFrame => rx'[s] # NoFrame
    BY <1>3, <2>4, <2>5, <2>6
  <2>8. Blocked(s)' => Blocked(s)
    BY <1>1, <1>3, <2>1 DEF Blocked
  <2>9. CASE n = BS
    <3>1. radio' = radio
      BY <1>9, <2>9 DEF SendReturns
    <3>2. HearsBase(s)'
      BY <1>3, <2>1, <2>5, <2>7, <2>8, <3>1 DEF HearsBase, Domains
    <3>3. ComesBack(s)'
      BY <1>2, <2>1, <2>7, <3>1 DEF ComesBack, HasSlot
    <3> QED BY <3>2, <3>3 DEF LoneInv
  <2>10. CASE n = s
    <3>1. radio' = [radio EXCEPT ![s] = FALSE]
      BY <1>1, <1>9, <2>10 DEF SendReturns
    <3>2. Blocked(s)
      BY <2>1, <2>10 DEF Blocked, Silent
    <3>3. timer'[s].func # "none" /\ DOMAIN radio' = Nodes
      BY <1>3, <2>1, <3>1, <3>2
    <3>4. HearsBase(s)'
      BY <1>3, <2>1, <2>5, <2>7, <3>3 DEF HearsBase, Domains
    <3> QED BY <3>3, <3>4 DEF LoneInv, ComesBack
  <2> QED BY <1>1, <2>9, <2>10
<1>10. CASE BaseInput
  <2>1. /\ rx' = [rx EXCEPT ![BS] = NoFrame]
        /\ UNCHANGED <<up, radio, timer, air, hear, listen, sleep, slot>>
    BY <1>10 DEF BaseInput, TakeFrame
  <2>2. rx'[s] = rx[s] /\ DOMAIN rx' = Nodes
    BY <1>1, <1>3, <2>1
  <2>3. HearsBase(s)'
    BY <1>3, <2>1, <2>2 DEF HearsBase, Domains, Blocked
  <2>4. ComesBack(s)'
    BY <1>2, <2>1, <2>2 DEF ComesBack, HasSlot
  <2> QED BY <2>3, <2>4 DEF LoneInv
<1>11. CASE TDMA_SN_send(s)
  <2> DEFINE r == rtimer_set(Taken(timer[s]), WakeTime - rx_start[s],
                             "radio_on")
  <2>1. /\ timer' = [timer EXCEPT ![s] = Rescheduled(r)]
        /\ radio' = [radio EXCEPT ![s] = TRUE]
        /\ air' = [air EXCEPT ![s] = SN_AIR] /\ StartFrame(s)
        /\ UNCHANGED <<up, rx, listen, sleep, slot>>
    BY <1>11 DEF TDMA_SN_send, RunTask
  <2>2. IsTask(r) /\ r.func = "radio_on"
    BY DEF IsTask, rtimer_set
  <2> HIDE DEF r
  <2>3. /\ IsTask(Rescheduled(r)) /\ Rescheduled(r).func = "radio_on"
    BY <2>2 DEF IsTask, Rescheduled
  <2>4. /\ timer'[s] = Rescheduled(r) /\ radio'[s] = TRUE
        /\ DOMAIN timer' = Nodes /\ DOMAIN air' = Nodes
        /\ DOMAIN radio' = Nodes
    BY <1>1, <1>3, <2>1
  <2>5. DOMAIN hear' = Nodes /\ hear'[s] = None
    BY <1>1, <2>1 DEF StartFrame
  <2>6. HearsBase(s)'
    BY <1>3, <2>1, <2>3, <2>4, <2>5 DEF HearsBase, Domains
  <2> QED BY <2>4, <2>6 DEF LoneInv, ComesBack
<1>12. CASE WakeUp(s)
  <2>1. /\ timer' = [timer EXCEPT ![s] = Rescheduled(Taken(timer[s]))]
        /\ radio' = [radio EXCEPT ![s] = TRUE] /\ ~ Blocked(s)
        /\ UNCHANGED <<up, air, hear, rx, listen, sleep, slot>>
    BY <1>12 DEF WakeUp, RunTask, RadioOn, IsrReady
  <2>2. IsTask(Taken(timer[s]))
    BY <1>3 DEF IsTask, Taken
  <2>3. IsTask(Rescheduled(Taken(timer[s])))
    BY <2>2, TaskKinds
  <2>4. /\ timer'[s] = Rescheduled(Taken(timer[s])) /\ radio'[s] = TRUE
        /\ DOMAIN timer' = Nodes /\ DOMAIN radio' = Nodes
    BY <1>1, <1>3, <2>1
  <2>5. HearsBase(s)'
    BY <1>3, <2>1, <2>3, <2>4 DEF HearsBase, Domains, Blocked
  <2> QED BY <2>4, <2>5 DEF LoneInv, ComesBack
<1>13. CASE RejectFrame(s)
  BY <1>4, <1>13 DEF RejectFrame, TakeFrame
<1>14. CASE FromBaseInput(s)
  <2>1. /\ rx' = [rx EXCEPT ![s] = NoFrame] /\ ~ Blocked(s)
        /\ listen' = [listen EXCEPT ![s] = Off]
        /\ sleep' = [sleep EXCEPT ![s] = Off]
        /\ radio' = [radio EXCEPT ![s] = FALSE]
        /\ hear' = [hear EXCEPT ![s] = None]
        /\ UNCHANGED <<up, air, slot>>
    BY <1>14 DEF FromBaseInput, TakeFrame, RadioOff
  <2>2. \/ ~ HasSlot(s) /\ timer' = timer
        \/ \E t : timer' = [timer EXCEPT ![s] =
                              rtimer_set(timer[s], t, "radio_on")]
        \/ \E t : timer' = [timer EXCEPT ![s] =
                              rtimer_set(timer[s], t, "send")]
    BY <1>14 DEF FromBaseInput
  <2>3. /\ DOMAIN timer' = Nodes /\ IsTask(timer'[s])
        /\ ~ HasSlot(s) \/ timer'[s].func # "none"
    <3>1. CASE ~ HasSlot(s) /\ timer' = timer
      BY <1>3, <3>1
    <3>2. ASSUME NEW t, NEW f \in {"radio_on", "send"},
                 timer' = [timer EXCEPT ![s] = rtimer_set(timer[s], t, f)]
          PROVE  /\ DOMAIN timer' = Nodes /\ IsTask(timer'[s])
                 /\ timer'[s].func # "none"
      <4>1. /\ IsTask(rtimer_set(timer[s], t, f))
            /\ rtimer_set(timer[s], t, f).func # "none"
        BY DEF IsTask, rtimer_set
      <4>2. DOMAIN timer' = Nodes /\ timer'[s] = rtimer_set(timer[s], t, f)
        BY <1>1, <1>3, <3>2
      <4> QED BY <4>1, <4>2
    <3> QED BY <2>2, <3>1, <3>2
  <2>4. /\ DOMAIN rx' = Nodes /\ DOMAIN listen' = Sensors
        /\ DOMAIN sleep' = Sensors /\ DOMAIN radio' = Nodes
        /\ DOMAIN hear' = Nodes
        /\ rx'[s] = NoFrame /\ hear'[s] = None
        /\ listen'[s] \in Int /\ sleep'[s] \in Int
    BY <1>1, <1>3, <2>1 DEF Off
  <2>5. HearsBase(s)'
    BY <1>3, <2>1, <2>3, <2>4 DEF HearsBase, Domains, Blocked
  <2>6. ComesBack(s)'
    BY <2>1, <2>3 DEF ComesBack, HasSlot
  <2> QED BY <2>5, <2>6 DEF LoneInv
<1>15. CASE ListenExpires(s)
  <2>1. /\ listen' = [listen EXCEPT ![s] = Off]
        /\ sleep' = [sleep EXCEPT ![s] = MAX_SLEEP_PERIOD]
        /\ radio' = [radio EXCEPT ![s] = FALSE]
        /\ hear' = [hear EXCEPT ![s] = None]
        /\ UNCHANGED <<up, timer, air, rx, slot>>
    BY <1>15 DEF ListenExpires, TDMA_SN_sleep, RadioOff
  <2>2. /\ DOMAIN listen' = Sensors /\ DOMAIN sleep' = Sensors
        /\ DOMAIN radio' = Nodes /\ DOMAIN hear' = Nodes
        /\ hear'[s] = None /\ listen'[s] \in Int
        /\ sleep'[s] \in Int /\ sleep'[s] # Off
    BY <1>1, <1>3, <2>1 DEF Off
  <2>3. HearsBase(s)'
    BY <1>3, <2>1, <2>2 DEF HearsBase, Domains, Blocked
  <2> QED BY <2>2, <2>3 DEF LoneInv, ComesBack
<1>16. CASE SleepExpires(s)
  <2>1. /\ listen' = [listen EXCEPT ![s] = MAX_LISTEN_PERIOD]
        /\ sleep' = [sleep EXCEPT ![s] = Off]
        /\ radio' = [radio EXCEPT ![s] = TRUE]
        /\ UNCHANGED <<up, timer, air, rx, hear, slot>>
    BY <1>16 DEF SleepExpires, TDMA_SN_listen, RadioOn
  <2>2. /\ DOMAIN listen' = Sensors /\ DOMAIN sleep' = Sensors
        /\ DOMAIN radio' = Nodes /\ radio'[s] = TRUE
        /\ listen'[s] \in Int /\ sleep'[s] \in Int
    BY <1>1, <1>3, <2>1 DEF Off
  <2>3. HearsBase(s)'
    BY <1>3, <2>1, <2>2 DEF HearsBase, Domains, Blocked
  <2> QED BY <2>2, <2>3 DEF LoneInv, ComesBack
<1>17. ASSUME NEW n \in ShellNodes, NEW k \in SlotChoices, Timeslot(n, k)
       PROVE  LoneInv(s)'
  <2>1. /\ radio' = [radio EXCEPT ![n] = TRUE]
        /\ hear' = [hear EXCEPT ![n] = None]
        /\ UNCHANGED <<up, air, rx, sleep>>
    BY <1>17 DEF Timeslot
  <2>2. /\ DOMAIN radio' = Nodes /\ DOMAIN hear' = Nodes
        /\ hear'[s] \in {BS, None}
    BY <1>1, <1>3, <2>1
  <2>3. CASE n = BS
    <3>1. /\ timer' = [timer EXCEPT ![BS] = BaseOn(@)]
          /\ UNCHANGED <<slot, listen>>
      BY <1>17, <2>3 DEF Timeslot
    <3>2. timer'[s] = timer[s] /\ DOMAIN timer' = Nodes
          /\ radio'[s] = radio[s]
      BY <1>1, <1>3, <2>1, <2>3, <3>1
    <3>3. HearsBase(s)'
      BY <1>3, <2>1, <2>2, <3>1, <3>2 DEF HearsBase, Domains, Blocked
    <3>4. ComesBack(s)'
      BY <1>2, <2>1, <3>1, <3>2 DEF ComesBack, HasSlot
    <3> QED BY <3>3, <3>4 DEF LoneInv
  <2>4. CASE n # BS
    <3>1. n = s
      BY <1>1, <2>4, ConstantsAssumption
    <3>2. /\ slot' = [slot EXCEPT ![s] = k]
          /\ listen' = [listen EXCEPT ![s] = MAX_LISTEN_PERIOD]
          /\ UNCHANGED timer
      BY <1>17, <2>4, <3>1 DEF Timeslot
    <3>3. /\ DOMAIN slot' = Sensors /\ DOMAIN listen' = Sensors
          /\ listen'[s] \in Int /\ radio'[s] = TRUE
      BY <1>1, <1>3, <2>1, <3>1, <3>2
    <3>4. HearsBase(s)'
      BY <1>3, <2>1, <2>2, <3>2, <3>3 DEF HearsBase, Domains, Blocked
    <3> QED BY <3>3, <3>4 DEF LoneInv, ComesBack
  <2> QED BY <2>3, <2>4
<1>18. CASE SendCommand \/ UNCHANGED vars
  <2>1. UNCHANGED <<up, radio, timer, air, hear, rx, listen, sleep, slot>>
    BY <1>18 DEF SendCommand, vars
  <2>2. HearsBase(s)'
    BY <1>3, <2>1 DEF HearsBase, Domains, Blocked
  <2>3. ComesBack(s)'
    BY <1>2, <2>1 DEF ComesBack, HasSlot
  <2> QED BY <2>2, <2>3 DEF LoneInv
<1>19. SendReturns(BS) => LoneInv(s)'
  BY <1>1, <1>9
<1>20. SendReturns(s) => LoneInv(s)'
  BY <1>1, <1>9
<1>21. (\E n \in Sensors : Handlers(n)) => Handlers(s)
  OBVIOUS
<1> QED
  BY <1>5, <1>6, <1>7, <1>8, <1>10, <1>11, <1>12, <1>13, <1>14, <1>15, <1>16,
     <1>17, <1>18, <1>19, <1>20, <1>21 DEF Next, Handlers

(* tdmardc.c:226-317, 336-419: a single sensor with a slot that has turned *)
(* its radio off has a task, a timer or a frame of the base station that   *)
(* brings it back, whatever its slot number is, whatever is sent at it and *)
(* whoever loses power; only frames of other sensors can leave it without. *)
THEOREM LoneComesBack ==
  ASSUME NEW s, Sensors = {s}
  PROVE  Spec => []NotStranded
<1>1. Init => LoneInv(s)
  <2> SUFFICES ASSUME Init PROVE LoneInv(s)
    OBVIOUS
  <2>1. s \in Nodes /\ s \in Sensors
    BY DEF Nodes
  <2>2. HearsBase(s)
    BY <2>1 DEF Init, HearsBase, Domains, IsTask, NoTask, Off, Blocked
  <2> QED BY <2>1, <2>2 DEF Init, LoneInv, ComesBack
<1>2. LoneInv(s) /\ [Next]_vars => LoneInv(s)'
  BY LoneNext
<1>3. LoneInv(s) => NotStranded
  BY DEF LoneInv, ComesBack, NotStranded
<1> QED BY <1>1, <1>2, <1>3, PTL DEF Spec
=============================================================================
