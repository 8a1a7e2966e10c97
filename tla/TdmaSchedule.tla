---------------------------- MODULE TdmaSchedule ----------------------------
(***************************************************************************)
(* What the TDMA schedule of TdmaRdc promises, and the inductive invariant *)
(* behind it.  TdmaRdc_proofs states the assumptions on the constants that *)
(* make it true.                                                           *)
(***************************************************************************)
EXTENDS TdmaRdc

TypeOK ==
  /\ up \in [Nodes -> BOOLEAN]
  /\ radio \in [Nodes -> BOOLEAN]
  /\ timer \in [Nodes -> RtimerType({"beacon", "send", "radio_on"})]
  /\ timer[BS].func \in {"none", "beacon"}
  /\ \A n \in Sensors : timer[n].func \in {"none", "send", "radio_on"}
  /\ air \in [Nodes -> Int]
  /\ air[BS] \in -1 .. BS_AIR
  /\ \A n \in Sensors : air[n] \in -1 .. SN_AIR
  /\ hear \in [Nodes -> Nodes \cup {None}]
  /\ rx \in [Nodes -> FrameType \cup {NoFrame}]
  /\ rx_start \in [Sensors -> Clock]
  /\ listen \in [Sensors -> -1 .. MAX_LISTEN_PERIOD]
  /\ sleep \in [Sensors -> -1 .. MAX_SLEEP_PERIOD]
  /\ rejected \in [Sensors -> 0 .. REJECT_LIMIT]
  /\ slot \in [Sensors -> 1 .. TOTAL_TS]
  /\ pkt_type \in {"data", "timestamp", "cmd"}
  /\ due \in [Sensors -> 1 .. TOTAL_TS]
  /\ since \in 0 .. SEGMENT_PERIOD

-----------------------------------------------------------------------------
(* The inductive invariant: every activity happens at a known offset from  *)
(* the start of the base station's last frame.                             *)

(* The base station's frame is the first thing in a segment, nobody has    *)
(* booked anything while it is on the air, and the next one is at least a  *)
(* segment away.                                                           *)
BaseInv ==
  /\ Blocked(BS) =>
       /\ since = BS_AIR - air[BS]
       /\ \A n \in Sensors : timer[n].func = "none" /\ ~Blocked(n)
       /\ \A n \in Sensors : rx[n].from # BS
  /\ up[BS] => timer[BS].func = "beacon"
  /\ timer[BS].func = "beacon" =>
       /\ timer[BS].time = timer[BS].match
       /\ timer[BS].match <= SEGMENT_PERIOD
       /\ since + timer[BS].match >= SEGMENT_PERIOD

(* A receiver is locked on to a frame only while it is being sent. *)
HearInv == \A n \in Nodes : hear[n] # None => Blocked(hear[n])

(* What a sensor has booked lies in the current segment, and so does what  *)
(* it is sending.                                                          *)
SensorInv(n) ==
  /\ timer[n].func = "send" =>
       /\ rx_start[n] = since
       /\ timer[n].time = timer[n].match
       /\ since + timer[n].match = SlotStart(due[n])
  /\ timer[n].func = "radio_on" =>
       /\ timer[n].time = timer[n].match
       /\ since + timer[n].match = WakeTime
  /\ Blocked(n) =>
       /\ timer[n].func = "radio_on"
       /\ since = SlotStart(due[n]) + SN_AIR - air[n]
  /\ rx[n].from = BS =>
       /\ rx[n].age = since
       /\ since <= BS_AIR + MAX_LATENCY
       /\ timer[n].func = "none"

ScheduleInv ==
  /\ TypeOK
  /\ BaseInv
  /\ HearInv
  /\ \A n \in Sensors : SensorInv(n)

(* A node without power has nothing booked and no frame. *)
PoweredInv(n) ==
  ~up[n] => timer[n].func = "none" /\ rx[n] = NoFrame /\ hear[n] = None

(* A sensor with something booked has nothing to hear, nothing to process  *)
(* and no ctimer running: nothing turns its radio on before its task.      *)
BookedInv(n) ==
  timer[n].func # "none" =>
    /\ rx[n] = NoFrame /\ hear[n] = None
    /\ listen[n] = Off /\ sleep[n] = Off
    /\ ~Blocked(n) => ~radio[n]

QuietInv == \A n \in Sensors \ ShellNodes : PoweredInv(n) /\ BookedInv(n)

-----------------------------------------------------------------------------
(* Slots are exclusive: two nodes are on the air at once only if they are  *)
(* sensors that were given the same slot.  In particular no sensor ever    *)
(* sends over the base station's frame.  It must survive lost frames,      *)
(* sensors that reboot or change slots in mid-segment, a slow main loop    *)
(* and a base station that restarts with a new phase while the sensors     *)
(* still follow the old one.                                               *)
NoOverlap ==
  \A n, m \in Nodes :
    n # m /\ Blocked(n) /\ Blocked(m) =>
      n \in Sensors /\ m \in Sensors /\ due[n] = due[m]

(* Two frames of the base station never start less than a segment apart,   *)
(* whatever happens to the base station in between (tdmardc.c:169, 461).   *)
BeaconSpacing ==
  [][air[BS] = Silent /\ air'[BS] # Silent => since = SEGMENT_PERIOD]_vars

(* A sensor that books its wake-up books it so that it comes before the    *)
(* next frame of the base station can start (tdmardc.c:255, 390).          *)
WakesBeforeBeacon ==
  \A n \in Sensors :
    timer[n].func = "radio_on" => since + timer[n].match < SEGMENT_PERIOD

(* A sensor's task runs at the time it was set for: SNTimer is never set   *)
(* again while it is pending, which would run it at the old time           *)
(* (rtimer.c:77-89).                                                       *)
SensorTasksOnTime ==
  \A n \in Sensors : IsrReady(n) => timer[n].time = 0

(* Between the base station's frame and its own slot, and from there to    *)
(* the wake-up, a sensor whose shell is not used keeps its radio off.      *)
RadioOffBetween ==
  \A n \in Sensors \ ShellNodes :
    timer[n].func # "none" /\ ~Blocked(n) /\ ~IsrReady(n) => ~radio[n]

(* A sensor with a slot that has turned its radio off has something booked *)
(* that will turn it on again, or a frame still to process: whatever the   *)
(* slot number, the commands and the losses, it can always come back.      *)
NotStranded ==
  \A n \in Sensors :
    up[n] /\ HasSlot(n) /\ ~radio[n] =>
      \/ timer[n].func # "none"
      \/ listen[n] # Off \/ sleep[n] # Off
      \/ rx[n] # NoFrame

(* A frame of the base station that reaches the main loop of a sensor is   *)
(* answered in the sensor's slot, unless the power goes.                   *)
BeaconAnswered ==
  \A n \in Sensors :
    rx[n].from = BS /\ rx[n].kind = "data" ~> Blocked(n) \/ ~up[n]

(* A base station that keeps its power keeps broadcasting. *)
BeaconsKeepComing == <>[]up[BS] => []<>Blocked(BS)

(* A sensor with a slot that turned its radio off turns it on again,       *)
(* unless the power goes or its slot is taken away.                        *)
ListensAgain ==
  \A n \in Sensors :
    up[n] /\ HasSlot(n) /\ ~radio[n] ~> radio[n] \/ ~up[n] \/ ~HasSlot(n)

(* "TDMA_SN_sleep -- called when radio cannot receive any beacon for a     *)
(* while" (tdmardc.c:236): a sensor whose base station is gone does not    *)
(* listen for ever.                                                        *)
SleepsWithoutBeacons ==
  \A n \in Sensors :
    up[n] /\ ~up[BS] ~> up[BS] \/ ~up[n] \/ ~radio[n]

(* "time  The time when the task is to be executed" (rtimer.h:98): a task  *)
(* starts when its own time has come.                                      *)
TasksOnTime == \A n \in Nodes : IsrReady(n) => timer[n].time = 0

(* "sendcmd <command>: send command to remote node" (shell-sky.c:96): a    *)
(* command that was put into the packetbuf stays there until it has been   *)
(* broadcast.                                                              *)
CommandIsSent ==
  [][pkt_type = "cmd" /\ pkt_type' # "cmd" /\ up'[BS] => air[BS] = 0]_vars
=============================================================================
