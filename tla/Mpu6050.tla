------------------------------ MODULE Mpu6050 ------------------------------
(***************************************************************************)
(* The motion sensor and the two-wire bus to it: mpu-6050.c's writing of a *)
(* register and burst reading of several, over the bits that i2c.c puts on *)
(* the lines.  A line is low when either side pulls it.  The sensor, which *)
(* is external, is a slave of the bus protocol: it reacts to edges, may    *)
(* hold the clock low, and may be missing.                                 *)
(*                                                                         *)
(* A routine of mpu-6050.c is the list of the calls it makes, one of i2c.c *)
(* the list of its lines.  A byte has Bits bits.                           *)
(***************************************************************************)
EXTENDS Naturals, Sequences

CONSTANTS
  Bits, ADDR_W,   \* MPU_ADDR_W; the address to read is the next number
  Registers,      \* of the sensor, numbered from 0
  MaxCalls,       \* bound
  Limit, Top,     \* of the waits for the clock: n < Limit, the largest uint8_t
  MayBeMissing,   \* the sensor need not answer
  Stretch         \* the clock may be held "long", which is more than Limit
                  \* polls of an unsigned long, or "forever"

\* Powers of 2, of which a byte is made.
Pow[k \in 0 .. Bits] == IF k = 0 THEN 1 ELSE 2 * Pow[k - 1]

Byte == 0 .. Pow[Bits] - 1

ASSUME MpuAssumption ==
  /\ {Bits, Limit, Top, MaxCalls} \subseteq Nat \ {0}
  /\ ADDR_W \in Byte /\ ADDR_W + 1 \in Byte /\ Registers \in 1 .. Pow[Bits]
  /\ MayBeMissing \in BOOLEAN /\ Stretch \in {"long", "forever"}

VARIABLES
  call,      \* the call of mpu-6050.c: its calls of i2c.c, and the one it is at
  frame,     \* of the routine of i2c.c: line, loop counter, byte, result
  calls,     \* calls made
  out,       \* the lines as the processor leaves them, 1 for released
  chip,      \* the sensor
  regs,      \* its registers
  acks,      \* bytes it has acknowledged and i2c_write has not told of
  gave       \* a wait for the clock was given up; the end of a behaviour

mpuVars == <<call, frame, calls, out, chip, regs, acks, gave>>

\* A shift register: the bit that leaves it, what is left, a bit that enters.
FirstBit(b) == IF b < Pow[Bits - 1] THEN 0 ELSE 1
ShiftedOut(b) == (2 * b) % Pow[Bits]
ShiftedIn(b, bit) == 2 * b + bit

(***************************************************************************)
(* The sensor: n bits of data have come in or gone out.                    *)
(***************************************************************************)
Idle == [mode |-> "idle", stage |-> "address", ptr |-> 0, n |-> 0, data |-> 0,
         sda |-> 1, hold |-> FALSE, here |-> TRUE]

Both(a, b) == IF a = 1 /\ b = 1 THEN 1 ELSE 0
SDA == Both(out.sda, chip.sda)
SCL == IF chip.hold THEN 0 ELSE out.scl

Listening(m) == [m EXCEPT !.mode = "receive", !.n = 0, !.data = 0, !.sda = 1]

SendBit(m, data, n) ==
  [m EXCEPT !.mode = "send", !.sda = FirstBit(data),
            !.data = ShiftedOut(data), !.n = n + 1]

SendFrom(m, reg) == SendBit([m EXCEPT !.ptr = reg], regs[reg], 0)

Acknowledge(m, stage) ==
  [m EXCEPT !.mode = "acknowledge", !.sda = 0, !.stage = stage]

ByteIn(m) ==
  IF m.stage = "register"
  THEN Acknowledge([m EXCEPT !.ptr = m.data % Registers], "data")
  ELSE IF m.stage = "data"
  THEN Acknowledge(m, "data")
  ELSE IF m.here /\ m.data = ADDR_W
  THEN Acknowledge(m, "register")
  ELSE IF m.here /\ m.data = ADDR_W + 1
  THEN Acknowledge(m, "read")
  ELSE [m EXCEPT !.mode = "idle"]

Falls(m) ==
  CASE m.mode = "receive" /\ m.n = Bits -> ByteIn(m)
    [] m.mode = "acknowledge" ->
         IF m.stage = "read" THEN SendFrom(m, m.ptr) ELSE Listening(m)
    [] m.mode = "send" /\ m.n < Bits -> SendBit(m, m.data, m.n)
    [] m.mode = "send" /\ m.n = Bits ->
         [m EXCEPT !.mode = "acked", !.sda = 1]
    [] m.mode = "more" -> SendFrom(m, (m.ptr + 1) % Registers)
    [] OTHER -> m

Rises(m, sda) ==
  CASE m.mode = "receive" ->
         [m EXCEPT !.hold = FALSE, !.n = @ + 1, !.data = ShiftedIn(@, sda)]
    [] m.mode = "acked" ->
         [m EXCEPT !.hold = FALSE, !.mode = IF sda = 0 THEN "more" ELSE "idle"]
    [] OTHER -> [m EXCEPT !.hold = FALSE]

Stores(m) == m.mode = "receive" /\ m.n = Bits /\ m.stage = "data"

\* What the sensor does as the lines go from <<SDA, SCL>> to <<sda, scl>>.
Reacts(sda, scl) ==
  /\ chip' = CASE SCL = 1 /\ scl = 1 /\ SDA = 1 /\ sda = 0 ->
                    [Listening(chip) EXCEPT !.stage = "address"]
               [] SCL = 1 /\ scl = 1 /\ SDA = 0 /\ sda = 1 ->
                    [chip EXCEPT !.mode = "idle", !.sda = 1]
               [] SCL = 1 /\ scl = 0 -> Falls(chip)
               [] SCL = 0 /\ scl = 1 -> Rises(chip, sda)
               [] OTHER -> chip
  /\ regs' = IF SCL = 1 /\ scl = 0 /\ Stores(chip)
             THEN [regs EXCEPT ![chip.ptr] = chip.data]
             ELSE regs
  /\ acks' = IF chip'.mode = "acknowledge" /\ chip.mode # "acknowledge"
             THEN acks + 1
             ELSE acks

\* The sensor holds the clock while it is low, and lets go.
Hold ==
  /\ out.scl = 0 /\ ~chip.hold /\ chip.here /\ chip.mode # "idle"
  /\ chip' = [chip EXCEPT !.hold = TRUE]
  /\ UNCHANGED <<call, frame, calls, out, regs, acks, gave>>

LetGo ==
  /\ chip.hold
  /\ IF out.scl = 1
     THEN Reacts(SDA, 1)
     ELSE chip' = [chip EXCEPT !.hold = FALSE] /\ UNCHANGED <<regs, acks>>
  /\ UNCHANGED <<call, frame, calls, out, gave>>

(***************************************************************************)
(* i2c.c.  A line may lead back to the first of a loop.                    *)
(***************************************************************************)
Line(op, arg, back) == [op |-> op, arg |-> arg, back |-> back]
Sda(v) == Line("sda", v, 0)
Scl(v) == Line("scl", v, 0)
LoopTo(first) == Line("scl", 0, first)
Op(name) == Line(name, 0, 0)
Wait8 == Op("wait uint8_t")
Wait32 == Op("wait unsigned long")
Return == Op("return")

i2c_start == <<Sda(1), Scl(1), Wait8, Sda(0), Scl(0), Return>>

\* Mutant: the clock stays low.
StopClockLow == <<Sda(0), Sda(1), Return>>

\* Mutant: it waits before the clock is released.
StopWaitsFirst == <<Sda(0), Wait8, Scl(1), Sda(1), Return>>

i2c_stop == <<Sda(0), Scl(1), Wait8, Sda(1), Return>>

\* Mutant: SDA is not released for the sensor to acknowledge.
WriteHolding ==
  <<Op("shift out"), Scl(1), Wait32, LoopTo(1),
    Scl(1), Op("ack"), Wait32, Scl(0), Return>>

i2c_write ==
  <<Op("shift out"), Scl(1), Wait32, LoopTo(1),
    Sda(1), Scl(1), Op("ack"), Wait32, Scl(0), Return>>

i2c_read ==
  <<Sda(1), Scl(1), Wait8, Op("shift in"), LoopTo(2),
    Op("send_ack"), Scl(1), Wait8, Scl(0), Return>>

Lines == [start |-> i2c_start, stop |-> i2c_stop,
          write |-> i2c_write, read |-> i2c_read]

(***************************************************************************)
(* mpu-6050.c.                                                             *)
(***************************************************************************)
Calls(routine, c, send_ack) ==
  [routine |-> routine, c |-> c, send_ack |-> send_ack]
Starts == Calls("start", 0, FALSE)
Writes(c) == Calls("write", c, FALSE)
Reads(send_ack) == Calls("read", 0, send_ack)
Stops == Calls("stop", 0, FALSE)

\* Mutant: the value goes out before the register.
WriteValueFirst(reg, val) ==
  <<Starts, Writes(ADDR_W), Writes(val), Writes(reg), Stops>>

write_mpu_reg(reg, val) ==
  <<Starts, Writes(ADDR_W), Writes(reg), Writes(val), Stops>>

read_mpu_reg_burst(reg, num) ==
  <<Starts, Writes(ADDR_W), Writes(reg), Starts, Writes(ADDR_W + 1)>>
    \o [k \in 1 .. num |-> Reads(k < num)] \o <<Stops>>

Called(kind, reg, arg, steps) ==
  [kind |-> kind, reg |-> reg, arg |-> arg, steps |-> steps, at |-> 1,
   ret |-> 0, buffer |-> << >>]

Frame(c) == [line |-> 1, i |-> 0, c |-> c, ack |-> 0]

Busy == call.at <= Len(call.steps)

\* i2c_enable has pulled the clock.
MpuInit ==
  /\ call = Called("none", 0, 0, << >>) /\ frame = Frame(0)
  /\ calls = 0 /\ acks = 0 /\ gave = FALSE
  /\ regs \in [0 .. Registers - 1 -> Byte]
  /\ chip \in {Idle} \cup {[Idle EXCEPT !.here = ~MayBeMissing]}
  /\ out = [sda |-> 1, scl |-> 0]

Begin(c) ==
  /\ ~Busy /\ calls < MaxCalls /\ ~gave
  /\ calls' = calls + 1
  /\ call' = c
  /\ frame' = Frame(0)
  /\ UNCHANGED <<out, chip, regs, acks, gave>>

Write == \E r \in 0 .. Registers - 1, v \in Byte :
  Begin(Called("write", r, v, write_mpu_reg(r, v)))

ReadBurst == \E r \in 0 .. Registers - 1, n \in 1 .. Registers :
  Begin(Called("read", r, n, read_mpu_reg_burst(r, n)))

(***************************************************************************)
(* A line.                                                                 *)
(***************************************************************************)
Step == call.steps[call.at]
Here == Lines[Step.routine][frame.line]
At(op) == Busy /\ Here.op = op

GoOn == frame' = [frame EXCEPT !.line = @ + 1]

PutSda(v) ==
  /\ out' = [out EXCEPT !.sda = v]
  /\ Reacts(Both(v, chip.sda), SCL)
  /\ UNCHANGED <<call, calls, gave>>

SetSda == At("sda") /\ PutSda(Here.arg) /\ GoOn

ShiftOut ==
  /\ At("shift out")
  /\ PutSda(FirstBit(frame.c))
  /\ frame' = [frame EXCEPT !.line = @ + 1, !.c = ShiftedOut(@)]

SendAck ==
  At("send_ack") /\ PutSda(IF Step.send_ack THEN 0 ELSE out.sda) /\ GoOn

SetScl ==
  /\ At("scl")
  /\ out' = [out EXCEPT !.scl = Here.arg]
  /\ Reacts(SDA, IF chip.hold THEN 0 ELSE Here.arg)
  /\ IF Here.back = 0
     THEN GoOn
     ELSE frame' = [frame EXCEPT
            !.i = @ + 1,
            !.line = IF frame.i + 1 < Bits THEN Here.back ELSE @ + 1]
  /\ UNCHANGED <<call, calls, gave>>

ClockIsHigh ==
  /\ At(Wait8.op) \/ At(Wait32.op)
  /\ SCL = 1 /\ GoOn
  /\ UNCHANGED <<call, calls, out, chip, regs, acks, gave>>

\* n < Limit can end the loop if n can be Limit.
Ends == At(Wait32.op) \/ (At(Wait8.op) /\ Limit <= Top)

\* The clock is still low after Limit polls: they return 1, i2c_stop goes on.
GiveUp ==
  /\ Ends /\ SCL = 0
  /\ gave' = TRUE
  /\ IF Step.routine = "stop"
     THEN GoOn
     ELSE frame' = [frame EXCEPT !.line = Len(Lines[Step.routine]),
                                 !.c = 1, !.ack = 1]
  /\ UNCHANGED <<call, calls, out, chip, regs, acks>>

ShiftIn ==
  /\ At("shift in")
  /\ frame' = [frame EXCEPT !.line = @ + 1, !.c = ShiftedIn(@, SDA)]
  /\ UNCHANGED <<call, calls, out, chip, regs, acks, gave>>

GetAck ==
  /\ At("ack")
  /\ frame' = [frame EXCEPT !.line = @ + 1, !.ack = 1 - SDA]
  /\ UNCHANGED <<call, calls, out, chip, regs, acks, gave>>

\* The caller goes on, or to its i2c_stop when i2c_write has returned 0.
Returns ==
  LET steps == call.steps
      Ok == Step.routine = "write" => frame.ack = 1
      next == IF Ok THEN call.at + 1 ELSE Len(steps)
  IN  /\ At("return")
      /\ call' = [call EXCEPT
           !.at = next,
           !.ret = IF Ok /\ next = Len(steps) THEN 1 ELSE @,
           !.buffer = IF Step.routine = "read" THEN Append(@, frame.c) ELSE @]
      /\ frame' = Frame(IF next <= Len(steps) THEN steps[next].c ELSE 0)
      /\ acks' = IF Step.routine = "write" THEN acks - frame.ack ELSE acks
      /\ UNCHANGED <<calls, out, chip, regs, gave>>

Runs == SetSda \/ ShiftOut \/ SendAck \/ SetScl \/ ShiftIn \/ GetAck \/ Returns

MpuNext == Write \/ ReadBurst \/ Runs \/ ClockIsHigh \/ GiveUp \/ Hold \/ LetGo

\* The processor goes on; a sensor that does not hold the clock for ever lets
\* it go, and holds it a bounded number of times in a byte.
MpuFairness ==
  /\ WF_mpuVars(Runs) /\ WF_mpuVars(GiveUp)
  /\ SF_mpuVars(ClockIsHigh)
  /\ Stretch # "forever" => WF_mpuVars(LetGo)

MpuSpec == MpuInit /\ [][MpuNext]_mpuVars /\ MpuFairness

(***************************************************************************)
(* Properties.                                                             *)
(***************************************************************************)
MpuTypeOK ==
  /\ calls \in 0 .. MaxCalls /\ gave \in BOOLEAN /\ (~gave => acks <= 1)
  /\ out \in [sda : {0, 1}, scl : {0, 1}]
  /\ regs \in [0 .. Registers - 1 -> Byte]
  /\ call.ret \in {0, 1} /\ call.at \in 1 .. Len(call.steps) + 1
  /\ frame.ack \in {0, 1} /\ frame.i \in 0 .. Bits
  /\ Len(call.buffer) <= Registers
  /\ chip.n \in 0 .. Bits /\ chip.ptr \in 0 .. Registers - 1

\* "Return true if we received an ACK." (i2c.c:185): no more bytes are told of
\* as acknowledged than the sensor has acknowledged.
AckReceived == ~gave => acks >= 0

Finished(kind) == ~gave /\ ~Busy /\ call.kind = kind /\ call.ret = 1

\* A call that returns 1 has done what it says: the register has the value, the
\* buffer has the registers in their order, and there is a sensor; what
\* mpu_sample_all takes for a sample (mpu-6050.c:65-122, i2c.c:187-257).  This
\* and what follows is said as long as no wait for the clock was given up:
\* nobody hears of one that was, and the call goes on in the middle of a byte.
CallsWork ==
  /\ MpuTypeOK /\ AckReceived
  /\ Finished("write") => chip.here /\ regs[call.reg] = call.arg
  /\ Finished("read") =>
       /\ chip.here
       /\ call.buffer = [k \in 1 .. call.arg |->
                           regs[(call.reg + k - 1) % Registers]]

\* No register changes but the one that is written, and to what is written: the
\* sensor takes no bit, start or stop for another (i2c.c:141-182).
OnlyRegisterWritten ==
  [][\A r \in DOMAIN regs : ~gave /\ regs'[r] # regs[r] =>
       call.kind = "write" /\ call.reg = r /\ call.arg = regs'[r]]_mpuVars

\* Between calls both lines are high and the sensor waits for a start, also
\* when the call has failed.
BusLeftFree ==
  ~gave /\ ~Busy /\ calls > 0 => SDA = 1 /\ SCL = 1 /\ chip.mode = "idle"

\* Every call returns.  "Should avoid infinite looping while waiting for
\* SCL_IS_1" (i2c.c:88), with a sensor that lets go of the clock in the end.
CallsReturn == Busy ~> ~Busy

=============================================================================
