# A TLA+ verification project for SnowFort

SnowFort is a wireless sensor platform for structural and motion sensing: Tmote
Sky nodes (MSP430, CC2420 radio) run a fork of Contiki 2.6 whose medium access
layer is replaced by a TDMA layer of its own. One node is the *base station*
(built with `SF_MOTE_TYPE_AP`, node id 0), the others are *sensors*
(`SF_MOTE_TYPE_SENSOR`). The base station is connected to a host over USB.

This directory holds TLA+ modules that model the system's own logic, the TLC
configurations that check them on small instances, and TLAPS proofs about them
for every value of the constants. Paths below are relative to the repository.

Run from this directory: `tlc -config TdmaPower.cfg MCTdmaRdc.tla` (`PROJECT.json`
names the module of each configuration), and `tlapm TdmaRdc_proofs.tla`.

## 1. The system

A node runs one main loop (`platform/sky/contiki-sky-main.c`) that executes
event handlers one after another, and interrupt handlers that preempt it.
Interrupt handlers do not nest (the MSP430 clears GIE on entry). What the main
loop runs and what an interrupt runs share variables without locks, which is
where most of this code's difficulties lie.

| component | state it keeps | operations | correct when |
|---|---|---|---|
| TDMA layer `core/net/mac/tdmardc.c` | slot number, time of the last beacon, `SNTimer`/`BSTimer`, listen and sleep ctimers, reject counter | `init`, `on`, `off`, `input` (main loop), `TDMA_BS_send`, `TDMA_SN_send`, `NETSTACK_RADIO.on` (rtimer interrupt), `TDMA_SN_listen`, `TDMA_SN_sleep` (ctimers) | no two nodes send at once; every beacon received is answered in the right slot; the receiver is on when a beacon comes and off otherwise; no node is silent for ever |
| real-time timer `core/sys/rtimer.c`, `cpu/msp430/f1xxx/rtimer-arch.c` | one pending task `next_rtimer`, register TACCR0 | `rtimer_set`, timer interrupt, `rtimer_run_next` | a task runs at its time, once |
| application connector `core/net/appconn/app_conn.c` | a ring of 116 bytes, its write and read positions, a full flag, a lock flag | `app_conn_send` (main loop), copy to the packet buffer and clear (slot interrupt) | a frame carries the latest readings, whole and in order |
| radio driver `core/dev/cc2420.c` | `receive_on`, the lock and two deferred-request flags, `pending`, time stamps | `on`, `off`, `transmit`, `read`, FIFOP and SFD interrupts, `cc2420_process` | the last request wins; a frame has the time stamp of its own start |
| packet buffer, framer `core/net/packetbuf.c`, `core/net/mac/framer-tdma.c`, `frame802154.c` | one buffer with header and data positions and attributes, shared by receive and send | copy, header reduction and allocation, `create`, `parse` | a frame that is sent and received comes back as it was |
| shell commands `apps/shell/shell-sky.c`, `apps/remote-shell/remote-shell.c` | none beyond the packet buffer | `timeslot`, `sendcmd`, command delivery at a sensor | a command reaches the sensor, whole |
| event kernel `core/sys/process.c`, `etimer.c`, `ctimer.c`, `timer.c`, `clock.c` | event queue, poll flags, timer lists, tick counter | post, poll, set, stop, run | no event is lost or run twice, a timer fires when it has expired and not before |
| serial port `cpu/msp430/f1xxx/uart1.c`, `core/lib/ringbuf.c`, `core/dev/serial-line.c` | transmit ring, `transmitting`, line buffer | `uart1_writeb`, transmit and receive interrupts, line process | bytes leave in order, none is lost, the port never stops |
| boot and main loop `platform/sky/contiki-sky-main.c` | none | start-up, loop, low-power mode | every posted event is processed |
| I2C, ADC, MPU-6050 and ADXL-335 drivers | none between calls | bit-level transfers | bounded waits are bounded |
| applications and host readers `snowfort_example/`, `hello_world/` | sampling timers; the reader's input buffer | sample and send; split the stream into records | every sample is delivered once |

The rest of the tree (uIP, Rime, other MAC layers, Coffee, other CPUs and
platforms, cooja, tools) is Contiki's and not part of a SnowFort image.

How they interact: the base station's rtimer interrupt broadcasts a frame; a
sensor's FIFOP interrupt polls `cc2420_process`, which reads the frame into
the packet buffer and calls the TDMA layer's `input()`. `input()` turns the
radio off and sets `SNTimer` for the sensor's slot. The slot's interrupt sets
the same timer for the wake-up, copies the application's ring into the packet
buffer, turns the radio on, sends, clears the ring and turns the radio off. The
wake-up interrupt turns the radio on again before the next frame. Two ctimers
bound how long a sensor listens in vain and how long it then sleeps. The shell
may change the slot (`timeslot`) or put a command into the base station's packet
buffer (`sendcmd`) at any moment between two handlers.

`PROJECT.json` lists, under "hazards", what is hard to test here, each at its
line, with the properties that cover it.

## 2. The modules

| module | models | uses |
|---|---|---|
| `Rtimer` | the timer every slot hangs on | |
| `TdmaRdc`, `TdmaSchedule` | the TDMA layer over a network of nodes; its properties and inductive invariant | `Rtimer` |
| `PacketBuf` | operations on the packet buffer | |
| `AppConn`, `AppConnRing` | the ring shared by the main loop and the slot; its invariant and properties | `PacketBuf`, implements `LatestBytes` |
| `Cc2420` | the radio driver of one node, statement by statement | |
| `Uart1` | the sending side of the serial port | implements `ByteStream` |
| `SerialLine` | its receiving side, up to the shell | |
| `Process` | the event kernel and the main loop | implements `EventQueue` |
| `Ctimer` | callback timers, event timers and the clock | |
| `RemoteShell` | a command from the base station's shell to the sensors' | |
| `Mpu6050` | the motion sensor's driver over the bits of the bus | |
| `UsbReader` | the base station's output and the host program that reads it | |
| `LinkedList` | no code of its own: a theory of linked lists, for `Process`, `Ctimer` and their proofs | |
| `TdmaRdc_proofs` | theorems about `Rtimer`, `TdmaRdc` and `TdmaSchedule` | |
| `Sampling_proofs` | theorems about `PacketBuf`, `AppConn` and `AppConnRing`, and about `Mpu6050` | |
| `Serial_proofs` | theorems about `Uart1` and `SerialLine` | |
| `BaseStation_proofs` | theorems about `UsbReader` | |
| `Cc2420_proofs`, `Process_proofs`, `Ctimer_proofs` | theorems about the module of that name | |

`LatestBytes`, `ByteStream` and `EventQueue` are abstract specifications: what a slot
takes from the ring, a reliable stream of bytes, a bounded first-in-first-out queue.
`MCTdmaRdc` and `MCTdmaLone` give `TdmaSchedule` its instances; the other modules take
their constants from the configuration alone.

Modules that go down to single statements of two contexts (`AppConn`, `Cc2420`, `Uart1`,
`Process`, `Ctimer`) either have a program counter or a list `todo` of the
statements that a context still has to execute; a call puts the statements of its body in
front. `Mpu6050`, where nothing interrupts, keeps the routines as lists of lines and says
at which line of which call the program is. Elsewhere an interrupt may come before any statement,
and the main loop stands still until it has returned.

Many of these components have a window in which an interrupt does harm, or an input they
do not expect. The models have the windows: what an interrupt, a full queue or a slow
sensor can do at a statement, it does in the runs. Where a property does not survive one,
a history variable records that the case has come (`met`, `refused`, `cut`, `gave`), the
property says "as long as it has not", and everything else is checked in spite of it.
In `AppConn`, `Uart1`, `Ctimer` and `SerialLine` a constant (`Preempt`, `SlotPrints`,
`Paced`) keeps the case out instead, because the model goes wrong altogether
behind it and the theorems assume it away. Section 11 lists what each window does to the
code and how to see it.

## 3. The TDMA layer: `Rtimer`, `TdmaRdc`, `TdmaSchedule`

### State

`Rtimer` models a timer as a record: the task's function (`func`, "none" when
`next_rtimer` is NULL), its `time`, and `match`, the ticks until TAR meets
TACCR0. Times are relative to now, so nodes need no common clock, and are kept
modulo `ClockModulus` as the 16-bit `rtimer_clock_t` is. `time` and `match` are
two fields because the source lets them differ: `rtimer_set` on a pending task
overwrites the task and leaves the register alone (`rtimer.c:77-89`).

`TdmaRdc` has one copy of each variable per node: the timer, the receiver
(`radio`), the send in progress (`air`, during which the node is inside its
interrupt handler), the frame being received (`hear`), the frame waiting for
`cc2420_process` (`rx`, with its age), the ctimers (`listen`, `sleep`), the
slot, the reject counter, and the packet type attribute of the base station's
packet buffer. `due` and `since` are history variables used by properties only.

### Actions

| action | code |
|---|---|
| `PowerOn`, `PowerOff` | `init()` and `on()` at boot; loss of power at any moment |
| `TDMA_BS_send`, `TDMA_SN_send` | the rtimer callbacks up to the blocking send |
| `SendReturns` | the same handlers from the end of the send to their return |
| `WakeUp` | the rtimer callback `NETSTACK_RADIO.on` |
| `BaseInput`, `RejectFrame`, `FromBaseInput` | `cc2420_process` and `input()`, by role and sender |
| `ListenExpires`, `SleepExpires` | the ctimer callbacks |
| `Timeslot`, `SendCommand` | the shell commands `timeslot` and `sendcmd` |
| `Tick` | one tick of every node's clocks |

Time is explicit. `Tick` waits for what is due now (`Urgent`): interrupts that
are not blocked, expired ctimers, and a received frame that has waited
`MAX_LATENCY` ticks. Within an instant everything interleaves in any order. A
handler is one step, because interrupts disturb it only through variables of
the driver and the application connector, which have modules of their own.

### Abstractions

- Nodes' clocks run at the same rate. Drift within one segment is what the guard
  period is for and is far below a tick of the model.
- Preparing and loading a frame takes no time; a send takes `BS_AIR` or `SN_AIR`
  ticks. The 33 ticks of calibration (`tdmardc.c:412`) are the constant
  `CALIBRATION`.
- A frame that ends while one waits in the RXFIFO is dropped. The real driver
  keeps it and mixes up the time stamps of the two; that belongs to `Cc2420`.
- A frame reaches any subset of those who listen. Two frames that overlap destroy
  each other at every receiver.
- A frame with a bad checksum reaches `input()` with length 0. A sensor returns
  from it early, so it is a lost frame; the base station treats it as any frame.
- Led timers, sequence numbers, addresses and contents are left out. A ctimer is
  a countdown whose callback runs in the tick it expires; the list behind it is
  `Ctimer`'s subject.

### Bounds

The source's numbers (`SEGMENT_PERIOD` 5461, `TS_PERIOD` = `BS_PERIOD` 780,
`GRD_PERIOD` 65, six slots, a clock of 2^16 ticks) are scaled down: a segment of
nine ticks with a beacon slot and two slots of three ticks, a guard of one tick, a
clock of 20 ticks. The order of all offsets in a segment, and that two segments fit
into one turn of the clock but not many more, are as in the source. What is not to
scale: the listen and sleep periods (30 s and 60 s, hundreds of segments) are about a
segment, so that their expirations fall into every phase of it. All values are
bounded by the model's own structure; there is no state constraint. Two sensors are
enough for an overlap, and for a frame of a sensor to meet every phase of another.

### Properties and runs

| run | shows |
|---|---|
| `TdmaPower` | two sensors, any losses, a late main loop, power failures of the base station and a sensor. `ScheduleInv` (the inductive invariant of section 12, with types; that a booked wake-up comes before the next beacon and that a sensor never sets a pending timer follow from it and are proved there); `NoOverlap` (slots are exclusive, also when the base station comes back with a new phase); `RadioOffBetween` (the radio is off between a task's booking and its time); `BeaconSpacing`. Under fairness: a frame of the base station that reaches the main loop is answered in the slot (`BeaconAnswered`); a base station that keeps its power keeps broadcasting (`BeaconsKeepComing`) |
| `TdmaLone` | one sensor, commands, power failures, and the slots that the unguarded command allows: 0, one past the last, 65535 ("no slot"). When its radio is off, a sensor with a slot can come back (`NotStranded`) and does (`ListensAgain`). A sensor that is given "no slot" and hears a frame turns its radio off (`tdmardc.c:376`) and books nothing, as the code means it to; both properties leave it out (`HasSlot`) |
| `TdmaStranded` | with two sensors `NotStranded` fails: a frame of the other sensor that waits in the RXFIFO when the sensor goes to sleep stops the sleep timer (`tdmardc.c:348`); radio off, no timer, the sensor is gone until it is reset |

Two sensors of which one changes its slot at any moment, and `timeslot` at the base
station, are beyond what TLC covers in minutes together with power failures. The first is
proved: the theorems of section 12 hold for any `ShellNodes` without the base station. The
second is left unchecked, see section 11.

### Fairness

`FairSpec` assumes weak fairness of `Tick` (time goes on), of the interrupts
(`TDMA_BS_send`, `SendReturns(BS)`; the hardware keeps a request pending until it
is served) and of each sensor's handlers together. The main loop
(`contiki-sky-main.c:422-442`) runs until no event or poll is left before it sleeps,
and an interrupt that posts one wakes it. Nothing is assumed of the channel, of
power, or of what the shell does. One WF for all of a sensor's handlers is
enough because `Tick` waits for each of them.

## 4. The way to the air: `PacketBuf`, `AppConn`, `LatestBytes`, `AppConnRing`

### State and actions

`PacketBuf` has no variables: it defines what the functions of `packetbuf.c` and of
the TDMA framer do to a packet buffer, a record of the positions `hdrptr`, `bufptr`,
`buflen` and the bytes of the header and data regions.

`AppConn` has the ring (`buffer`, `buf_ptr`, `send_ptr`, `full` and the lock
`in_using`), the program counter and locals of `app_conn_send`, the packet buffer
`pb`, and `booked`, which says that `input()` has set the sensor's slot. `payload`
is what the last slot took from the ring, `air` what it sent, as the receiver sees it
after skipping the header. A byte is the number it has among all that the application
has handed over (`accepted`), 0 for anything else.

| action | code |
|---|---|
| `Lock`, `Test`, `StartCopy`, `Copy`, `Measure`, `Wrap`, `Rewind`, `Advance`, `Mark`, `Unlock` | `app_conn_send`, one statement at a time, a `memcpy` one byte at a time |
| `Receive` | `cc2420_process` and `input()`: the packet buffer is cleared and filled, the header skipped, the slot booked |
| `Slot` | `TDMA_SN_send`: copy the ring to the packet buffer, create the header, send, clear the ring |

The lock is modelled as it works: whoever comes takes it, after a hundred turns at the
latest. Lengths and positions keep their width (8 and 16 bits). A write behind the ring
leads to a state of its own, `overrun`.

`LatestBytes` says what an application expects: a slot takes the bytes handed over since
the last slot, in order, or the latest `Capacity` of them. `AppConn` refines it with
`frame <- payload`: `Unlock` is `Accept`, `Slot` is `Transmit`, all else stutters.

### Abstractions and bounds

- `Slot` is one step: an interrupt handler that nothing preempts. An increment of a
  position is one step, too.
- Received frames have the framer's header or no bytes at all (what `cc2420_read`
  returns for a damaged one); frames of other networks are left out. Received bytes are 0.
- An application hands over between 1 and 116 bytes, as all of the tree's do; the code
  does not check it.
- `Preempt` says whether a slot may come in the middle of a call. The slot is booked and
  processed independently of the application's sampling timer, so it may (section 11);
  with `Preempt = FALSE` the run and the theorems say what the ring is worth without the
  race.

The ring has 4 bytes instead of 116, the packet buffer 3 + 7 instead of 48 + 128, the
header 2 instead of 9: as in the source, ring and header fit into the data region, a
second header does not fit beside a full ring. Lengths 1, 3 and 4 reach every place of the
wrap. `MaxBytes` = 12 bytes, three times the ring, let a ring wrap twice between slots and
slots come at any moment.

### Properties and runs

| run | shows |
|---|---|
| `AppConnTurns` | no slot inside a call. `RingInv`, the invariant of the ring at every statement, with types and without a write behind the ring; `TakesLatest` (the refinement of `LatestBytes`); `FramingSucceeds` (the header always fits, although a full ring is copied into a buffer nobody cleared); `ShortFramesIntact` (a ring that has not wrapped goes out as it was, whatever was received before) |

## 5. The radio driver: `Cc2420`

### State and actions

`drv` holds the driver's variables: `receive_on`, the lock's depth `locked` and the two
flags for requests put off, the time stamps, the poll. `chip` is the radio: receiver on or
off, the frame being received, the FIFO, the pending interrupts, the chip select of the SPI
bus. `buf` is the packet buffer. `want` and `met` are history variables: the last request
made of the driver, and what slots have fallen into.

| action | code |
|---|---|
| `CallOn`, `OnLocked`, `CallOff`, `OffLocked`, `Lock`, `TestLock`, `DeferredOn`, `DeferredOff`, `ClearOn`, `ClearOff`, `Unlock` | `cc2420_on`, `cc2420_off`, `GET_LOCK`, `RELEASE_LOCK` |
| `Enable`, `Select`, `StrobeOn`, `SetOn`, `SetOff`, `StrobeOff`, `Disable`, `Flush` | `on()`, `off()`, `flushrx()` and the transfers over the SPI bus |
| `Copy`, `Write`, `Transmit`, `Collide`, `NeverStarts` | `TDMA_SN_send`'s use of the packet buffer, `cc2420_prepare`, the three ways through `cc2420_transmit` |
| `Poll`, `Clear`, `Read`, `Length`, `BadLength`, `Body`, `BadBody`, `Again`, `Input` | `cc2420_process` and `cc2420_read` |
| `CaptureInterrupt`, `FifopInterrupt` | the SFD and FIFOP interrupts |
| `SlotInterrupt`, `Callback` | the rtimer callbacks (send, or turn the radio on) and a ctimer callback that uses the driver |
| `StartFrame`, `EndFrame` | the channel |

`InStep` says whether the bytes that `cc2420_read` takes are still those of the frame whose
length it has read. Each return of `cc2420_transmit` and `cc2420_read` has a `RELEASE_LOCK` of
its own: `Exit(way)` puts it in front when the way out is known. A slot that flushes the FIFO or ends the transfer in between leaves the
read out of step; `BadLength` and `BadBody` are what it may then get.

Left out: channel, power, address and CCA settings, which nothing reads back. The two
footer bytes are read with the body. `cc2420_off` never finds a transmission under way,
because `cc2420_transmit` waits for the end of it. Whether FIFOP goes low for a moment when
a frame is read and another follows is up to the chip: `Edges` allows both. Two slots never
fall into one call (`met.again`), there is most of a segment between them.

### Bounds and run

Three frames (`MaxFrames`), a FIFO of two (`Room`; the chip has 128 bytes, two or three of
the system's frames), so that it overflows and a frame is cut off by `off()`. A slot that
finds nothing under way may come any number of times; one may come at any statement of a
call or during a frame (`MaxMet`), which every statement of the slot can then meet.

The run `Cc2420Turns` checks, whatever slots and frames have met:

- `LockBalanced`: types, and the lock is as deep as calls are inside it, whichever of the
  returns of `cc2420_transmit` and `cc2420_read` they leave by;
- `Noticed`: no frame is in the FIFO without an interrupt or a poll to come for it;
- `FrameHandled`: each frame is taken or flushed in the end;

as long as no slot has come behind the test of its flag in `RELEASE_LOCK`:

- `DeferredDone`: an unlocked driver has no request left that was put off;
- `Honoured`, first part: with nothing under way the radio is on exactly if the driver takes
  it to be. A slot that ends the main loop's transfer between chip select and strobe
  (`cc2420.c:208`) loses the strobe, but the request it leaves behind repeats it. This holds
  with two such slots as well (`MaxMet` = 2, `MaxFrames` = 2, a longer run);

and as long as no slot has met a call or a frame:

- `Honoured`, second part: with nothing under way the driver does what it was asked last;
- `HandsOverFrames`: what is handed over was received, and has its own time stamp. This one
  also needs that no frame began while another one waited: the time stamp is then
  overwritten, and `off()` leaves the FIFO alone for the frame that waits, with what it cut
  off behind it.

Fairness: strong for the main loop and the poll, because interrupts that come again and
again are short and leave it time in between; weak for what is under way in an interrupt,
for the chip's interrupts and for the end of a frame that has begun.

## 6. The serial port: `Uart1` and `SerialLine`

### Output

`Uart1` has the ring (`data`, `put_ptr`, `get_ptr`), `transmitting`, the transmit register
and its interrupt flag, and for the main loop and the rtimer interrupt the place in
`uart1_writeb` and its locals. A byte is its number among those written. `uart1_writeb`
goes by way of `put`, `store`, `advance` (`ringbuf_put`), `test`, `claim`, `get`, `send`;
`TxInterrupt` is the interrupt handler, `Shift` the shift register, `Call` a `printf`.
`TDMA_SN_send` prints in the slot's interrupt, hence two callers.

The ring of the code has 256 places although `ringbuf.h` allows 128: the size wraps to 0
in a `uint8_t`, the mask to 255, and the ring works. The runs use 4 places and up to 9
bytes, which wraps the ring twice and fills it. The writer may stop, so deadlock
is not checked.

`Uart1Turns` has calls that do not interrupt each other (`SlotPrints = "between"`), and the
transmit interrupt at any statement. `PortInv`, the inductive invariant; `SendsInOrder`: the
port implements `ByteStream`, everything written goes out once and in order; `CallsReturn`:
no call waits for ever. A wrong byte may go out in between, see section 11.

Fairness: weak for each call, the transmit interrupt and the shift register.

### Input

`SerialLine` follows a character from the DMA's ring in `uart1.c` through the timer that
reads it (`RxTimer`, `RxByte`), `serial_line_input_byte`'s ring with its overflow flag, the
poll (`Poll`) and the process that fills one buffer and broadcasts it (`Assemble`, `Events`).
A character is its line and its place there. `Letter`, `Return`, `Newline` are the DMA,
which never waits; `OtherPosts` are events that other processes post. Its `Init`, `Next` and so on
begin with `Line`, since `Serial_proofs` extends this module and `Uart1`.

Rings and line buffer have 3 places, the queue of events 2, lines 0 to 3 characters: a
line may be longer than each of them. `Paced` says that the timer comes before the DMA has
gone round. Other processes may fill the queue at any time; `refused` remembers what
of a line did not get into it.

`SerialLineTurns` checks `LinesInOrder`: what the shell is given are beginnings of lines, in
order, never pieces of two, as long as the queue has not taken a line and refused its
CONTINUE; `EndIsDelivered`: an end of line that got into the ring becomes a line for the
shell or, if the queue refused one, the process comes back to an empty ring at least.

Fairness: weak for a call under way; strong for the timer, polls and events, which
`process_run` takes each time round. Nothing is assumed of whoever types or posts.

## 7. The kernel: `Process` and `Ctimer`

### Processes and events

`Process` has the ring of events (`events`, `nevents`, `fevent`), the list of processes
(`process_list` and the links `next`; `Listed` is what a walk along it meets), their states and
`needspoll`, `poll_requested`, and the main loop's `todo`. A process that is called does one of
the kernel's operations (start, exit, end another, call another, post, broadcast) and waits, or
ends; all of them may nest (`MaxCalls`). `Interrupt(p)` is `process_poll` from an interrupt,
before any statement, and wakes the processor. An event's data is not modelled, its receiver
stands for it. `owed` and `due` are history variables: who was polled and not called, who has
not seen the broadcast under way.

A process may also end one that is in the middle of a call of its own (`kill` of a process in
state "called"; `exit_process` tests for running or called, `process.c:139`). The shell does:
`randwait 1 {null | killall}` makes `randwait` start `killall` from its own thread
(`shell-time.c:347`), which ends every command that runs (`shell.c:125-132`). `call_process`
then goes on and marks the process as running, off the list (`process.c:197`). The history
variable `cut` remembers that this has happened, and the model goes on as the code does:
such a stray is not found by polls and broadcasts (a poll of it is never served, and `owed` does
not count it); `do_poll`, when the process it stands at has left, may follow its link to another that
has left and, if that one was polled, call it again (`process.c:234`); one that is off the list and
whose thread ends stays "called", and `process_is_running` says yes.
Callers that end a process ask first whether it runs (`shell.c:131`) or end one that they
have just found; `command_kill` of a child (`shell.c:285`) and of the front process
(`shell.c:370`) do not. That one that is already leaving is ended once more is left out.

`ProcessKernel` has two processes and a queue of three events. `ListedRun`: types; who is on the
list runs, or is about to be unlinked; and who runs is on the list, as long as nobody was ended
in a call of its own (`cut`). `BroadcastReachesAll`: a broadcast reaches all who were there and
have not left, whoever starts or ends meanwhile; `SleepsIdle`: a poll between the last look of
`process_run` and the sleep is not slept over; `PollServed`: who is on the list and polled is
called, or leaves; `InOrder`: the ring of events implements `EventQueue`. These four
hold in spite of `cut`.

Three events make the ring wrap at each place with one or two waiting, and full; `Posted` says to
whom they are (one process and everybody). With two processes one can leave in front of the
other or behind it during a walk; a list with a middle, and a queue of any length, are beyond
what TLC covers in minutes, and are what the theorems of section 12 add. Fairness: weak for the
main loop; with it stopped nothing of a node works.

### Timers

`Ctimer` has the two lists (`timerlist` with `enext`, `ctimer_list` with `cnext`), the ticks
`left` of each timer (negative when late), `next_expiration` as the clock knows it, the
poll, the queue, and `todo` for the main loop and the rtimer interrupt, which sets the LED's
timer (`tdmardc.c:89`). `Tick` is the clock's interrupt and may come between any two
statements. Adding to a list is two statements, as in the code; a walk along a list is one.

Two timers, intervals of one and two ticks, timers at most one tick late (`MaxLate`): every
order of expirations, and an expiration at each statement of a setting. `MaxPosts` bounds
the events of others: a process that filled the queue for ever would starve every timer,
the code retries at each poll. `MaxAgain` likewise bounds how often a timer is set while the event
of its last expiration waits: if that had no end, such events could keep the queue full and
another timer out of it for ever. `next_expiration` of an empty list is 0, of a time that has
gone by; which of the two the clock then sees is left open.
The time of a timer that is on no list and in no event is not kept (`Unused`).

`CtimerTurns` has the LED's timer set between two turns of the main loop (`Preempt`).
`SetIsWaitedFor`: a timer that is set is waited for, or its event is on the way;
`ExpiredIsCalled`: the callback of an expired timer is called, or the timer is stopped or set
again, also when the queue was full at the expiration. That a callback never comes early is not
among them: the event of an earlier expiration is taken for that of the new one
(`ctimer.c:77`), the timer leaves the list before its time, and both properties are checked with
that happening.

Fairness: strong for the main loop, which interrupts leave time again and again; weak for
the interrupt's own statements and for the clock.

## 8. Commands: `RemoteShell`

A command line is a list of ids and a word. `sendcmd` (and `sendp2pcmd`, with ids) broadcasts
it if `shell_sky_is_remote_cmd` accepts it; `remote_shell_input(n, f)` is node `n` hearing
the frame, comparing the list (`Read`: the digits of an id overwrite those of the one before)
and posting the rest of the line; `remote_shell_process(n)` is the shell that takes the event.
Frames may be lost; a node may hear a command before its shell has taken the event of the last.

Two things keep this module from promising much. The post may fail, as nobody asks whether the
queue had room (`remote-shell.c:131`). And the event points into the stack frame of
`remote_shell_input`, which has returned: interrupts, other calls and the `printf` of
`remote-shell.c:85` reuse that memory before the shell reads it. `OnStack` is what the shell may then
find: what `remote_shell_input` left there last, or anything else (`Nothing`). A command that
is heard may therefore be run, garbled, replaced by the next one, or not run at all, and no property
of a command once it is posted is stated.

What can be asked is whether a command that does run was sent to the node that runs it. `RemoteIds`
shows that it need not be: with `12 3 blink` the first id leaves its second digit in `id`, so that
node 32 runs a command that is for the nodes 12 and 3, and node 3 ignores it
(`remote-shell.c:117-124`). One command with up to two ids and the nodes 3, 12 and 32 are enough.
Ids are below 100.

## 9. The sensor bus: `Mpu6050`

`Write` and `ReadBurst` begin a register access of `mpu-6050.c`, which is the list of its calls
of `i2c.c` (`write_mpu_reg`, `read_mpu_reg_burst`); `call` is that list and the place in it. A
routine of `i2c.c` is the list of its lines (`i2c_start`, ...); `frame` has the line, the loop
counter, `c` and the result. A line changes SDA or SCL (`SetSda`, `ShiftOut`, `SendAck`,
`SetScl`), waits for the clock (`ClockIsHigh`, `GiveUp`), reads SDA (`ShiftIn`, `GetAck`), or
returns (`Returns`): the caller goes on to its next call, or to its `i2c_stop` when `i2c_write` has
returned 0. A byte is a number, and what shifts it is arithmetic (`FirstBit`, `ShiftedOut`,
`ShiftedIn`). A line of the bus is low when either side pulls it. The sensor is external: it
follows the bus protocol by the edges it sees
(start, stop, address, register pointer, data, acknowledge), may hold the clock (`Hold`,
`LetGo`), and may be missing. `GiveUp` needs a sensor that holds the clock longer than
`Limit` polls; with `Limit` 1000 and a counter whose largest value `Top` is 255 the waits
that count a `uint8_t` have none.

A byte has 2 bits instead of 8 and the sensor 2 registers; section 12 has the proofs for every
number of both. Two calls let one leave the bus to another.

`MpuCalls` has a sensor that answers promptly, holds the clock longer than `Limit` polls, or
is missing. Every call returns (`CallsReturn`), also when a wait was given up. As long as none
was (`gave`): `CallsWork`: a call that returns 1 has written or read what it says, and
no acknowledge is reported that nobody gave; `OnlyRegisterWritten`; `BusLeftFree`, also
after a failure. No call begins after one in which a wait was given up: the bus is
in a state from which nothing can be promised.

Fairness: weak for the processor; strong for the end of a wait while the clock is high again
and again; weak for the sensor's letting go, unless `Stretch` is "forever".

## 10. The host: `UsbReader`

`app_recv` prints a packet as two start bytes, sensor, counter, sequence number, length, the
payload, two newlines (`Shown`); after the command `printm 0` without the payload, but with its length
(`MPU6050_example.c:93`), which the reader never accepts. The counter skips the value 10, which is a newline
(`Counter`); nothing keeps the other header bytes from being one. `readUSB(n)` is one turn of
the reader's loop with the `n` bytes the operating system has for it: split at double
newlines, complete or join pieces, check start bytes and length, write a record. `running` is
FALSE when the program has stopped with an index out of range. How the reader groups the
payload into samples is left out. `MaxRecords` is at most 254, so that the counter does not
begin again.

The run `UsbReader` has sensor 10, the sequence numbers 0 and 10, payloads of up to two bytes (a
number, a newline, a start byte), two records, and a reader that gets any part of what there
is. A record is `Cut` when two newlines follow each other before the two that end it.
`WrittenWereSent`: what is in the file was sent, in that order and at most once, also when the
reader is late, if no record is cut. `AllWritten`: each record that is printed with its payload gets into the file, if none is
cut, none has a newline for its last byte and none was printed before the last was read
(`behind`): of what it gets at once the reader looks at the last piece alone.

Fairness: weak for the reader's loop.

## 11. What the code does not keep

Each row is a statement that TLC refutes with the change named, of the configuration or of
the property's condition. `TdmaStranded` and `RemoteIds` do so as they are.

| property, change | what happens, and where | against |
|---|---|---|
| `NotStranded` in `TdmaStranded` | section 3; `tdmardc.c:348` | `tdmardc.h:64` limits the sleep |
| `SleepsWithoutBeacons`, `FairSpec` of `TdmaPower` | the listen timer is stopped by the first frame and never started by the wake-up: a sensor that has heard one frame listens for ever when the base station disappears; `tdmardc.c:349` | `tdmardc.c:236` |
| `TasksOnTime`, `TdmaLone` with `ShellNodes = {0}` | `timeslot` at the base station sets a pending task again, which runs at the time of the old one; `rtimer.c:87` | `rtimer.h:98` |
| `CommandIsSent`, `TdmaPower` with `WithCommands = TRUE` | a frame received between `sendcmd` and the next broadcast overwrites the command; `cc2420.c:655` | `shell-sky.c:96` |
| `FramesIntact` in `AppConnTurns` | a full ring is copied behind the header of the received frame, while the new header ends at the start of the data region: old bytes first, the newest readings lost; `app_conn.c:167` | `app_conn.h:44` |
| `RingInv`, `Preempt = TRUE` | a slot inside a call takes the lock over and clears the ring; between the test and the computation of `temp_len`, `data_len - temp_len` wraps around and the call copies behind the ring; `app_conn.c:72` | `app_conn.c:71` |
| `DeferredDone` without `~met.release` | a slot in `RELEASE_LOCK`, behind the test of its flag: the request stays put off; `cc2420.c:240` | `cc2420.c:503` |
| `Honoured` without `met.slots = 0` | the two flags do not know which came last, `cc2420_off` returns early when the radio is off already: a sensor's radio stays on after its slot; `cc2420.c:499` | `radio.h:90` |
| `HandsOverFrames` without `~met.queue` | two frames wait, the first is given the time of the second, its sensor counts its slot from the wrong time; `cc2420.c:633` | `cc2420-arch-sfd.c:42` |
| `HandsOverFrames` without `met.slots = 0` | a slot in `cc2420_read` flushes the FIFO or ends the transfer: what is handed over is no frame; `cc2420.c:695` | `radio.h:74` |
| `PutKeeps`, `SlotPrints = "always"` | a slot that prints inside the main loop's `ringbuf_put` overwrites a byte that was accepted; `ringbuf.c:67` | `ringbuf.h:98` |
| `CallsReturn`, `SlotPrints = "always"` | a slot that prints when the ring is full waits for the transmit interrupt, which waits for it; `uart1.c:118` | `uart1.c:115` |
| `OnlyWritten` in `Uart1Turns` | the transmit interrupt between `ringbuf_put` and the test of `transmitting` empties the ring; 0xFF goes out; `uart1.c:122` | `uart1.c:120` |
| `SetIsWaitedFor`, `Preempt = "anywhere"` | the interrupt sets the LED's timer in the middle of `add_timer`: it is on one list only and never expires; `etimer.c:170` | `ctimer.h:110` |
| `LinesInOrder` without its condition | room for the line and none for the CONTINUE: the process does not wait and fills the buffer before the shell has read it; `serial-line.c:120` | `serial-line.c:119` |
| `LinesInOrder`, `Paced = FALSE` | at 115200 baud 180 bytes can arrive in the 1/64 s between two readings of a ring of 128: a line made of two; `uart1.c:81` | `serial-line.c:72` |
| `ListedRun` without `~cut` | a process ended in the middle of a call of its own runs on, off the list; `process.c:197` | `process.h:385` |
| `RunsWhereSent` in `RemoteIds` | section 8; `remote-shell.c:117` | `shell-sky.c:106` |
| `CallsReturn`, `Stretch = "forever"` | the bounded wait counts to 1000 in a `uint8_t`; `i2c.c:149` | `i2c.c:88` |
| `CallsWork` without `~gave` | `i2c_write` that gives up returns what an acknowledge returns; `i2c.c:204` | `i2c.c:185` |
| `OnlyRegisterWritten` without `~gave` | after it the next byte is out of step, and the value may go to another register; `i2c.c:204` | |
| `WrittenWereSent` without its condition | two newlines cut a record, its first piece is joined to one of the next and has the right length; `readUSB_MPU6050_BS.py:147` | its line 146 |
| `WrittenWereSent` with the condition of the payload alone, a payload of 10 bytes | the length is a newline; a payload that begins with one cuts the record there, and what follows is taken for a record of its own if it looks like one; `MPU6050_example.c:89` | its line 84, which takes care of the counter |
| `AllWritten` without the newlines | the joined pieces lack the separator and have the wrong length for ever; `readUSB_MPU6050_BS.py:119` | its line 118 |

`timeslot` at the base station, again and again, was not checked together with the rest: a
task set again keeps the time of the first setting (`Rtimer`'s `rtimer_set`).

## 12. Proofs

`TdmaRdc_proofs` proves, for any number of sensors, any slot layout and any clock:

| theorem | property |
|---|---|
| `TypeCorrect` | `TypeOK` |
| `ScheduleCorrect` | `ScheduleInv` |
| `ExclusiveSlots` | `NoOverlap` |
| `SpacedBeacons` | `BeaconSpacing` |
| `WakesInTime` | `WakesBeforeBeacon` |
| `SensorsOnTime` | `SensorTasksOnTime` |
| `RadioStaysOff` | `RadioOffBetween` |
| `LoneComesBack` | `NotStranded`, when there is one sensor |

Assumptions (`TimingAssumption`): the base station's frame is sent and processed
before the first slot begins; a send fits into a slot; the last slot ends before the
wake-up; two segments fit into a turn of the clock; the slots given to sensors
exist; `timeslot` is not run on the base station. The first four hold for the
numbers of `tdmardc.h`; the last two are up to the operator, as the code checks
neither (`tdmardc.c:103` can never be true).

Argument: `NoOverlap` is not inductive; nothing in it says when anybody sends. The
invariant `ScheduleInv` ties everything to the start of the base station's last
frame (`since`): a booked send is `SlotStart(due)` after it, a booked wake-up
`WakeTime` after it, a send in progress is as old as that implies, an unread frame
of the base station is as old as `since`, and while the base station sends nobody
has anything booked. The base station's next task is at least `SEGMENT_PERIOD`
after it. A step of time moves all of them together (`TickStep`). The beacon can
start only when `since` has reached `SEGMENT_PERIOD`, by which every sensor is done
(`SensorOffsets`), so the new frame may redefine `since` (`BaseSendStep`). Two sends
at once have the same `since`, and `SlotsApart` makes their slots equal.

`RadioStaysOff` needs more about the radio than `ScheduleInv` says: `QuietInv` adds, for
every sensor whose shell does not change its slot, that without power it has nothing under
way (`PoweredInv`), that its next task is the send or the wake-up of its own slot
(`BookedInv`), and the claim itself. A new slot decides how long the radio is off, so the
claim is made of the others only.

`LoneComesBack` needs none of these assumptions: whatever the numbers, the slot and the
losses are. `LoneInv` says what a sensor with its radio off has left to bring it back, a task,
a timer or a frame of the base station that waits (`ComesBack`), and that what a single sensor
hears comes from the base station (`HearsBase`); a frame of anybody else is what stops the
sleep timer in `TdmaStranded`.

Under all of them lie the lemmas about the timer: a task set on an idle timer for a time
within one turn of the clock has `time` = `match` = that time (`SetIdle`, `TaskSetsNext`), and
they stay equal as time passes (`ElapseInStep`).

`Sampling_proofs` proves, for every size of ring, header and packet buffer and every
length of data, under `~Preempt`:

| theorem | property |
|---|---|
| `RingTypeCorrect` | `TypeOK` |
| `RingCorrect` | `RingInv` |
| `Latest` | `TakesLatest`, the refinement of `LatestBytes` |
| `FramesFit` | `FramingSucceeds` |
| `ShortFramesSent` | `ShortFramesIntact` |

Assumptions (`PacketBufAssumption`, `AppConnAssumption`): the ring has at most 255 bytes
and fits beside a header into the data region, and an application hands over no more
than fits into the ring. `~Preempt` is a real restriction, see section 11.

Argument: what the ring holds between calls (`Holds(buf_ptr, full, accepted)`) breaks
inside a call, where bytes have been copied that `buf_ptr` does not count yet. `RingInv`
therefore states, for each stage of the call, up to which byte the ring is filled: during a
copy the write position is `dst` and the byte number `accepted + copied`. One byte keeps it
(`HoldsCopy`), reaching the end turns it into a full ring that starts at 0 (`HoldsWrap`),
and 8- and 16-bit arithmetic loses nothing (`Narrow`, `TailLength`). From it follows what
the slot copies (`ContentsLatest`), which is the refinement. `FramesFit` needs one fact
more, `HeaderFree`: the frame that books the slot has also freed the header the last send
left allocated. The lemmas about `PacketBuf` state what each operation does to the positions,
and that copy, `create` and the receiver's skip give back the bytes (`OnAir`).

`Serial_proofs` proves of `Uart1`, for every size of the ring and any number of bytes, when calls do not
interrupt each other (`SlotPrints # "always"`; with "always" they fail, see section 11):

| theorem | property |
|---|---|
| `PortInvariant` | `PortInv` |
| `PortImplementsSteps` | every step is a step of `ByteStream` or a stutter (`Stream!Steps`, the part of `SendsInOrder` without fairness) |

Argument: that the ring holds the last bytes accepted (`InRing`) says nothing about the byte
that has left it. `OnItsWay` adds where that one is (in a call's `c`, in the transmit
register, or gone), and `HandShake` who has to send the next: the transmit interrupt, which is
then due, or the one call that has found the port at rest. `Numbers` ties a call's byte to the
count. The wrong byte of `OnlyWritten` is part of the invariant as `Garbage`: it goes out
between two bytes and takes the place of none.

Of `SerialLine` it proves `LinesArrive`: `LinesInOrder`, for rings, a line buffer and a queue of
events of any size and any number and length of lines, when the port is read in time (`Paced`;
section 11 shows why). Argument: a position is a line and a place in it. `LineInv` says which
position everybody is at who hands the characters on. Each character the DMA has put down takes
the stream from one position to the next (`Port`), and those in the ring follow one another
likewise (`Ring`), except that an end of line may be that of a later line: after an overflow
nothing but an end of line gets in. So what the assembler reads next is either the character
after the one it has read or the end of some later line, and the buffer holds the beginning of
the assembler's line, or of the line that the shell is being told (`Assembles`). While that one
waits, its event is in front of the only CONTINUE in the queue (`Told`), so the buffer is not
written before the shell has read it. The lines given before are earlier ones (`Earlier`).

`Process_proofs` proves, for any number of processes, places in the queue and calls inside
calls:

| theorem | property |
|---|---|
| `QueueInOrder` | `InOrder`, the refinement of `EventQueue` |
| `RunningAreListed` | `ListedRun` |
| `BroadcastReaches` | `BroadcastReachesAll` |
| `SleepsWhenIdle` | `SleepsIdle` |

Argument for the queue: the invariant `QueueOK` is little (positions and counts in range), the
work is the arithmetic of the ring: posting appends one element to what waits (`PostStep`),
taking one removes the first (`TakeStep`), and all else leaves it alone.

Argument for the others: the kernel's calls nest, and each of the statements that are left to
execute relies on something. `KernelInv` says what: who is on the list without running is about
to be unlinked, once, and before that nothing is left that its thread was called for (`Members`);
who was polled and not called is still in front of the walk over the polls, or the request is still
noted (`Polls`); who has not seen the broadcast is still in front of the walk that delivers it
(`Dues`); the main loop sleeps only when nothing of all this is left (`Rests`). `Shape` says in
which order the statements that are left come. `Polls` and `Dues` speak of processes on the list
alone, so that they survive a walk that strays. What does not survive the ending of a process in a
call of its own is assumed under `~cut`: a process is called just when one statement has to go
on with its thread (`Threads`), who runs is on the list (`Leaves`), and the walk over the polls
stands at a process that is on the list, or has just left it and whose link leads back to it
(`Walks`). That a process reaches another one along the links is not a recursive definition but a
closure (`Reach`: what is in every set that the walk enters and the links do not leave), so that no induction is
needed: `LinkedList` proves from it what prepending and unlinking do to who is reached from where.

`Ctimer_proofs` proves, for any number of timers and events, any lateness and any interval:

| theorem | property |
|---|---|
| `WaitedFor` | `SetIsWaitedFor` |

It assumes `Preempt = "between"`; without it the property fails, see section 11. A timer may be set
again while its event waits, any number of times. Argument: one context at a time has
statements left. `CtimerInv` says which lists of statements that can be (`Shape`) and what each statement may count on: a timer
that is being added is on no list yet (`Adding`), one that is being stopped leaves one list
before the other (`Stopping`), the walk of the event timers stands at one that is on the list
and knows the one in front of it, and takes it off only when its event is in the queue
(`Walking`), and a timer that is set is waited for, or its event is on the way, or it is the one
that is just leaving (`Waited`). The lists are those of `LinkedList`.

`BaseStation_proofs` proves `FileIsOfSent`: `WrittenWereSent`, for packets of any bytes, up to
255 in each, and up to 254 of them (`UsbReaderAssumption`). `UsbInv` says of the bytes the reader
has kept and those still on their way, as one sequence, that they are perhaps a newline that
was left of the last record and then whole records from some packet on (`Stream`), and that the
file holds packets before that one only (`Before`). A read moves bytes from one part to the other and
leaves the sequence as it is. Python counts the newlines in front of a place in pairs
(`NewlinesAre`), but in front of the separator of a record that is not cut there is none, so
the separators are the ends of the records that have arrived whole and nothing else
(`SeparatorsAre`): at the last two bytes, or one earlier when the payload ends in a newline. The
piece before the last of them is therefore one record (`LatestIs`), without its last byte in the
second case, when the length does not fit; what is written is the packet (`LineIs`), and
what is kept is such a sequence again (`StreamGoesOn`).

`Cc2420_proofs` proves, for any number of frames, any room in the FIFO and any number of slots
that meet something:

| theorem | property |
|---|---|
| `LockGivenBack` | `LockBalanced` |
| `RequestsSeenTo` | `DeferredDone` |
| `FramesNoticed` | `Noticed` |
| `RadioHonoured` | `Honoured` |
| `ReceivedHandedOver` | `HandsOverFrames` |

Argument for the lock: the statements a context has still to execute are a walk through the points at
which it can stand towards the lock: `free`, `held`, in front of the test of each flag
(`on?`, `off?`), in the request a flag asks for (`on`, `off`), and about to give the lock
back (`rest`). A statement leads from one point to the next, a call puts a walk from a point
to itself in front (`Path`, `PathHead`, `PathJoin`). So a list of statements, however
long, comes down to the point where it begins. `LockInv` then says that `locked` counts the
contexts whose point is not `free`, which flags one of them may have left behind at each point
(`Sound`), and what still looks at the FIFO (`Notice`).

Argument for the radio and the frames: the point of the lock does not say how far a context
has got in `on()`, `off()` or `cc2420_read`. A way (`Way`) is a walk through places, a point
with such a stage, so that the list of statements again comes down to the place where it
begins; what each statement does to its context's place is `Moved`. `RadioInv` says what holds
when the main loop stands at one place and the interrupt at another (`Standing`):

- `Radio`, as long as no slot has come in `RELEASE_LOCK` behind the test of its flag: at each
  stage the receiver does what `receive_on` says, or has been told to, or a request to turn it
  on waits that will repeat the strobe which has failed (`Agrees`). While a slot is under way
  that has interrupted the main loop (`Met`), it has not come to its requests yet, or has left
  the one for on behind, or the radio is on and only a request for off can follow. That `on()`
  is under way only when `receive_on` is false (`Needed`) is what makes a slot in the middle of
  it ask for on again.
- `Wanted`, as long as no slot has met anything: no request waits, and what the stage leads to,
  or `receive_on`, is what was asked for last (`Asked`).
- `Given`, with no frame waiting when another begins besides: there is at most one frame in the
  FIFO, and either its interrupt is pending, or the poll, or `cc2420_read` has come to a known
  stage with it (`Waits`); the time the driver has is always that of the frame it will take next
  (`Begun`, `Taken`); what is handed over is whole (`Handed`). This needs that the receiver is
  on only when its interrupt is enabled, except at the end of a slot (`Armed`), when no frame
  can have begun.

Of `Mpu6050`, `Sampling_proofs` proves, for every width of a byte, number of registers, address,
number of calls and bounds of the waits, whether or not the sensor is there and however long it
holds the clock:

| theorem | property |
|---|---|
| `MpuCallsWork` | `CallsWork` |
| `MpuBusLeftFree` | `BusLeftFree` |
| `MpuOnlyWritten` | `OnlyRegisterWritten` |

Assumptions (`MpuAssumption`): the address and the one after it are bytes, and there is a register at
most for each byte. Argument: the properties speak of the ends of calls, and what makes them true
is what the processor and the sensor think of each other at every edge of the clock. `MpuInv` says,
for each line of each routine of `i2c.c` and each place in the call, what the two lines are and
in which state of the protocol the sensor is (`AtStart`, `AtWrite`, `AtRead`, `AtStop`, `AtRest`):
that SDA changes where the sensor cannot take it for a start or a stop follows from it. One hazard
shows in `AtStart`: the clock rises before the second start of a burst, and the sensor takes
that edge for a bit, but the start that follows makes it forget the bit. In the middle of
a byte it is shared between two shift registers, and the invariant is an equation: after `k` bits
`data * 2^Bits + c = b * 2^k`, where `c` is what `i2c_write` has left of the byte `b` and `data` what
the sensor has of it (`Come`); likewise the other way round in `i2c_read` (`Sends`, `Midway`). A
shift keeps it (`ComeStep` and the lemmas beside it), and after `Bits` of them `data = b`.
`Got` says that what is in the buffer is what the registers have, and the sensor's pointer
follows the length of the buffer (`Due`). For each line there is one lemma that says what it leads to
(`Start1` to `Stop5`, by the number of the line), and for each routine two for the sensor that holds the
clock and lets it go (`LowWrite`, `HighWrite` and the like). All that is said as long as no wait was
given up; `MpuTypes`, the rest, holds always.

Only model-checked: liveness. Every invariant and every other action property of the passing runs
has a theorem. Liveness under fairness and ENABLED are out of the proof system's reach.

## 13. Not modelled

- *Contiki's own code that is no part of a SnowFort image*: uIP and its IPv6, Rime and its
  protocols, the other MAC layers, Coffee, the ports to other CPUs and platforms, the
  simulator cooja, tools. It is more than nine tenths of the tree (388000 lines in 2091
  files); SnowFort's own code and the parts of Contiki under it are a few thousand
  lines. For that reason the lines that the models stand for are a small share of the tree.
- `core/net/mac/ctdma_mac.c`, a predecessor of `tdmardc.c` that nothing uses.
- *Of the components marked "partly"* in `PROJECT.json`: in the TDMA layer, addresses,
  sequence numbers and contents; of `app_conn.c`, the callback for received data, which is
  stored and called; header fields and their parsing; radio settings; energy accounting, the
  watchdog and the choice of the sleep mode; the shell's pipelines and its commands
  that print or set one value; the ADC and the ADXL-335, which are read without state between
  calls; the example applications at a sensor, which sample by a timer and call
  `app_conn_send`, of which `AppConn` assumes nothing but the length; the host readers of
  `hello_world`, which print line by line.
- *Composition*: the modules of sections 5 to 10 are not composed with the network of
  section 3. What `TdmaRdc` takes from them (a frame is handed over with the time it began, a
  timer's callback runs when it has expired) is what `HandsOverFrames`
  and `ExpiredIsCalled` say, where they hold. That a callback may also come early, when a
  timer was set again while its event waited, is in `Ctimer` only.
