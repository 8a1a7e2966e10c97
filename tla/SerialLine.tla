----------------------------- MODULE SerialLine -----------------------------
(***************************************************************************)
(* From the bytes that arrive at the serial port to the lines the shell    *)
(* gets: uart1.c's ring, filled by DMA and read by a timer, the ring of    *)
(* core/dev/serial-line.c, and the process that assembles a line in one    *)
(* buffer and broadcasts the buffer.  All but the DMA is the main loop's.  *)
(*                                                                         *)
(* A character is known by its line and its place there.                   *)
(***************************************************************************)
EXTENDS Naturals, Sequences, TLC

CONSTANTS
  RXBUFSIZE,  \* of uart1.c
  BUFSIZE,    \* of serial-line.c
  NumEvents,  \* room in the queue of events
  MaxLines, MaxLength,   \* bound: lines that are sent and their length
  Paced       \* the timer reads before the DMA has gone round

ASSUME SerialLineAssumption ==
  /\ {RXBUFSIZE, BUFSIZE, NumEvents} \subseteq Nat \ {0, 1}
  /\ MaxLines \in Nat \ {0} /\ MaxLength \in Nat
  /\ Paced \in BOOLEAN

VARIABLES
  line, place,       \* the next character to arrive
  dmabuf, DMA, last, \* uart1.c's ring, where the DMA and the reader are
  left,              \* bytes handle_rxdma_timer has still to read
  ring, overflow,    \* of serial-line.c
  polled,            \* serial_line_process is
  thread, buf, ptr,  \* of serial_line_process
  queue,             \* the events that wait
  refused,           \* what did not fit into it: "line", or "continue" alone
  got                \* the lines the shell has been given

port == <<line, place, dmabuf, DMA>>
reader == <<last, left, ring, overflow, polled>>
assembler == <<thread, buf, ptr>>
lineVars == <<port, reader, assembler, queue, refused, got>>

Char == (1 .. MaxLines) \X (1 .. MaxLength)
END == <<0, 0>>
CR == <<0, 1>>
NUL == <<0, 2>>

LineInit ==
  /\ line = 1 /\ place = 1 /\ DMA = 0 /\ last = 0 /\ left = 0
  /\ dmabuf = [k \in 0 .. RXBUFSIZE - 1 |-> NUL]
  /\ ring = << >> /\ overflow = FALSE /\ polled = FALSE
  /\ thread = "yield" /\ ptr = 0 /\ buf = [k \in 0 .. BUFSIZE - 1 |-> NUL]
  /\ queue = << >> /\ refused = {} /\ got = << >>

(***************************************************************************)
(* The port.  The DMA never waits.                                         *)
(***************************************************************************)
Round(k) == (k + 1) % RXBUFSIZE

Arrive(c) ==
  /\ line <= MaxLines
  /\ Paced => Round(DMA) # last
  /\ dmabuf' = [dmabuf EXCEPT ![DMA] = c]
  /\ DMA' = Round(DMA)
  /\ UNCHANGED <<reader, assembler, queue, refused, got>>

Letter ==
  /\ place <= MaxLength
  /\ Arrive(<<line, place>>)
  /\ place' = place + 1
  /\ UNCHANGED line

Return == Arrive(CR) /\ UNCHANGED <<line, place>>

Newline == Arrive(END) /\ line' = line + 1 /\ place' = 1

(***************************************************************************)
(* serial_line_input_byte.  A ring of BUFSIZE holds one character less.    *)
(***************************************************************************)
Fits == Len(ring) < BUFSIZE - 1

\* Mutant: the rest of a line that lost a character is not ignored.
TakenWhenFits(c) == Fits

Taken(c) == Fits /\ (overflow => c = END)

serial_line_input_byte(c) ==
  IF c = CR
  THEN UNCHANGED <<ring, overflow, polled>>
  ELSE /\ ring' = IF Taken(c) THEN Append(ring, c) ELSE ring
       /\ overflow' = IF overflow THEN ~Taken(c) ELSE ~Fits
       /\ polled' = TRUE

(***************************************************************************)
(* handle_rxdma_timer: how far the DMA is is asked for once.               *)
(***************************************************************************)
Free == thread # "run" /\ left = 0

RxTimer ==
  /\ Free
  /\ left' = (DMA + RXBUFSIZE - last) % RXBUFSIZE
  /\ left' > 0
  /\ UNCHANGED <<port, last, ring, overflow, polled, assembler, queue, refused,
                 got>>

RxByte ==
  /\ left > 0
  /\ serial_line_input_byte(dmabuf[last])
  /\ left' = left - 1
  /\ last' = Round(last)
  /\ UNCHANGED <<port, assembler, queue, refused, got>>

(***************************************************************************)
(* serial_line_process, one character a step until it gives way.           *)
(***************************************************************************)
Empty ==
  /\ thread = "run" /\ ring = << >>
  /\ thread' = "yield"
  /\ UNCHANGED <<port, reader, buf, ptr, queue, refused, got>>

Fill ==
  /\ thread = "run" /\ ring # << >> /\ Head(ring) # END
  /\ IF ptr < BUFSIZE - 1
     THEN buf' = [buf EXCEPT ![ptr] = Head(ring)] /\ ptr' = ptr + 1
     ELSE UNCHANGED <<buf, ptr>>
  /\ ring' = Tail(ring)
  /\ UNCHANGED <<port, last, left, overflow, polled, thread, queue, refused,
                 got>>

Posted(q, ev) == IF Len(q) < NumEvents THEN Append(q, ev) ELSE q

Terminate ==
  LET told == Posted(queue, "line")
      asked == Posted(told, "continue")
  IN  /\ thread = "run" /\ ring # << >> /\ Head(ring) = END
      /\ buf' = [buf EXCEPT ![ptr] = NUL]
      /\ queue' = asked
      /\ IF asked # told
         THEN thread' = "wait" /\ ptr' = ptr + 1
         ELSE UNCHANGED thread /\ ptr' = 0
      /\ ring' = Tail(ring)
      /\ refused' = refused \cup {ev \in {"line", "continue"} :
                                  IF ev = "line" THEN told = queue
                                  ELSE told # queue /\ asked = told}
      /\ UNCHANGED <<port, last, left, overflow, polled, got>>

(***************************************************************************)
(* The main loop: polls first, then one event.  The shell is called before *)
(* serial_line_process, which was started earlier.                         *)
(***************************************************************************)
Poll ==
  /\ Free /\ polled
  /\ polled' = FALSE
  /\ thread' = IF thread = "yield" THEN "run" ELSE thread
  /\ UNCHANGED <<port, last, left, ring, overflow, buf, ptr, queue, refused,
                 got>>

Text(b) ==
  LET n == CHOOSE k \in DOMAIN b :
             b[k] = NUL /\ \A j \in 0 .. k - 1 : b[j] # NUL
  IN  [k \in 1 .. n |-> b[k - 1]]

TakeEvent(ev) ==
  /\ Free /\ ~polled /\ queue # << >> /\ Head(queue) = ev
  /\ queue' = Tail(queue)
  /\ UNCHANGED <<port, reader, buf, refused>>

LineEvent ==
  /\ TakeEvent("line")
  /\ got' = Append(got, Text(buf))
  /\ thread' = IF thread = "yield" THEN "run" ELSE thread
  /\ UNCHANGED ptr

\* Mutant: after CONTINUE it waits for a poll.
ContinueYields ==
  /\ TakeEvent("continue")
  /\ IF thread = "wait"
     THEN thread' = "yield" /\ ptr' = 0
     ELSE UNCHANGED <<thread, ptr>>
  /\ UNCHANGED got

ContinueEvent ==
  /\ TakeEvent("continue")
  /\ IF thread = "wait"
     THEN thread' = "run" /\ ptr' = 0
     ELSE UNCHANGED <<thread, ptr>>
  /\ UNCHANGED got

OtherEvent == TakeEvent("other") /\ UNCHANGED <<thread, ptr, got>>

OtherPosts ==
  /\ Free /\ Len(queue) < NumEvents
  /\ queue' = Append(queue, "other")
  /\ UNCHANGED <<port, reader, assembler, refused, got>>

Assemble == Empty \/ Fill \/ Terminate

Events == LineEvent \/ ContinueEvent \/ OtherEvent

LineNext ==
  \/ Letter \/ Return \/ Newline
  \/ RxTimer \/ RxByte
  \/ Poll \/ Events \/ Assemble
  \/ OtherPosts

\* A call returns, and process_run looks for polls and takes an event each time
\* round: between two readings of the port too, which are 1/64 s apart.
\* Nothing is asked of whoever types, nor of the other processes.
LineFairness ==
  WF_lineVars(RxByte \/ Assemble) /\ SF_lineVars(RxTimer) /\ SF_lineVars(Poll)
    /\ SF_lineVars(Events)

LineSpec == LineInit /\ [][LineNext]_lineVars /\ LineFairness

(***************************************************************************)
(* Properties.                                                             *)
(***************************************************************************)
LineTypeOK ==
  /\ line \in 1 .. MaxLines + 1 /\ place \in 1 .. MaxLength + 1
  /\ dmabuf \in [0 .. RXBUFSIZE - 1 -> Char \cup {END, CR, NUL}]
  /\ {DMA, last, left} \subseteq 0 .. RXBUFSIZE - 1
  /\ ring \in Seq(Char \cup {END}) /\ Len(ring) < BUFSIZE
  /\ {overflow, polled} \subseteq BOOLEAN
  /\ thread \in {"yield", "run", "wait"}
  /\ buf \in [0 .. BUFSIZE - 1 -> Char \cup {NUL}] /\ ptr \in 0 .. BUFSIZE
  /\ queue \in Seq({"line", "continue", "other"}) /\ Len(queue) <= NumEvents
  /\ refused \subseteq {"line", "continue"}
  /\ got \in Seq(Seq(Char))

\* Every line the shell is given is the beginning of one line that was sent,
\* never the pieces of two, and the lines come in the order they were sent:
\* the rings overflow and recover between lines (serial-line.c:60-86), and the
\* buffer is not filled again before the shell has read it: what
\* serial-line.c:119 says of waiting for all the processes.  It is, when the
\* queue takes a line and has no room for its CONTINUE (serial-line.c:121).
StartsOf(txt) == \A k \in DOMAIN txt : txt[k] = <<txt[1][1], k>>

LinesInOrder ==
  /\ LineTypeOK
  /\ "continue" \notin refused =>
       /\ \A n \in DOMAIN got : StartsOf(got[n])
       /\ \A m, n \in DOMAIN got : m < n /\ << >> \notin {got[m], got[n]} =>
            got[m][1][1] < got[n][1][1]

\* Every end of line that gets into the ring becomes a line for the shell: no
\* poll and no CONTINUE is lost (serial-line.c:98-129).  When the queue of
\* events has refused one of the two (process.c:336) the line may be lost, but
\* the process does not wait for a CONTINUE that never comes: it comes back to
\* an empty ring.
Ends == Len(SelectSeq(ring, LAMBDA c : c = END))

EndIsDelivered ==
  \A n \in 1 .. MaxLines :
    Len(got) + Ends >= n ~> Len(got) >= n \/ (refused # {} /\ ring = << >>)

=============================================================================
