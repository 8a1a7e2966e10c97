----------------------------- MODULE UsbReader -----------------------------
(***************************************************************************)
(* From the base station's serial port to the file of the host: app_recv   *)
(* of MPU6050_example.c prints each packet it gets as a record of bytes    *)
(* that ends in two newlines, readUSB_MPU6050_BS.py takes the stream apart *)
(* again.  The operating system buffers the bytes between them.            *)
(***************************************************************************)
EXTENDS Naturals, Sequences, SequencesExt, FiniteSetsExt

CONSTANTS
  Senders, Seqs, \* their addresses and the sequence numbers of the packets
  PayloadBytes,
  MaxPayload,    \* bound: their number in a packet
  MaxRecords     \* bound: the counter does not begin again

NL == 10
START == <<126, 126>>

ASSUME UsbReaderAssumption ==
  /\ Senders \cup Seqs \cup PayloadBytes \subseteq 0 .. 255
  /\ MaxPayload \in 0 .. 255 /\ MaxRecords \in 0 .. 254

VARIABLES
  printed,        \* the packets the base station has printed
  behind,         \* one was printed before the reader had read all of the last
  wire,           \* bytes on their way
  buffer_string, current_line, line_is_break,   \* of the reader
  running,        \* it has not stopped at an index out of range
  written         \* what it has written to the file

reader == <<buffer_string, current_line, line_is_break, running, written>>
usbVars == <<printed, behind, wire, reader>>

UsbInit ==
  /\ printed = << >> /\ wire = << >> /\ behind = FALSE
  /\ buffer_string = << >> /\ current_line = << >>
  /\ line_is_break = FALSE /\ running = TRUE
  /\ written = << >>

(***************************************************************************)
(* The base station.                                                       *)
(***************************************************************************)
Counter(n) == IF n < NL THEN n ELSE n + 1   \* it skips the newline

Shown(r) ==
  START \o <<r.sn, r.counter, r.seq, r.size>> \o r.payload

\* The command printm turns the payload off, but not its length.
app_recv(sn, seq, payload, print_MPU) ==
  LET r == [sn |-> sn, counter |-> Counter(Len(printed) + 1), seq |-> seq,
            size |-> Len(payload),
            payload |-> IF print_MPU # 0 THEN payload ELSE << >>]
  IN  /\ Len(printed) < MaxRecords
      /\ behind' = (behind \/ wire # << >>)
      /\ printed' = Append(printed, r)
      /\ wire' = wire \o Shown(r) \o <<NL, NL>>
      /\ UNCHANGED reader

(***************************************************************************)
(* The reader.  Python's split takes separators from the left and none that *)
(* overlap: a run of newlines is cut into pairs.                           *)
(***************************************************************************)
NewlinesBefore(bytes, k) ==
  k - 1 - Max({0} \cup {j \in 1 .. k - 1 : bytes[j] # NL})

Separators(bytes) ==
  {k \in 1 .. Len(bytes) - 1 : /\ bytes[k] = NL /\ bytes[k + 1] = NL
                              /\ NewlinesBefore(bytes, k) % 2 = 0}

\* lines[-2], which is between the last two separators
Latest(bytes, ends) ==
  SubSeq(bytes, Max({k + 2 : k \in ends \ {Max(ends)}} \cup {1}),
         Max(ends) - 1)

\* lines[-1]
Rest(bytes, ends) == SubSeq(bytes, Max(ends) + 2, Len(bytes))

StartsAt(bytes) ==
  {k \in 1 .. Len(bytes) - 1 : <<bytes[k], bytes[k + 1]>> = START}

HasStart(bytes) == StartsAt(bytes) # {}

FromStart(bytes) ==
  SubSeq(bytes, CHOOSE k \in StartsAt(bytes) :
                  \A j \in StartsAt(bytes) : k <= j, Len(bytes))

Record(line) == [sn |-> line[3], counter |-> line[4], seq |-> line[5],
                 size |-> line[6], payload |-> SubSeq(line, 7, Len(line))]

\* Mutant: the length in the header is not compared.
AnyLength(line) == TRUE

\* Mutant: the header is counted.
WholeLength(line) == Len(line) = line[6]

Complete(line) == Len(line) - 6 = line[6]

\* The body of the loop once there is a piece to look at.
Look(piece, line) ==
  IF ~HasStart(piece) /\ ~line_is_break
  THEN UNCHANGED <<current_line, line_is_break, running, written>>
  ELSE IF Len(line) < 6
  THEN /\ current_line' = line
       /\ running' = ~line_is_break
       /\ UNCHANGED <<line_is_break, written>>
  ELSE IF ~Complete(line)
  THEN /\ current_line' = line
       /\ line_is_break' = TRUE
       /\ UNCHANGED <<running, written>>
  ELSE /\ current_line' = << >>
       /\ line_is_break' = FALSE
       /\ written' = Append(written, Record(line))
       /\ UNCHANGED running

Joined(piece) ==
  IF HasStart(piece) THEN FromStart(piece) ELSE current_line \o piece

Takes(bytes, ends) ==
  IF ends = {}
  THEN /\ buffer_string' = bytes
       /\ UNCHANGED <<current_line, line_is_break, running, written>>
  ELSE /\ buffer_string' = Rest(bytes, ends)
       /\ \E piece \in {Latest(bytes, ends)} :
          \E line \in {Joined(piece)} : Look(piece, line)

readUSB(n) ==
  /\ running /\ n \in 1 .. Len(wire)
  /\ wire' = SubSeq(wire, n + 1, Len(wire))
  /\ \E bytes \in {buffer_string \o SubSeq(wire, 1, n)} :
       \E ends \in {Separators(bytes)} : Takes(bytes, ends)
  /\ UNCHANGED <<printed, behind>>

UsbNext ==
  \/ \E sn \in Senders, seq \in Seqs,
        payload \in SeqOf(PayloadBytes, MaxPayload), print_MPU \in {0, 1} :
       app_recv(sn, seq, payload, print_MPU)
  \/ \E n \in 1 .. Len(wire) : readUSB(n)

UsbSpec ==
  /\ UsbInit /\ [][UsbNext]_usbVars
  /\ WF_usbVars(\E n \in 1 .. Len(wire) : readUSB(n))

(***************************************************************************)
(* Properties.                                                             *)
(***************************************************************************)
UsbTypeOK ==
  /\ Len(printed) <= MaxRecords
  /\ wire \in Seq(0 .. 255) /\ current_line \in Seq(0 .. 255)
  /\ Separators(buffer_string) = {}
  /\ {behind, line_is_break, running} \subseteq BOOLEAN

\* Two newlines follow each other before the end of the record.
Cut(r) ==
  \E k \in 1 .. Len(Shown(r)) - 1 : Shown(r)[k] = NL /\ Shown(r)[k + 1] = NL

Hidden(r) == Len(r.payload) # r.size

\* What is in the file was sent, in that order and at most once: no record is
\* made of the pieces of others, however late the reader is, as long as no
\* record has two newlines in a row (readUSB_MPU6050_BS.py:87-157); the counter
\* is kept from being one (MPU6050_example.c:84), a length of 10 in front of a
\* payload that begins with one is not.
WrittenWereSent ==
  /\ UsbTypeOK
  /\ (\A i \in DOMAIN printed : ~ Cut(printed[i])) =>
       \A k \in DOMAIN written :
         /\ written[k] \in ToSet(printed)
         /\ k > 1 => written[k - 1].counter < written[k].counter

\* Every packet that the base station prints with its payload is in the file in
\* the end, as long as the reader is not late and no record has two newlines in
\* a row, counting those that end it.
AllWritten ==
  \A i \in 1 .. MaxRecords :
    Len(printed) >= i ~>
      \/ \E k \in DOMAIN written : written[k].counter = Counter(i)
      \/ behind
      \/ \E k \in DOMAIN printed :
           Cut(printed[k]) \/ Last(Shown(printed[k])) = NL
      \/ i \in DOMAIN printed /\ Hidden(printed[i])

=============================================================================
