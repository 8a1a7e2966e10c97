------------------------------- MODULE Uart1 -------------------------------
(***************************************************************************)
(* The sending side of the serial port (cpu/msp430/f1xxx/uart1.c with      *)
(* TX_WITH_INTERRUPT) and the ring buffer under it (core/lib/ringbuf.c).   *)
(*                                                                         *)
(* uart1_writeb is called for every character of a printf: by the main     *)
(* loop, and by the interrupt of the rtimer, where TDMA_SN_send reports    *)
(* what it has sent.  Both put into the ring; the transmit interrupt takes *)
(* from it.  Interrupts do not interrupt each other.                       *)
(***************************************************************************)
EXTENDS Integers

CONSTANTS
  Size,       \* elements of txbuf_data; the mask is Size - 1
  MaxBytes,   \* bound: bytes that are written
  SlotPrints  \* the rtimer interrupt prints "never", only "between" two calls
              \* of the main loop and when there is room, or "always"

ASSUME Uart1Assumption ==
  /\ Size \in Nat /\ Size > 1
  /\ MaxBytes \in Nat
  /\ SlotPrints \in {"never", "between", "always"}

VARIABLES
  data, put_ptr, get_ptr,  \* txbuf
  transmitting,
  pc,        \* where main and isr are in uart1_writeb
  byte,      \* what they are writing
  c,         \* what ringbuf_get has returned to them
  TXBUF1,    \* 0: empty
  UTXIFG1,   \* the transmit interrupt is pending
  wire,      \* the last of the bytes written that has gone out
  written, accepted   \* bytes given to uart1_writeb, put into the ring

vars == <<data, put_ptr, get_ptr, transmitting, pc, byte, c, TXBUF1, UTXIFG1,
          wire, written, accepted>>

Contexts == {"main", "isr"}
Places   == {"idle", "put", "store", "advance", "test", "claim", "get",
             "send"}
Garbage  == -1        \* there was no byte to be got: 0xFF is sent

(* (p - q) & mask and (p + 1) & mask, for pointers into the buffer. *)
Elements(p, q) == IF p >= q THEN p - q ELSE p - q + Size
Up(p) == IF p = Size - 1 THEN 0 ELSE p + 1

(* Fault: the buffer is filled to the last place. *)
FullWhenWrapped(p, q) == FALSE

Full(p, q) == Elements(p, q) = Size - 1

Init ==
  /\ data = [i \in 0 .. Size - 1 |-> 0] /\ put_ptr = 0 /\ get_ptr = 0
  /\ transmitting = FALSE
  /\ pc = [x \in Contexts |-> "idle"]
  /\ byte = [x \in Contexts |-> 0] /\ c = [x \in Contexts |-> 0]
  /\ TXBUF1 = 0 /\ UTXIFG1 = FALSE
  /\ wire = 0 /\ written = 0 /\ accepted = 0

Go(x, from, to) ==
  /\ x = "main" => pc["isr"] = "idle"
  /\ pc[x] = from /\ pc' = [pc EXCEPT ![x] = to]

MayPrint(x) ==
  x = "isr" => \/ SlotPrints = "always"
               \/ /\ SlotPrints = "between"
                  /\ pc["main"] = "idle" /\ ~Full(put_ptr, get_ptr)

Call(x) ==
  /\ written < MaxBytes /\ MayPrint(x)
  /\ Go(x, "idle", "put")
  /\ written' = written + 1
  /\ byte' = [byte EXCEPT ![x] = written + 1]
  /\ UNCHANGED <<data, put_ptr, get_ptr, transmitting, c, TXBUF1, UTXIFG1,
                 wire, accepted>>

(* ringbuf_put, tried again until there is room *)
Room(x) ==
  /\ ~Full(put_ptr, get_ptr)
  /\ Go(x, "put", "store")
  /\ UNCHANGED <<data, put_ptr, get_ptr, transmitting, byte, c, TXBUF1,
                 UTXIFG1, wire, written, accepted>>

Store(x) ==
  /\ Go(x, "store", "advance")
  /\ data' = [data EXCEPT ![put_ptr] = byte[x]]
  /\ UNCHANGED <<put_ptr, get_ptr, transmitting, byte, c, TXBUF1, UTXIFG1,
                 wire, written, accepted>>

Advance(x) ==
  /\ Go(x, "advance", "test")
  /\ put_ptr' = Up(put_ptr)
  /\ accepted' = accepted + 1
  /\ UNCHANGED <<data, get_ptr, transmitting, byte, c, TXBUF1, UTXIFG1, wire,
                 written>>

(* Fault: the transmission is never started. *)
StartedBefore(x) == Go(x, "test", "idle")

Started(x) == Go(x, "test", IF transmitting THEN "idle" ELSE "claim")

Test(x) ==
  /\ Started(x)
  /\ UNCHANGED <<data, put_ptr, get_ptr, transmitting, byte, c, TXBUF1,
                 UTXIFG1, wire, written, accepted>>

Claim(x) ==
  /\ Go(x, "claim", "get")
  /\ transmitting' = TRUE
  /\ UNCHANGED <<data, put_ptr, get_ptr, byte, c, TXBUF1, UTXIFG1, wire,
                 written, accepted>>

(* ringbuf_get *)
Get(x) ==
  /\ Go(x, "get", "send")
  /\ IF Elements(put_ptr, get_ptr) > 0
     THEN /\ c' = [c EXCEPT ![x] = data[get_ptr]]
          /\ get_ptr' = Up(get_ptr)
     ELSE c' = [c EXCEPT ![x] = Garbage] /\ UNCHANGED get_ptr
  /\ UNCHANGED <<data, put_ptr, transmitting, byte, TXBUF1, UTXIFG1, wire,
                 written, accepted>>

Send(x) ==
  /\ Go(x, "send", "idle")
  /\ TXBUF1' = c[x] /\ UTXIFG1' = FALSE
  /\ UNCHANGED <<data, put_ptr, get_ptr, transmitting, byte, c, wire, written,
                 accepted>>

(* uart1_tx_interrupt *)
TxInterrupt ==
  /\ UTXIFG1 /\ pc["isr"] = "idle"
  /\ UTXIFG1' = FALSE
  /\ IF Elements(put_ptr, get_ptr) = 0
     THEN transmitting' = FALSE /\ UNCHANGED <<TXBUF1, get_ptr>>
     ELSE /\ TXBUF1' = data[get_ptr] /\ get_ptr' = Up(get_ptr)
          /\ UNCHANGED transmitting
  /\ UNCHANGED <<data, put_ptr, pc, byte, c, wire, written, accepted>>

(* The port has sent what is in TXBUF1. *)
Shift ==
  /\ TXBUF1 # 0
  /\ wire' = IF TXBUF1 = Garbage THEN wire ELSE TXBUF1
  /\ TXBUF1' = 0 /\ UTXIFG1' = TRUE
  /\ UNCHANGED <<data, put_ptr, get_ptr, transmitting, pc, byte, c, written,
                 accepted>>

uart1_writeb(x) ==
  \/ Room(x) \/ Store(x) \/ Advance(x) \/ Test(x) \/ Claim(x) \/ Get(x)
  \/ Send(x)

Next ==
  \/ \E x \in Contexts : Call(x) \/ uart1_writeb(x)
  \/ TxInterrupt \/ Shift

Fairness ==
  /\ \A x \in Contexts : WF_vars(uart1_writeb(x))
  /\ WF_vars(TxInterrupt) /\ WF_vars(Shift)

Spec == Init /\ [][Next]_vars /\ Fairness

-----------------------------------------------------------------------------
TypeOK ==
  /\ data \in [0 .. Size - 1 -> Nat]
  /\ put_ptr \in 0 .. Size - 1 /\ get_ptr \in 0 .. Size - 1
  /\ transmitting \in BOOLEAN /\ UTXIFG1 \in BOOLEAN
  /\ pc \in [Contexts -> Places]
  /\ byte \in [Contexts -> Nat] /\ c \in [Contexts -> Nat \cup {Garbage}]
  /\ TXBUF1 \in Nat \cup {Garbage} /\ wire \in Nat
  /\ written \in Nat /\ accepted \in Nat

-----------------------------------------------------------------------------
(* The inductive invariant, for calls that do not interrupt each other. *)

OneCall == pc["main"] = "idle" \/ pc["isr"] = "idle"

(* Whose call it is, and where it is. *)
one == IF pc["main"] # "idle" THEN "main" ELSE "isr"
at  == pc[one]

At(p, i) == IF p + i >= Size THEN p + i - Size ELSE p + i

(* What is in the ring are the last bytes accepted, in order. *)
InRing ==
  \A i \in 0 .. Size - 1 :
    i < Elements(put_ptr, get_ptr) =>
      data[At(get_ptr, i)] = accepted - Elements(put_ptr, get_ptr) + i + 1

(* A byte that has left the ring is in TXBUF1 or on its way there. *)
OnItsWay ==
  /\ at = "send" => c[one] \in {wire + 1, Garbage}
  /\ TXBUF1 \in {0, wire + 1, Garbage}
  /\ accepted - Elements(put_ptr, get_ptr) =
       IF TXBUF1 = wire + 1 \/ (at = "send" /\ c[one] = wire + 1)
       THEN wire + 1 ELSE wire

(* transmitting says who sends the next byte: the transmit interrupt, which *)
(* is then due, or the call that finds the port at rest.                    *)
HandShake ==
  /\ ~transmitting =>
       /\ TXBUF1 = 0 /\ ~UTXIFG1 /\ at \notin {"get", "send"}
       /\ put_ptr # get_ptr => at \in {"test", "claim"}
  /\ at = "claim" => ~transmitting
  /\ at \in {"get", "send"} => TXBUF1 = 0 /\ ~UTXIFG1
  /\ transmitting /\ at \notin {"get", "send"} => (UTXIFG1 <=> TXBUF1 = 0)

Numbers ==
  /\ written = IF at \in {"put", "store", "advance"} THEN accepted + 1
               ELSE accepted
  /\ at \in {"put", "store", "advance"} => byte[one] = written
  /\ at \in {"store", "advance"} => ~Full(put_ptr, get_ptr)
  /\ at = "advance" => data[put_ptr] = byte[one]

PortInv == TypeOK /\ OneCall /\ InRing /\ OnItsWay /\ HandShake /\ Numbers

-----------------------------------------------------------------------------
(* Everything written goes out, once and in order (uart1.c:110-137). *)
Stream == INSTANCE ByteStream WITH Capacity <- Size, sent <- wire
SendsInOrder == Stream!Spec

(* "If there is no transmission going, we need to start it by putting the  *)
(* first byte into the UART" (uart1.c:120): only bytes of the buffer are    *)
(* put there.                                                               *)
OnlyWritten == TXBUF1 # Garbage

(* "It is safe to call this function from an interrupt handler"            *)
(* (ringbuf.h): a byte that ringbuf_put has accepted is in the ring.       *)
PutKeeps ==
  [][\A x \in Contexts :
       pc[x] = "advance" /\ pc'[x] = "test" => data[put_ptr] = byte[x]]_vars

(* "we just keep on trying to put the byte into the buffer until it is     *)
(* possible to put it there" (uart1.c:115): every call returns.            *)
CallsReturn == \A x \in Contexts : pc[x] = "put" ~> pc[x] = "idle"
=============================================================================
