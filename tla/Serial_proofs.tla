--------------------------- MODULE Serial_proofs ---------------------------
(***************************************************************************)
(* The serial port keeps its bytes in order, for a ring of any size and    *)
(* any number of bytes, as long as calls of uart1_writeb do not interrupt  *)
(* each other: PortInv of Uart1 is inductive, and under it every step is a *)
(* step of ByteStream or leaves what ByteStream sees alone.                *)
(*                                                                         *)
(* The lines that come in reach the shell in order, for rings, a queue and *)
(* lines of any size, as long as the port is read in time: LineInv, of the *)
(* second part, says where in the stream of characters everybody is.       *)
(***************************************************************************)
EXTENDS Uart1, SerialLine, WellFoundedInduction, SequenceTheorems, TLAPS

USE Uart1Assumption

(* A call that takes a step is the only one, and its step is all that at and *)
(* one see.                                                                  *)
LEMMA GoOn ==
  ASSUME TypeOK, OneCall, NEW x \in Contexts, NEW from \in Places,
         NEW to \in Places, Go(x, from, to), from # "idle"
  PROVE  /\ at = from /\ one = x /\ at' = to
         /\ to # "idle" => one' = x
         /\ OneCall'
         /\ pc' \in [Contexts -> Places]
  <1>1. \A y \in Contexts : y # x => pc[y] = "idle"
    BY DEF OneCall, Contexts, Go
  <1>2. pc' = [pc EXCEPT ![x] = to] /\ pc \in [Contexts -> Places]
    BY DEF Go, TypeOK
  <1>3. pc'[x] = to /\ \A y \in Contexts : y # x => pc'[y] = "idle"
    BY <1>1, <1>2
  <1>4. pc[x] = from /\ x \in {"main", "isr"}
    BY DEF Go, Contexts
  <1>5. at = from /\ one = x
    BY <1>1, <1>4 DEF at, one, Contexts
  <1>6. at' = to /\ (to # "idle" => one' = x)
    BY <1>3, <1>4 DEF at, one, Contexts
  <1>7. OneCall' /\ pc' \in [Contexts -> Places]
    BY <1>2, <1>3, <1>4 DEF OneCall, Contexts
  <1> QED BY <1>5, <1>6, <1>7

(* The pieces of TypeOK that arithmetic needs. *)
LEMMA Types ==
  ASSUME TypeOK
  PROVE  /\ put_ptr \in 0 .. Size - 1 /\ get_ptr \in 0 .. Size - 1
         /\ accepted \in Int /\ written \in Int /\ wire \in Nat
         /\ Elements(put_ptr, get_ptr) \in 0 .. Size - 1
         /\ one \in Contexts /\ byte[one] \in Int
  BY DEF TypeOK, Elements, one, Contexts

LEMMA InitInv == Init => PortInv
  <1> SUFFICES ASSUME Init PROVE PortInv
    OBVIOUS
  <1>1. TypeOK
    <2>1. data \in [0 .. Size - 1 -> Nat]
      BY DEF Init
    <2>2. pc \in [Contexts -> {"idle"}]
      BY DEF Init
    <2>3. byte \in [Contexts -> Nat] /\ c \in [Contexts -> Nat]
      BY DEF Init
    <2>4. 0 \in 0 .. Size - 1 /\ "idle" \in Places
      BY DEF Places
    <2>5. pc \in [Contexts -> Places]
      BY <2>2, <2>4
    <2> QED BY <2>1, <2>3, <2>4, <2>5 DEF Init, TypeOK
  <1>2. OneCall
    BY DEF Init, OneCall, Contexts
  <1>3. InRing
    BY DEF Init, InRing, Elements, At
  <1>4. OnItsWay
    BY DEF Init, OnItsWay, Elements, Garbage, at, one, Contexts
  <1>5. HandShake
    BY DEF Init, HandShake, at, one, Contexts
  <1>6. Numbers
    BY DEF Init, Numbers, at, one, Contexts
  <1> QED BY <1>1, <1>2, <1>3, <1>4, <1>5, <1>6 DEF PortInv

(* The pointers: one step apart is one element more or less. *)
LEMMA Pointers ==
  ASSUME NEW p \in 0 .. Size - 1, NEW q \in 0 .. Size - 1
  PROVE  /\ Up(p) \in 0 .. Size - 1
         /\ Elements(p, q) \in 0 .. Size - 1
         /\ Elements(p, q) = 0 <=> p = q
         /\ ~Full(p, q) => Elements(Up(p), q) = Elements(p, q) + 1
         /\ p # q => Elements(p, Up(q)) = Elements(p, q) - 1
         /\ At(q, Elements(p, q)) = p
  BY DEF Up, Elements, Full, At

(* The place of an element is known by its distance from the first. *)
LEMMA Apart ==
  ASSUME NEW q \in 0 .. Size - 1, NEW i \in 0 .. Size - 1,
         NEW j \in 0 .. Size - 1
  PROVE  /\ At(q, i) \in 0 .. Size - 1
         /\ At(q, i) = At(q, j) => i = j
         /\ At(q, 0) = q
         /\ i + 1 \in 0 .. Size - 1 => At(Up(q), i) = At(q, i + 1)
  BY DEF Up, At

LEMMA RoomKeeps ==
  ASSUME PortInv, NEW x \in Contexts, Room(x)
  PROVE  PortInv'
  <1> USE DEF PortInv
  <1>1. /\ at = "put" /\ at' = "store" /\ one = x /\ one' = x
        /\ OneCall' /\ pc' \in [Contexts -> Places]
    BY GoOn DEF Room, Places
  <1>2. TypeOK'
    BY <1>1, Types, Pointers
       DEF Room, TypeOK, Garbage
  <1>3. InRing'
    BY <1>1, Apart, Types, Pointers
       DEF Room, InRing
  <1>4. OnItsWay'
    BY <1>1, Types, Pointers
       DEF Room, OnItsWay, Garbage
  <1>5. HandShake'
    BY <1>1, Types, Pointers
       DEF Room, HandShake
  <1>6. Numbers'
    BY <1>1, Types, Pointers
       DEF Room, Numbers
  <1> QED BY <1>1, <1>2, <1>3, <1>4, <1>5, <1>6

LEMMA StoreKeeps ==
  ASSUME PortInv, NEW x \in Contexts, Store(x)
  PROVE  PortInv'
  <1> USE DEF PortInv
  <1>1. /\ at = "store" /\ at' = "advance" /\ one = x /\ one' = x
        /\ OneCall' /\ pc' \in [Contexts -> Places]
    BY GoOn DEF Store, Places
  <1>2. TypeOK'
    BY <1>1, Types, Pointers
       DEF Store, TypeOK, Garbage
  <1>3. InRing'
    BY <1>1, Apart, Types, Pointers
       DEF Store, InRing
  <1>4. OnItsWay'
    BY <1>1, Types, Pointers
       DEF Store, OnItsWay, Garbage
  <1>5. HandShake'
    BY <1>1, Types, Pointers
       DEF Store, HandShake
  <1>6. Numbers'
    BY <1>1, Types, Pointers
       DEF Store, Numbers, TypeOK
  <1> QED BY <1>1, <1>2, <1>3, <1>4, <1>5, <1>6

LEMMA AdvanceKeeps ==
  ASSUME PortInv, NEW x \in Contexts, Advance(x)
  PROVE  PortInv'
  <1> USE DEF PortInv
  <1>1. /\ at = "advance" /\ at' = "test" /\ one = x /\ one' = x
        /\ OneCall' /\ pc' \in [Contexts -> Places]
    BY GoOn DEF Advance, Places
  <1>2. TypeOK'
    <2>1. put_ptr' \in 0 .. Size - 1 /\ accepted' \in Nat
      BY Types, Pointers DEF Advance, TypeOK
    <2> QED BY <1>1, <2>1 DEF Advance, TypeOK
  <1>3. InRing'
    <2> DEFINE n == Elements(put_ptr, get_ptr)
    <2>1. Elements(put_ptr, get_ptr)' = n + 1 /\ n + 1 \in 0 .. Size - 1
      BY <1>1, Types, Pointers DEF Advance, Numbers, Full
    <2>2. data[At(get_ptr, n)] = accepted + 1
      BY <1>1, Types, Pointers DEF Numbers
    <2>3. ASSUME NEW i \in 0 .. Size - 1, i < n + 1
          PROVE  data[At(get_ptr, i)] = accepted - n + i + 1
      <3>1. CASE i < n
        BY <3>1 DEF InRing
      <3>2. CASE i = n
        BY <2>2, <3>2, Types
      <3> QED BY <2>3, <3>1, <3>2, Types
    <2>4. /\ data' = data /\ get_ptr' = get_ptr /\ accepted' = accepted + 1
          /\ \A i \in Int : At(get_ptr, i)' = At(get_ptr, i)
      BY DEF Advance, At
    <2> HIDE DEF n
    <2>5. n \in Int /\ accepted \in Int
      BY Types DEF n
    <2> QED BY <2>1, <2>3, <2>4, <2>5 DEF InRing
  <1>4. OnItsWay'
    <2>1. Elements(put_ptr, get_ptr)' = Elements(put_ptr, get_ptr) + 1
      BY <1>1, Types, Pointers DEF Advance, Numbers
    <2> QED BY <1>1, <2>1, Types DEF Advance, OnItsWay
  <1>5. HandShake'
    BY <1>1, Types, Pointers
       DEF Advance, HandShake
  <1>6. Numbers'
    BY <1>1, Types, Pointers
       DEF Advance, Numbers
  <1> QED BY <1>1, <1>2, <1>3, <1>4, <1>5, <1>6

LEMMA TestKeeps ==
  ASSUME PortInv, NEW x \in Contexts, Test(x)
  PROVE  PortInv'
  <1> USE DEF PortInv
  <1>0. PICK to \in {"idle", "claim"} :
          /\ Go(x, "test", to)
          /\ transmitting <=> to = "idle"
    BY DEF Test, Started
  <1>1. /\ at = "test" /\ at' = to /\ one = x /\ (to # "idle" => one' = x)
        /\ OneCall' /\ pc' \in [Contexts -> Places]
    BY GoOn, <1>0 DEF Test, Places
  <1>2. TypeOK'
    BY <1>1, <1>0, Types, Pointers
       DEF Test, TypeOK, Garbage
  <1>3. InRing'
    BY <1>1, <1>0, Apart, Types, Pointers
       DEF Test, InRing
  <1>4. OnItsWay'
    BY <1>1, <1>0, Types, Pointers
       DEF Test, OnItsWay, Garbage
  <1>5. HandShake'
    BY <1>1, <1>0, Types, Pointers
       DEF Test, HandShake
  <1>6. Numbers'
    BY <1>1, <1>0, Types, Pointers
       DEF Test, Numbers
  <1> QED BY <1>1, <1>2, <1>3, <1>4, <1>5, <1>6

LEMMA ClaimKeeps ==
  ASSUME PortInv, NEW x \in Contexts, Claim(x)
  PROVE  PortInv'
  <1> USE DEF PortInv
  <1>1. /\ at = "claim" /\ at' = "get" /\ one = x /\ one' = x
        /\ OneCall' /\ pc' \in [Contexts -> Places]
    BY GoOn DEF Claim, Places
  <1>2. TypeOK'
    BY <1>1, Types, Pointers
       DEF Claim, TypeOK, Garbage
  <1>3. InRing'
    BY <1>1, Apart, Types, Pointers
       DEF Claim, InRing
  <1>4. OnItsWay'
    BY <1>1, Types, Pointers
       DEF Claim, OnItsWay, Garbage
  <1>5. HandShake'
    BY <1>1, Types, Pointers
       DEF Claim, HandShake
  <1>6. Numbers'
    BY <1>1, Types, Pointers
       DEF Claim, Numbers
  <1> QED BY <1>1, <1>2, <1>3, <1>4, <1>5, <1>6

LEMMA GetKeeps ==
  ASSUME PortInv, NEW x \in Contexts, Get(x)
  PROVE  PortInv'
  <1> USE DEF PortInv
  <1>1. /\ at = "get" /\ at' = "send" /\ one = x /\ one' = x
        /\ OneCall' /\ pc' \in [Contexts -> Places]
    BY GoOn DEF Get, Places
  <1> DEFINE n == Elements(put_ptr, get_ptr)
  <1>a. /\ n \in 0 .. Size - 1 /\ accepted \in Int /\ wire \in Nat
        /\ accepted - n = wire /\ TXBUF1 = 0
    BY <1>1, Types DEF OnItsWay, HandShake
  <1>b. ASSUME n > 0
        PROVE  /\ get_ptr' = Up(get_ptr)
               /\ Elements(put_ptr, get_ptr)' = n - 1
               /\ data[get_ptr] = wire + 1 /\ c' = [c EXCEPT ![x] = wire + 1]
    <2>1. get_ptr' = Up(get_ptr) /\ c' = [c EXCEPT ![x] = data[get_ptr]]
      BY <1>b DEF Get
    <2>2. put_ptr # get_ptr
      BY <1>b, Types, Pointers
    <2>3. Elements(put_ptr, get_ptr)' = n - 1
      BY <2>1, <2>2, Types, Pointers DEF Get
    <2>4. data[At(get_ptr, 0)] = accepted - n + 0 + 1
      BY <1>a, <1>b DEF InRing
    <2>5. At(get_ptr, 0) = get_ptr
      BY Apart, Types
    <2>6. data[get_ptr] = wire + 1
      BY <1>a, <2>4, <2>5
    <2> QED BY <2>1, <2>3, <2>6
  <1>c. ASSUME ~ (n > 0)
        PROVE  /\ n = 0 /\ get_ptr' = get_ptr
               /\ Elements(put_ptr, get_ptr)' = n
               /\ c' = [c EXCEPT ![x] = Garbage]
    BY <1>a, <1>c DEF Get, Elements
  <1>d. UNCHANGED <<data, put_ptr, transmitting, byte, TXBUF1, UTXIFG1, wire,
                    written, accepted>>
    BY DEF Get
  <1>2. TypeOK'
    <2>1. get_ptr' \in 0 .. Size - 1
      BY <1>b, <1>c, Types, Pointers
    <2>2. c' \in [Contexts -> Nat \cup {Garbage}]
      BY <1>a, <1>b, <1>c DEF TypeOK
    <2> QED BY <1>1, <1>d, <2>1, <2>2 DEF TypeOK
  <1>3. InRing'
    <2>1. ASSUME n > 0 PROVE InRing'
      <3>1. ASSUME NEW i \in 0 .. Size - 1, i < n - 1
            PROVE  data[At(Up(get_ptr), i)] = accepted - n + i + 2
        <4>1. i + 1 \in 0 .. Size - 1 /\ i + 1 < n
          BY <1>a, <3>1
        <4>2. data[At(get_ptr, i + 1)] = accepted - n + (i + 1) + 1
          BY <4>1 DEF InRing
        <4>3. At(Up(get_ptr), i) = At(get_ptr, i + 1)
          BY <4>1, Apart, Types
        <4> QED BY <1>a, <4>2, <4>3
      <3>2. \A i \in Int : At(get_ptr, i)' = At(Up(get_ptr), i)
        BY <1>b, <2>1 DEF At
      <3> HIDE DEF n
      <3> QED BY <1>a, <1>b, <1>d, <2>1, <3>1, <3>2 DEF InRing
    <2>2. ASSUME ~ (n > 0) PROVE InRing'
      BY <1>c, <2>2 DEF InRing
    <2> QED BY <2>1, <2>2
  <1>4. OnItsWay'
    <2>1. ASSUME n > 0 PROVE OnItsWay'
      <3>1. c'[x] = wire + 1 /\ accepted - (n - 1) = wire + 1
        BY <1>a, <1>b, <2>1, SMTT(30) DEF TypeOK
      <3> QED BY <1>1, <1>a, <1>b, <1>d, <2>1, <3>1 DEF OnItsWay
    <2>2. ASSUME ~ (n > 0) PROVE OnItsWay'
      <3>1. c'[x] = Garbage
        BY <1>c, <2>2 DEF TypeOK
      <3> QED BY <1>1, <1>a, <1>c, <1>d, <2>2, <3>1 DEF OnItsWay, Garbage
    <2> QED BY <2>1, <2>2
  <1>5. HandShake'
    BY <1>1, Types, Pointers
       DEF Get, HandShake
  <1>6. Numbers'
    BY <1>1, Types, Pointers
       DEF Get, Numbers
  <1> QED BY <1>1, <1>2, <1>3, <1>4, <1>5, <1>6

LEMMA SendKeeps ==
  ASSUME PortInv, NEW x \in Contexts, Send(x)
  PROVE  PortInv'
  <1> USE DEF PortInv
  <1>1. /\ at = "send" /\ at' = "idle" /\ one = x
        /\ OneCall' /\ pc' \in [Contexts -> Places]
    BY GoOn DEF Send, Places
  <1>2. TypeOK'
    <2>1. TXBUF1' \in Nat \cup {Garbage} /\ UTXIFG1' \in BOOLEAN
      BY DEF Send, TypeOK
    <2> QED BY <1>1, <2>1 DEF Send, TypeOK
  <1>3. InRing'
    BY <1>1, Apart, Types, Pointers
       DEF Send, InRing
  <1>4. OnItsWay'
    BY <1>1, Types DEF Send, OnItsWay, HandShake, Garbage, Elements
  <1>5. HandShake'
    <2>1. TXBUF1' # 0 /\ UTXIFG1' = FALSE /\ transmitting' = transmitting
      BY <1>1, Types DEF Send, OnItsWay, Garbage
    <2>2. transmitting
      BY <1>1 DEF HandShake
    <2> QED BY <1>1, <2>1, <2>2 DEF HandShake
  <1>6. Numbers'
    BY <1>1, Types, Pointers
       DEF Send, Numbers
  <1> QED BY <1>1, <1>2, <1>3, <1>4, <1>5, <1>6

LEMMA CallKeeps ==
  ASSUME PortInv, SlotPrints # "always", NEW x \in Contexts, Call(x)
  PROVE  PortInv'
  <1> USE DEF PortInv
  <1>1. \A y \in Contexts : pc[y] = "idle"
    BY Uart1Assumption DEF Call, MayPrint, Go, Contexts
  <1>2. pc' = [pc EXCEPT ![x] = "put"] /\ pc \in [Contexts -> Places]
    BY DEF Call, Go, TypeOK
  <1>3. pc'[x] = "put" /\ \A y \in Contexts : y # x => pc'[y] = "idle"
    BY <1>1, <1>2
  <1>4. at = "idle" /\ at' = "put" /\ one' = x
    BY <1>1, <1>3 DEF at, one, Contexts
  <1>5. OneCall' /\ pc' \in [Contexts -> Places]
    BY <1>2, <1>3 DEF OneCall, Contexts, Places
  <1>6. byte' = [byte EXCEPT ![x] = written + 1] /\ written' = written + 1
    BY DEF Call
  <1>7. TypeOK'
    <2>1. written' \in Nat /\ byte' \in [Contexts -> Nat]
      BY <1>6 DEF TypeOK
    <2> QED BY <1>5, <2>1 DEF Call, TypeOK
  <1>8. InRing'
    BY DEF Call, InRing, Elements, At
  <1>9. OnItsWay'
    BY <1>4 DEF Call, OnItsWay, Elements
  <1>10. HandShake'
    BY <1>4 DEF Call, HandShake
  <1>11. Numbers'
    <2>1. byte'[x] = written + 1
      BY <1>6 DEF TypeOK
    <2>2. written = accepted /\ accepted' = accepted
      BY <1>4 DEF Numbers, Call
    <2> QED BY <1>4, <1>6, <2>1, <2>2 DEF Numbers
  <1> QED BY <1>5, <1>7, <1>8, <1>9, <1>10, <1>11

LEMMA TxInterruptKeeps ==
  ASSUME PortInv, TxInterrupt
  PROVE  PortInv' /\ UNCHANGED <<wire, accepted>>
  <1> USE DEF PortInv
  <1> DEFINE n == Elements(put_ptr, get_ptr)
  <1>1. /\ UNCHANGED <<data, put_ptr, pc, byte, c, wire, written, accepted>>
        /\ UTXIFG1 /\ UTXIFG1' = FALSE
    BY DEF TxInterrupt
  <1>2. at' = at /\ one' = one
    BY <1>1 DEF at, one
  <1>3. /\ n \in 0 .. Size - 1 /\ accepted \in Int /\ wire \in Nat
        /\ accepted - n = wire /\ TXBUF1 = 0 /\ at \notin {"get", "send"}
        /\ transmitting
    BY <1>1, Types DEF OnItsWay, HandShake
  <1>4. CASE n = 0
    <2>1. /\ transmitting' = FALSE /\ TXBUF1' = TXBUF1 /\ get_ptr' = get_ptr
          /\ put_ptr = get_ptr
      BY <1>4, Types, Pointers DEF TxInterrupt
    <2>2. TypeOK'
      BY <1>1, <2>1 DEF TypeOK
    <2>3. InRing' /\ OnItsWay'
      BY <1>1, <1>2, <2>1 DEF InRing, OnItsWay, Elements, At
    <2>4. HandShake'
      BY <1>1, <1>2, <1>3, <2>1 DEF HandShake
    <2>5. Numbers' /\ OneCall'
      BY <1>1, <1>2, <2>1 DEF Numbers, Full, Elements, OneCall
    <2> QED BY <1>1, <2>2, <2>3, <2>4, <2>5
  <1>5. CASE n # 0
    <2>1. /\ get_ptr' = Up(get_ptr) /\ TXBUF1' = data[get_ptr]
          /\ transmitting' = transmitting
      BY <1>5 DEF TxInterrupt
    <2>2. put_ptr # get_ptr /\ get_ptr' \in 0 .. Size - 1
      BY <1>5, <2>1, Types, Pointers
    <2>3. Elements(put_ptr, get_ptr)' = n - 1
      BY <1>1, <2>1, <2>2, Types, Pointers
    <2>4. data[At(get_ptr, 0)] = accepted - n + 0 + 1
      BY <1>3, <1>5 DEF InRing
    <2>5. At(get_ptr, 0) = get_ptr
      BY Apart, Types
    <2>6. TXBUF1' = wire + 1
      BY <1>3, <2>1, <2>4, <2>5
    <2>7. TypeOK'
      BY <1>1, <1>3, <2>1, <2>2, <2>6 DEF TypeOK
    <2>8. InRing'
      <3>1. ASSUME NEW i \in 0 .. Size - 1, i < n - 1
            PROVE  data[At(Up(get_ptr), i)] = accepted - n + i + 2
        <4>1. i + 1 \in 0 .. Size - 1 /\ i + 1 < n
          BY <1>3, <3>1
        <4>2. data[At(get_ptr, i + 1)] = accepted - n + (i + 1) + 1
          BY <4>1 DEF InRing
        <4>3. At(Up(get_ptr), i) = At(get_ptr, i + 1)
          BY <4>1, Apart, Types
        <4> QED BY <1>3, <4>2, <4>3
      <3>2. \A i \in Int : At(get_ptr, i)' = At(Up(get_ptr), i)
        BY <2>1 DEF At
      <3> HIDE DEF n
      <3> QED BY <1>1, <1>3, <2>3, <3>1, <3>2 DEF InRing
    <2>9. OnItsWay'
      <3>1. accepted - (n - 1) = wire + 1
        BY <1>3
      <3> QED BY <1>1, <1>2, <1>3, <2>3, <2>6, <3>1 DEF OnItsWay
    <2>10. HandShake'
      BY <1>1, <1>2, <1>3, <2>1, <2>6 DEF HandShake
    <2>11. Numbers'
      <3>1. ~Full(put_ptr, get_ptr)'
        BY <1>3, <2>3, Types DEF Full
      <3> QED BY <1>1, <1>2, <3>1 DEF Numbers
    <2>12. OneCall'
      BY <1>1 DEF OneCall
    <2> QED BY <1>1, <2>7, <2>8, <2>9, <2>10, <2>11, <2>12
  <1> QED BY <1>1, <1>4, <1>5

LEMMA ShiftKeeps ==
  ASSUME PortInv, Shift
  PROVE  PortInv' /\ (UNCHANGED <<wire, accepted>> \/ Stream!Send)
  <1> USE DEF PortInv
  <1>1. /\ UNCHANGED <<data, put_ptr, get_ptr, transmitting, pc, byte, c,
                       written, accepted>>
        /\ TXBUF1 # 0 /\ TXBUF1' = 0 /\ UTXIFG1'
        /\ wire' = IF TXBUF1 = Garbage THEN wire ELSE TXBUF1
    BY DEF Shift
  <1>2. at' = at /\ one' = one /\ at \notin {"get", "send"} /\ transmitting
    BY <1>1 DEF at, one, HandShake
  <1>3. Elements(put_ptr, get_ptr)' = Elements(put_ptr, get_ptr)
    BY <1>1 DEF Elements
  <1>4. /\ wire' \in Nat
        /\ accepted - Elements(put_ptr, get_ptr) = wire'
        /\ wire' = wire \/ (wire' = wire + 1 /\ wire < accepted)
    BY <1>1, <1>2, Types DEF OnItsWay, Garbage
  <1>5. TypeOK'
    BY <1>1, <1>4 DEF Shift, TypeOK
  <1>6. InRing'
    BY <1>1, <1>3 DEF InRing, At
  <1>7. OnItsWay'
    BY <1>1, <1>2, <1>3, <1>4 DEF OnItsWay
  <1>8. HandShake'
    BY <1>1, <1>2 DEF HandShake
  <1>9. Numbers' /\ OneCall'
    BY <1>1, <1>2 DEF Numbers, Full, Elements, OneCall
  <1>10. UNCHANGED <<wire, accepted>> \/ Stream!Send
    BY <1>1, <1>4 DEF Stream!Send
  <1> QED BY <1>5, <1>6, <1>7, <1>8, <1>9, <1>10

-----------------------------------------------------------------------------
(* No step of a call changes what has gone out; the only one that changes  *)
(* what is accepted finds room.                                            *)
LEMMA CallSteps ==
  ASSUME PortInv, SlotPrints # "always", NEW x \in Contexts,
         Call(x) \/ uart1_writeb(x)
  PROVE  PortInv' /\ (UNCHANGED <<wire, accepted>> \/ Stream!Accept)
  <1>1. ASSUME Advance(x) PROVE Stream!Accept
    <2>1. at = "advance"
      BY <1>1, GoOn DEF PortInv, Advance, Places
    <2>2. Elements(put_ptr, get_ptr) < Size - 1
      BY <2>1, Types DEF PortInv, Numbers, Full
    <2>3. accepted - wire =< Elements(put_ptr, get_ptr) + 1
      BY Types DEF PortInv, OnItsWay
    <2> QED BY <1>1, <2>2, <2>3, Types DEF PortInv, Advance, Stream!Accept
  <1>2. ~ Advance(x) => UNCHANGED <<wire, accepted>>
    BY DEF uart1_writeb, Call, Room, Store, Test, Claim, Get, Send
  <1>3. PortInv'
    BY CallKeeps, RoomKeeps, StoreKeeps, AdvanceKeeps, TestKeeps, ClaimKeeps,
       GetKeeps, SendKeeps DEF uart1_writeb
  <1> QED BY <1>1, <1>2, <1>3

LEMMA StepInv ==
  ASSUME PortInv, SlotPrints # "always", [Next]_vars
  PROVE  PortInv' /\ [Stream!Accept \/ Stream!Send]_<<accepted, wire>>
  <1>1. CASE \E x \in Contexts : Call(x) \/ uart1_writeb(x)
    BY <1>1, CallSteps
  <1>2. CASE TxInterrupt
    BY <1>2, TxInterruptKeeps
  <1>3. CASE Shift
    BY <1>3, ShiftKeeps
  <1>4. CASE UNCHANGED vars
    <2>1. at' = at /\ one' = one
      BY <1>4 DEF vars, at, one
    <2>2. TypeOK' /\ OneCall' /\ InRing'
      BY <1>4 DEF vars, PortInv, TypeOK, OneCall, InRing, Elements, At
    <2>3. OnItsWay' /\ HandShake' /\ Numbers'
      BY <1>4, <2>1
         DEF vars, PortInv, OnItsWay, HandShake, Numbers, Elements, Full
    <2> QED BY <1>4, <2>2, <2>3 DEF vars, PortInv
  <1> QED BY <1>1, <1>2, <1>3, <1>4 DEF Next

(* uart1.c:110-137, 272-284 and ringbuf.c:52-98: the ring holds the last   *)
(* bytes accepted in their order, the others have gone out or are on their *)
(* way, and transmitting says who sends the next one, in every state that  *)
(* calls of uart1_writeb which do not interrupt each other can reach.      *)
THEOREM PortInvariant ==
  ASSUME SlotPrints # "always"
  PROVE  Spec => []PortInv
  <1>1. Init => PortInv
    BY InitInv
  <1>2. PortInv /\ [Next]_vars => PortInv'
    BY StepInv
  <1> QED BY <1>1, <1>2, PTL DEF Spec

(* Bytes go out in the order in which they were accepted, each of them     *)
(* once, and never more than Size are under way (uart1.c:110-137): the     *)
(* safety part of SendsInOrder.                                            *)
THEOREM PortImplementsSteps ==
  ASSUME SlotPrints # "always"
  PROVE  Spec => Stream!Steps
  <1>1. Init => Stream!Init
    BY DEF Init, Stream!Init
  <1>2. PortInv /\ [Next]_vars
          => [Stream!Accept \/ Stream!Send]_<<accepted, wire>>
    BY StepInv
  <1> QED BY <1>1, <1>2, PortInvariant, PTL DEF Spec, Stream!Steps

HIDE Uart1Assumption

-----------------------------------------------------------------------------
(* Where the stream of characters stands.                                  *)

Positions == (Nat \ {0}) \X Nat

\* The stream at z sends character x and is at w then.
Sends(z, x, w) ==
  \/ x = CR /\ w = z
  \/ x = END /\ w = <<z[1] + 1, 1>>
  \/ x = z /\ x \in Char /\ w = <<z[1], z[2] + 1>>

\* The characters from last up to DMA have not been read.
Unread(k) == IF last <= DMA THEN last <= k /\ k < DMA ELSE last <= k \/ k < DMA

\* h[k] is where the stream was before the character at k.
Port(h) ==
  /\ h \in [0 .. RXBUFSIZE - 1 -> Positions]
  /\ h[DMA] = <<line, place>>
  /\ \A k \in 0 .. RXBUFSIZE - 1 :
       Unread(k) => Sends(h[k], dmabuf[k], h[Round(k)])
  /\ left <= IF last <= DMA THEN DMA - last ELSE DMA - last + RXBUFSIZE

\* What the assembler expects at z is character x, and at w the next one: an
\* end of line may be that of a later line.
Expects(z, x, w) ==
  \/ x = END /\ w[1] > z[1] /\ w[2] = 1
  \/ x = z /\ x \in Char /\ w = <<z[1], z[2] + 1>>

\* g[i] is where the assembler is before character i of the ring, and z is
\* where the reader is: further on, when the ring has overflowed.
Ring(g, z) ==
  /\ g \in [1 .. Len(ring) + 1 -> Positions]
  /\ \A i \in 1 .. Len(ring) : Expects(g[i], ring[i], g[i + 1])
  /\ g[Len(ring) + 1][1] <= z[1]
  /\ ~ overflow => g[Len(ring) + 1] = z

\* buf holds the first n characters of line m.
Holds(m, n) == \A k \in 0 .. n - 1 : buf[k] = <<m, k + 1>>

\* The lines that were given to the shell are earlier ones than m.
Earlier(m) == \A n \in DOMAIN got : got[n] # << >> => got[n][1][1] < m

Given ==
  /\ \A n \in DOMAIN got : StartsOf(got[n])
  /\ \A m, n \in DOMAIN got :
       m < n /\ got[m] # << >> /\ got[n] # << >> => got[m][1][1] < got[n][1][1]

\* The line is told to the shell, and then the assembler to go on.
Told(m) ==
  \E k \in DOMAIN queue :
    /\ queue[k] = "continue"
    /\ \A i \in DOMAIN queue : queue[i] = "continue" => i = k
    /\ \A i \in DOMAIN queue : queue[i] = "line" => i < k /\ Earlier(m)
    /\ \A i, j \in DOMAIN queue :
         queue[i] = "line" /\ queue[j] = "line" => i = j

\* The assembler is at z.
Assembles(z) ==
  Given /\ Earlier(z[1]) /\
  IF thread = "wait"
  THEN \E m \in Nat \ {0} :
         /\ m < z[1] /\ z[2] = 1 /\ ptr > 0
         /\ Holds(m, ptr - 1) /\ buf[ptr - 1] = NUL
         /\ Told(m)
  ELSE /\ Holds(z[1], ptr) /\ (ptr < BUFSIZE - 1 => z[2] = ptr + 1)
       /\ \A i \in DOMAIN queue : queue[i] = "other"

Ended == buf[BUFSIZE - 1] = NUL /\ (thread # "wait" => ptr < BUFSIZE)

LineInv ==
  /\ LineTypeOK /\ Ended
  /\ \E h, g : /\ Port(h) /\ Ring(g, h[last])
               /\ "continue" \notin refused => Assembles(g[1])

LEMMA Kinds ==
  ASSUME SerialLineAssumption
  PROVE  /\ \A x \in Char : /\ x \in Positions /\ x[1] \in Nat /\ x[2] \in Nat
                            /\ x # END /\ x # CR /\ x # NUL
         /\ END # CR /\ END # NUL /\ CR # NUL
<1>1. \A m \in 1 .. MaxLines : m \in Nat /\ m # 0
  BY DEF SerialLineAssumption
<1>2. \A p \in 1 .. MaxLength : p \in Nat
  BY DEF SerialLineAssumption
<1>3. ASSUME NEW x \in Char
      PROVE  /\ x \in Positions /\ x[1] \in Nat /\ x[2] \in Nat
             /\ x # END /\ x # CR /\ x # NUL
  <2>1. PICK m \in 1 .. MaxLines, p \in 1 .. MaxLength : x = <<m, p>>
    BY <1>3 DEF Char
  <2> QED BY <1>1, <1>2, <2>1 DEF Positions, END, CR, NUL
<1>4. END # CR /\ END # NUL /\ CR # NUL
  BY DEF END, CR, NUL
<1> QED BY <1>3, <1>4

LEMMA Sizes ==
  ASSUME SerialLineAssumption
  PROVE  /\ RXBUFSIZE \in Nat /\ RXBUFSIZE > 1
         /\ BUFSIZE \in Nat /\ BUFSIZE > 1
         /\ NumEvents \in Nat /\ NumEvents > 1
         /\ MaxLines \in Nat /\ MaxLength \in Nat
<1>1. /\ RXBUFSIZE \in Nat \ {0, 1} /\ BUFSIZE \in Nat \ {0, 1}
      /\ NumEvents \in Nat \ {0, 1}
  BY DEF SerialLineAssumption
<1> QED BY <1>1 DEF SerialLineAssumption

LEMMA Rounds ==
  ASSUME SerialLineAssumption
  PROVE  /\ \A k \in 0 .. RXBUFSIZE - 1 :
              /\ Round(k) = IF k = RXBUFSIZE - 1 THEN 0 ELSE k + 1
              /\ Round(k) \in 0 .. RXBUFSIZE - 1
         /\ \A d, l \in 0 .. RXBUFSIZE - 1 :
              (d + RXBUFSIZE - l) % RXBUFSIZE
                = IF l <= d THEN d - l ELSE d - l + RXBUFSIZE
<1>1. RXBUFSIZE \in Nat /\ RXBUFSIZE > 1
  BY Sizes
<1>2. \A n \in 0 .. RXBUFSIZE - 1 :
        n % RXBUFSIZE = n /\ (n + RXBUFSIZE) % RXBUFSIZE = n
  BY <1>1
<1>3. ASSUME NEW k \in 0 .. RXBUFSIZE - 1
      PROVE  /\ Round(k) = IF k = RXBUFSIZE - 1 THEN 0 ELSE k + 1
             /\ Round(k) \in 0 .. RXBUFSIZE - 1
  <2>1. CASE k = RXBUFSIZE - 1
    <3>1. k + 1 = 0 + RXBUFSIZE /\ 0 \in 0 .. RXBUFSIZE - 1
      BY <1>1, <2>1
    <3> QED BY <1>2, <2>1, <3>1 DEF Round
  <2>2. CASE k # RXBUFSIZE - 1
    <3>1. k + 1 \in 0 .. RXBUFSIZE - 1
      BY <1>1, <2>2
    <3> QED BY <1>2, <2>2, <3>1 DEF Round
  <2> QED BY <2>1, <2>2
<1>4. ASSUME NEW d \in 0 .. RXBUFSIZE - 1, NEW l \in 0 .. RXBUFSIZE - 1
      PROVE  (d + RXBUFSIZE - l) % RXBUFSIZE
               = IF l <= d THEN d - l ELSE d - l + RXBUFSIZE
  <2>1. CASE l <= d
    <3>1. d - l \in 0 .. RXBUFSIZE - 1
            /\ d + RXBUFSIZE - l = (d - l) + RXBUFSIZE
      BY <1>1, <2>1
    <3> QED BY <1>2, <2>1, <3>1
  <2>2. CASE ~ l <= d
    <3>1. /\ d - l + RXBUFSIZE \in 0 .. RXBUFSIZE - 1
          /\ d + RXBUFSIZE - l = d - l + RXBUFSIZE
      BY <1>1, <2>2
    <3> QED BY <1>2, <2>2, <3>1
  <2> QED BY <2>1, <2>2
<1> QED BY <1>3, <1>4

LEMMA Least ==
  ASSUME NEW L \in SUBSET Nat, L # {}
  PROVE  \E m \in L : \A k \in L : ~ k < m
<1>1. \E m \in L : \A k \in L : <<k, m>> \notin OpToRel(<, Nat)
  BY WFMin, NatLessThanWellFounded
<1>2. \A j, k \in Nat : <<j, k>> \in OpToRel(<, Nat) <=> j < k
  BY DEF OpToRel
<1> QED BY <1>1, <1>2

\* The text of a buffer ends in front of its first NUL.
LEMMA TextIs ==
  ASSUME SerialLineAssumption, NEW b,
         DOMAIN b = 0 .. BUFSIZE - 1, NEW n \in 0 .. BUFSIZE - 1,
         b[n] = NUL, \A j \in 0 .. n - 1 : b[j] # NUL
  PROVE  Text(b) = [k \in 1 .. n |-> b[k - 1]]
<1> DEFINE First(k) == b[k] = NUL /\ \A j \in 0 .. k - 1 : b[j] # NUL
           f == CHOOSE k \in DOMAIN b : First(k)
<1>1. BUFSIZE \in Nat
  BY Sizes
<1>2. \A k \in DOMAIN b : First(k) => k = n
  <2>1. ASSUME NEW k \in 0 .. BUFSIZE - 1, First(k) PROVE k = n
    <3>1. ~ k < n
      <4>1. k < n => k \in 0 .. n - 1
        BY <1>1
      <4> QED BY <2>1, <4>1
    <3>2. ~ n < k
      <4>1. n < k => n \in 0 .. k - 1
        BY <1>1
      <4> QED BY <2>1, <4>1
    <3> QED BY <1>1, <3>1, <3>2
  <2> QED BY <2>1
<1>3. n \in DOMAIN b /\ First(n)
  OBVIOUS
<1> HIDE DEF First
<1>4. f \in DOMAIN b /\ First(f)
  BY <1>3
<1>5. f = n
  BY <1>2, <1>4
<1> USE DEF First
<1>6. Text(b) = [k \in 1 .. f |-> b[k - 1]]
  BY DEF Text
<1> HIDE DEF f
<1> QED BY <1>5, <1>6

LEMMA TextTypes ==
  ASSUME SerialLineAssumption, buf \in [0 .. BUFSIZE - 1 -> Char \cup {NUL}],
         buf[BUFSIZE - 1] = NUL
  PROVE  Text(buf) \in Seq(Char)
<1>1. BUFSIZE \in Nat /\ BUFSIZE > 1
  BY Sizes
<1> DEFINE L == {k \in 0 .. BUFSIZE - 1 : buf[k] = NUL}
<1>2. L \in SUBSET Nat /\ L # {}
  <2>1. BUFSIZE - 1 \in L
    BY <1>1
  <2>2. 0 .. BUFSIZE - 1 \subseteq Nat
    BY <1>1
  <2> QED BY <2>1, <2>2
<1>3. PICK n \in L : \A k \in L : ~ k < n
  BY <1>2, Least
<1>4. n \in 0 .. BUFSIZE - 1 /\ buf[n] = NUL
  BY <1>3
<1>5. \A j \in 0 .. n - 1 : j \in 0 .. BUFSIZE - 1 /\ buf[j] # NUL
  <2> TAKE j \in 0 .. n - 1
  <2>1. j \in 0 .. BUFSIZE - 1 /\ j < n
    BY <1>1, <1>4
  <2> QED BY <1>3, <2>1
<1> HIDE DEF L
<1>6. Text(buf) = [k \in 1 .. n |-> buf[k - 1]]
  <2>1. DOMAIN buf = 0 .. BUFSIZE - 1
    OBVIOUS
  <2>2. \A j \in 0 .. n - 1 : buf[j] # NUL
    BY <1>5
  <2> QED BY <1>4, <2>1, <2>2, TextIs, Zenon
<1>7. \A k \in 1 .. n : buf[k - 1] \in Char
  <2> TAKE k \in 1 .. n
  <2>1. k - 1 \in 0 .. n - 1
    BY <1>1, <1>4
  <2> QED BY <1>5, <2>1
<1>8. n \in Nat
  BY <1>1, <1>4
<1> QED BY <1>6, <1>7, <1>8

-----------------------------------------------------------------------------
(* What the steps do to the parts.                                         *)

LEMMA PositionIs ==
  \A z \in Positions : z[1] \in Nat /\ z[1] # 0 /\ z[2] \in Nat
                       /\ z = <<z[1], z[2]>>
  BY DEF Positions

LEMMA PortStays ==
  ASSUME NEW h, Port(h), UNCHANGED <<port, last, left>>
  PROVE  Port(h)'
<1>1. /\ line' = line /\ place' = place /\ dmabuf' = dmabuf /\ DMA' = DMA
      /\ last' = last /\ left' = left
  BY DEF port
<1> QED BY <1>1 DEF Port, Unread

LEMMA RingStays ==
  ASSUME NEW g, NEW z, Ring(g, z), ring' = ring, overflow' = overflow
  PROVE  Ring(g, z)'
BY DEF Ring

LEMMA AssemblesStays ==
  ASSUME NEW z, Assembles(z), thread' = thread,
         UNCHANGED <<buf, ptr, queue, got>>
  PROVE  Assembles(z)'
<1>1. \A m : Earlier(m) => Earlier(m)'
  BY DEF Earlier
<1>2. \A m : Told(m) => Told(m)'
  BY <1>1 DEF Told
<1>3. \A m, n : Holds(m, n) => Holds(m, n)'
  BY DEF Holds
<1>4. Given => Given'
  BY DEF Given
<1> QED BY <1>1, <1>2, <1>3, <1>4 DEF Assembles

\* The parts make up the invariant.
LEMMA Together ==
  ASSUME LineTypeOK', Ended', NEW h, NEW g, NEW z, z = h[last'],
         Port(h)', Ring(g, z)',
         "continue" \notin refused' => Assembles(g[1])'
  PROVE  LineInv'
BY DEF LineInv

LEMMA ArriveStep ==
  ASSUME SerialLineAssumption, Paced, LineInv, Letter \/ Return \/ Newline
  PROVE  LineInv'
<1>1. PICK h, g : /\ Port(h) /\ Ring(g, h[last])
                  /\ "continue" \notin refused => Assembles(g[1])
  BY DEF LineInv
<1>2. /\ LineTypeOK /\ Ended /\ RXBUFSIZE \in Nat /\ RXBUFSIZE > 1
      /\ MaxLines \in Nat /\ MaxLength \in Nat
  BY Sizes DEF LineInv
<1>3. \E x, w : /\ Arrive(x) /\ w = <<line', place'>> /\ w \in Positions
                /\ Sends(<<line, place>>, x, w)
                /\ x \in Char \cup {END, CR, NUL}
                /\ line' \in 1 .. MaxLines + 1 /\ place' \in 1 .. MaxLength + 1
  <2>1. line \in 1 .. MaxLines + 1 /\ place \in 1 .. MaxLength + 1
    BY <1>2 DEF LineTypeOK
  <2>2. CASE Letter
    <3>1. /\ Arrive(<<line, place>>) /\ line' = line /\ place' = place + 1
          /\ line \in 1 .. MaxLines /\ place \in 1 .. MaxLength
      BY <1>2, <2>1, <2>2 DEF Letter, Arrive
    <3>2. <<line, place>> \in Char
      BY <3>1 DEF Char
    <3>3. <<line', place'>> \in Positions /\ place' \in 1 .. MaxLength + 1
      BY <1>2, <3>1 DEF Positions
    <3> QED BY <2>1, <3>1, <3>2, <3>3 DEF Sends
  <2>3. CASE Return
    <3>1. Arrive(CR) /\ line' = line /\ place' = place
      BY <2>3 DEF Return
    <3>2. <<line', place'>> \in Positions
      BY <1>2, <2>1, <3>1 DEF Positions
    <3> QED BY <2>1, <3>1, <3>2 DEF Sends
  <2>4. CASE Newline
    <3>1. /\ Arrive(END) /\ line' = line + 1 /\ place' = 1
          /\ line \in 1 .. MaxLines
      BY <1>2, <2>1, <2>4 DEF Newline, Arrive
    <3>2. /\ <<line', place'>> \in Positions /\ line' \in 1 .. MaxLines + 1
          /\ place' \in 1 .. MaxLength + 1
      BY <1>2, <3>1 DEF Positions
    <3> QED BY <3>1, <3>2 DEF Sends
  <2> QED BY <2>2, <2>3, <2>4
<1>4. PICK x, w : /\ Arrive(x) /\ w = <<line', place'>> /\ w \in Positions
                  /\ Sends(<<line, place>>, x, w)
                  /\ x \in Char \cup {END, CR, NUL}
                  /\ line' \in 1 .. MaxLines + 1
                  /\ place' \in 1 .. MaxLength + 1
  BY <1>3
<1>5. /\ DMA \in 0 .. RXBUFSIZE - 1 /\ last \in 0 .. RXBUFSIZE - 1
      /\ left \in 0 .. RXBUFSIZE - 1
      /\ dmabuf \in [0 .. RXBUFSIZE - 1 -> Char \cup {END, CR, NUL}]
  BY <1>2 DEF LineTypeOK
<1>6. /\ dmabuf' = [dmabuf EXCEPT ![DMA] = x] /\ DMA' = Round(DMA)
      /\ Round(DMA) # last
      /\ UNCHANGED <<last, left, ring, overflow, polled, thread, buf, ptr,
                     queue, refused, got>>
  BY <1>4 DEF Arrive, reader, assembler
<1>7. PICK d \in 0 .. RXBUFSIZE - 1 : d = DMA
  BY <1>5
<1>8. PICK k \in 0 .. RXBUFSIZE - 1 :
        k = Round(d) /\ k = IF d = RXBUFSIZE - 1 THEN 0 ELSE d + 1
  BY Rounds
<1>9. \A j \in 0 .. RXBUFSIZE - 1 : Round(j) = k => j = d
  BY <1>2, <1>8, Rounds
<1> DEFINE e == [h EXCEPT ![k] = w]
<1>10. /\ h \in [0 .. RXBUFSIZE - 1 -> Positions] /\ h[d] = <<line, place>>
       /\ \A j \in 0 .. RXBUFSIZE - 1 :
            Unread(j) => Sends(h[j], dmabuf[j], h[Round(j)])
       /\ left <= IF last <= d THEN d - last ELSE d - last + RXBUFSIZE
  BY <1>1, <1>7 DEF Port
<1>11. /\ e \in [0 .. RXBUFSIZE - 1 -> Positions] /\ e[k] = w
       /\ \A j \in 0 .. RXBUFSIZE - 1 : j # k => e[j] = h[j]
  BY <1>4, <1>10
<1> HIDE DEF e
<1>12. ASSUME NEW j \in 0 .. RXBUFSIZE - 1, Unread(j)'
       PROVE  Sends(e[j], dmabuf'[j], e[Round(j)])
  <2>1. j # k /\ (j = d \/ Unread(j))
    BY <1>2, <1>5, <1>6, <1>7, <1>8, <1>12 DEF Unread
  <2>2. CASE j = d
    <3>1. e[j] = <<line, place>> /\ e[Round(j)] = w /\ dmabuf'[j] = x
      BY <1>5, <1>6, <1>7, <1>8, <1>10, <1>11, <2>1, <2>2
    <3> QED BY <1>4, <3>1
  <2>3. CASE j # d
    <3>1. Round(j) # k /\ Round(j) \in 0 .. RXBUFSIZE - 1
      BY <1>9, <2>3, Rounds
    <3>2. /\ e[j] = h[j] /\ e[Round(j)] = h[Round(j)]
          /\ dmabuf'[j] = dmabuf[j]
      BY <1>5, <1>6, <1>7, <1>11, <2>1, <2>3, <3>1
    <3> QED BY <1>10, <2>1, <2>3, <3>2
  <2> QED BY <2>2, <2>3
<1>13. Port(e)'
  <2>1. e[DMA'] = <<line', place'>>
    BY <1>4, <1>6, <1>7, <1>8, <1>11
  <2>2. left' <= IF last' <= DMA' THEN DMA' - last'
                                  ELSE DMA' - last' + RXBUFSIZE
    BY <1>2, <1>5, <1>6, <1>7, <1>8, <1>10
  <2> QED BY <1>11, <1>12, <2>1, <2>2 DEF Port
<1>14. LineTypeOK' /\ Ended'
  <2>1. /\ DMA' \in 0 .. RXBUFSIZE - 1
        /\ dmabuf' \in [0 .. RXBUFSIZE - 1 -> Char \cup {END, CR, NUL}]
    BY <1>4, <1>5, <1>6, <1>7, <1>8
  <2>2. LineTypeOK'
    BY <1>2, <1>4, <1>6, <2>1 DEF LineTypeOK
  <2> QED BY <1>2, <1>6, <2>2 DEF Ended
<1>15. PICK z : z = h[last] /\ Ring(g, z)
  BY <1>1
<1>16. Ring(g, z)' /\ z = e[last']
  BY <1>5, <1>6, <1>7, <1>8, <1>11, <1>15, RingStays
<1>17. "continue" \notin refused' => Assembles(g[1])'
  BY <1>1, <1>6, AssemblesStays
<1> QED BY <1>13, <1>14, <1>16, <1>17, Together

LEMMA TimerStep ==
  ASSUME SerialLineAssumption, LineInv, RxTimer
  PROVE  LineInv'
<1>1. PICK h, g : /\ Port(h) /\ Ring(g, h[last])
                  /\ "continue" \notin refused => Assembles(g[1])
  BY DEF LineInv
<1>2. LineTypeOK /\ Ended
  BY DEF LineInv
<1>3. /\ DMA \in 0 .. RXBUFSIZE - 1 /\ last \in 0 .. RXBUFSIZE - 1
      /\ RXBUFSIZE \in Nat
  BY <1>2, Sizes DEF LineTypeOK
<1>4. /\ line' = line /\ place' = place /\ dmabuf' = dmabuf /\ DMA' = DMA
      /\ UNCHANGED <<last, ring, overflow, polled, thread, buf, ptr, queue,
                     refused, got>>
      /\ left' = IF last <= DMA THEN DMA - last ELSE DMA - last + RXBUFSIZE
  <2>1. left' = (DMA + RXBUFSIZE - last) % RXBUFSIZE
    BY DEF RxTimer
  <2> QED BY <1>3, <2>1, Rounds DEF RxTimer, port, assembler
<1>5. Port(h)'
  <2>1. left' <= left'
    BY <1>3, <1>4
  <2> QED BY <1>1, <1>4, <2>1 DEF Port, Unread
<1>6. LineTypeOK' /\ Ended'
  <2>1. left' \in 0 .. RXBUFSIZE - 1
    BY <1>3, <1>4
  <2>2. LineTypeOK'
    BY <1>2, <1>4, <2>1 DEF LineTypeOK
  <2> QED BY <1>2, <1>4, <2>2 DEF Ended
<1>7. PICK z : z = h[last] /\ Ring(g, z)
  BY <1>1
<1>8. Ring(g, z)' /\ z = h[last']
  BY <1>4, <1>7, RingStays
<1>9. "continue" \notin refused' => Assembles(g[1])'
  BY <1>1, <1>4, AssemblesStays
<1> QED BY <1>5, <1>6, <1>8, <1>9, Together

\* A character is put into the ring, or the ring is where the rest of the
\* line is ignored.
LEMMA InputStep ==
  ASSUME SerialLineAssumption, NEW g, NEW z \in Positions, NEW w \in Positions,
         NEW x, Ring(g, z), Sends(z, x, w), serial_line_input_byte(x),
         ring \in Seq(Char \cup {END}), overflow \in BOOLEAN,
         Len(ring) < BUFSIZE
  PROVE  /\ \E e : Ring(e, w)' /\ e[1] = g[1]
         /\ ring' \in Seq(Char \cup {END}) /\ overflow' \in BOOLEAN
         /\ Len(ring') < BUFSIZE
         /\ polled' = polled \/ polled' = TRUE
<1>1. /\ Len(ring) \in Nat /\ BUFSIZE \in Nat
      /\ g \in [1 .. Len(ring) + 1 -> Positions]
      /\ \A i \in 1 .. Len(ring) : Expects(g[i], ring[i], g[i + 1])
      /\ g[Len(ring) + 1][1] <= z[1]
      /\ ~ overflow => g[Len(ring) + 1] = z
  BY Sizes DEF Ring
<1>2. z[1] <= w[1] /\ z[1] \in Nat /\ w[1] \in Nat
  <2>1. z[1] \in Nat /\ w[1] \in Nat
    BY PositionIs
  <2>2. CASE w = z
    BY <2>1, <2>2
  <2>3. CASE w = <<z[1] + 1, 1>> \/ w = <<z[1], z[2] + 1>>
    BY <2>1, <2>3
  <2> QED BY <2>1, <2>2, <2>3 DEF Sends
<1>3. g[Len(ring) + 1] \in Positions /\ g[Len(ring) + 1][1] \in Nat
  <2>1. g[Len(ring) + 1] \in Positions
    BY <1>1
  <2> QED BY <2>1, PositionIs
<1>4. CASE x = CR
  <2>1. ring' = ring /\ overflow' = overflow /\ polled' = polled
    BY <1>4 DEF serial_line_input_byte
  <2>2. w = z
    BY <1>4, Kinds DEF Sends
  <2>3. Ring(g, w)'
    BY <2>1, <2>2, RingStays
  <2> QED BY <2>1, <2>3
<1>5. CASE x # CR /\ ~ Taken(x)
  <2>1. ring' = ring /\ overflow' = TRUE /\ polled' = TRUE
    <3>1. /\ ring' = ring /\ polled' = TRUE
          /\ overflow' = IF overflow THEN ~ Taken(x) ELSE ~ Fits
      BY <1>5 DEF serial_line_input_byte
    <3>2. CASE overflow
      BY <1>5, <3>1, <3>2
    <3>3. CASE ~ overflow
      <4>1. ~ Fits
        BY <1>5, <3>3 DEF Taken
      <4> QED BY <3>1, <3>3, <4>1
    <3> QED BY <3>1, <3>2, <3>3
  <2>2. g[Len(ring) + 1][1] <= w[1]
    BY <1>1, <1>2, <1>3
  <2>3. Ring(g, w)'
    BY <1>1, <2>1, <2>2 DEF Ring
  <2> QED BY <2>1, <2>3
<1>6. CASE x # CR /\ Taken(x)
  <2>1. /\ ring' = Append(ring, x) /\ polled' = TRUE /\ overflow' = FALSE
        /\ Fits /\ (overflow => x = END)
    <3>1. /\ ring' = Append(ring, x) /\ polled' = TRUE
          /\ overflow' = IF overflow THEN ~ Taken(x) ELSE ~ Fits
      BY <1>6 DEF serial_line_input_byte
    <3>2. Fits /\ (overflow => x = END)
      BY <1>6 DEF Taken
    <3> QED BY <1>6, <3>1, <3>2
  <2>2. x \in Char \cup {END}
    BY <1>6 DEF Sends
  <2>3. /\ ring' \in Seq(Char \cup {END}) /\ Len(ring') = Len(ring) + 1
        /\ \A i \in 1 .. Len(ring) : ring'[i] = ring[i]
        /\ ring'[Len(ring) + 1] = x
    BY <1>1, <2>1, <2>2
  <2>4. Len(ring') < BUFSIZE
    BY <1>1, <2>1, <2>3 DEF Fits
  <2>5. Expects(g[Len(ring) + 1], x, w)
    <3>1. CASE x = END
      <4>1. w = <<z[1] + 1, 1>>
        BY <3>1, Kinds DEF Sends
      <4>2. w[1] = z[1] + 1 /\ w[2] = 1
        BY <4>1
      <4>3. w[1] > g[Len(ring) + 1][1]
        BY <1>1, <1>2, <1>3, <4>2
      <4> QED BY <3>1, <4>2, <4>3 DEF Expects
    <3>2. CASE x # END
      <4>1. g[Len(ring) + 1] = z
        BY <1>1, <2>1, <3>2
      <4>2. x = z /\ x \in Char /\ w = <<z[1], z[2] + 1>>
        BY <1>6, <3>2 DEF Sends
      <4> QED BY <4>1, <4>2 DEF Expects
    <3> QED BY <3>1, <3>2
  <2>6. PICK n \in Nat : n = Len(ring)
    BY <1>1
  <2> DEFINE e == [i \in 1 .. n + 2 |-> IF i <= n + 1 THEN g[i] ELSE w]
  <2>7. /\ e \in [1 .. n + 2 -> Positions]
        /\ e[n + 2] = w
        /\ \A i \in 1 .. n + 1 : e[i] = g[i]
    BY <1>1, <2>6
  <2> HIDE DEF e
  <2>8. \A i \in 1 .. n + 1 : Expects(e[i], ring'[i], e[i + 1])
    <3> TAKE i \in 1 .. n + 1
    <3>1. CASE i = n + 1
      <4>1. e[i] = g[n + 1] /\ e[i + 1] = w /\ ring'[i] = x
        BY <2>3, <2>6, <2>7, <3>1
      <4> QED BY <2>5, <2>6, <4>1
    <3>2. CASE i # n + 1
      <4>1. i \in 1 .. n /\ i + 1 \in 1 .. n + 1
        BY <2>6, <3>2
      <4>2. e[i] = g[i] /\ e[i + 1] = g[i + 1] /\ ring'[i] = ring[i]
        BY <2>3, <2>6, <2>7, <4>1
      <4> QED BY <1>1, <2>6, <4>1, <4>2
    <3> QED BY <3>1, <3>2
  <2>9. Len(ring') + 1 = n + 2 /\ Len(ring') = n + 1
    BY <2>3, <2>6
  <2>10. w[1] <= w[1]
    BY <1>2
  <2>11. Ring(e, w)'
    <3>1. e \in [1 .. Len(ring') + 1 -> Positions]
      BY <2>6, <2>7, <2>9
    <3>2. \A i \in 1 .. Len(ring') : Expects(e[i], ring'[i], e[i + 1])
      BY <2>8, <2>9
    <3>3. e[Len(ring') + 1] = w
      BY <2>6, <2>7, <2>9
    <3> QED BY <2>10, <3>1, <3>2, <3>3 DEF Ring
  <2>12. e[1] = g[1]
    BY <1>1, <2>7
  <2>13. \E f : Ring(f, w)' /\ f[1] = g[1]
    BY <2>11, <2>12
  <2>14. overflow' \in BOOLEAN
    BY <2>1
  <2> QED BY <2>1, <2>3, <2>4, <2>13, <2>14
<1> QED BY <1>4, <1>5, <1>6

LEMMA ByteStep ==
  ASSUME SerialLineAssumption, LineInv, RxByte
  PROVE  LineInv'
<1>1. PICK h, g : /\ Port(h) /\ Ring(g, h[last])
                  /\ "continue" \notin refused => Assembles(g[1])
  BY DEF LineInv
<1>2. /\ LineTypeOK /\ Ended /\ RXBUFSIZE \in Nat /\ RXBUFSIZE > 1
  BY Sizes DEF LineInv
<1>3. /\ DMA \in 0 .. RXBUFSIZE - 1 /\ last \in 0 .. RXBUFSIZE - 1
      /\ left \in 0 .. RXBUFSIZE - 1
      /\ ring \in Seq(Char \cup {END}) /\ Len(ring) < BUFSIZE
      /\ overflow \in BOOLEAN /\ polled \in BOOLEAN
  BY <1>2 DEF LineTypeOK
<1>4. /\ left > 0 /\ left' = left - 1 /\ last' = Round(last)
      /\ line' = line /\ place' = place /\ dmabuf' = dmabuf /\ DMA' = DMA
      /\ UNCHANGED <<thread, buf, ptr, queue, refused, got>>
      /\ serial_line_input_byte(dmabuf[last])
  BY DEF RxByte, port, assembler
<1>5. PICK l \in 0 .. RXBUFSIZE - 1 : l = last
  BY <1>3
<1>6. PICK k \in 0 .. RXBUFSIZE - 1 :
        k = Round(l) /\ k = IF l = RXBUFSIZE - 1 THEN 0 ELSE l + 1
  BY Rounds
<1>7. PICK x, z, w : x = dmabuf[l] /\ z = h[l] /\ w = h[k]
  OBVIOUS
<1>8. /\ z \in Positions /\ w \in Positions
      /\ left <= IF l <= DMA THEN DMA - l ELSE DMA - l + RXBUFSIZE
      /\ \A j \in 0 .. RXBUFSIZE - 1 :
           Unread(j) => Sends(h[j], dmabuf[j], h[Round(j)])
  BY <1>1, <1>5, <1>7 DEF Port
<1>9. Unread(l)
  BY <1>2, <1>3, <1>4, <1>5, <1>8 DEF Unread
<1>10. Sends(z, x, w)
  BY <1>6, <1>7, <1>8, <1>9
<1>11. Port(h)'
  <2>1. \A j \in 0 .. RXBUFSIZE - 1 : Unread(j)' => Unread(j)
    BY <1>2, <1>3, <1>4, <1>5, <1>6, <1>8 DEF Unread
  <2>2. left' <= IF last' <= DMA' THEN DMA' - last'
                                  ELSE DMA' - last' + RXBUFSIZE
    BY <1>2, <1>3, <1>4, <1>5, <1>6, <1>8
  <2> QED BY <1>1, <1>4, <2>1, <2>2 DEF Port
<1>12. /\ \E e : Ring(e, w)' /\ e[1] = g[1]
       /\ ring' \in Seq(Char \cup {END}) /\ overflow' \in BOOLEAN
       /\ Len(ring') < BUFSIZE
       /\ polled' = polled \/ polled' = TRUE
  <2>1. Ring(g, z) /\ serial_line_input_byte(x)
    BY <1>1, <1>4, <1>5, <1>7
  <2> QED BY <1>3, <1>8, <1>10, <2>1, InputStep
<1>13. PICK e : Ring(e, w)' /\ e[1] = g[1]
  BY <1>12
<1>14. LineTypeOK' /\ Ended'
  <2>1. last' \in 0 .. RXBUFSIZE - 1 /\ left' \in 0 .. RXBUFSIZE - 1
    BY <1>2, <1>3, <1>4, <1>5, <1>6
  <2>2. LineTypeOK'
    BY <1>2, <1>3, <1>4, <1>12, <2>1 DEF LineTypeOK
  <2> QED BY <1>2, <1>4, <2>2 DEF Ended
<1>15. "continue" \notin refused' => Assembles(e[1])'
  <2>1. PICK v : v = g[1]
    OBVIOUS
  <2>2. Assembles(v) => Assembles(v)'
    BY <1>4, AssemblesStays
  <2>3. "continue" \notin refused' => Assembles(v)'
    BY <1>1, <1>4, <2>1, <2>2
  <2> QED BY <1>13, <2>1, <2>3
<1> QED BY <1>4, <1>5, <1>6, <1>7, <1>11, <1>13, <1>14, <1>15, Together

-----------------------------------------------------------------------------
(* The process takes a character from the ring.                            *)

LEMMA TakesOne ==
  ASSUME NEW g, NEW z, Ring(g, z), ring \in Seq(Char \cup {END}), ring # << >>,
         ring' = Tail(ring), overflow' = overflow
  PROVE  \E e : /\ Ring(e, z)' /\ e[1] = g[2]
                /\ g[1] \in Positions /\ g[2] \in Positions
                /\ Expects(g[1], Head(ring), g[2])
<1>1. PICK n \in Nat : n = Len(ring)
  <2>1. Len(ring) \in Nat
    OBVIOUS
  <2> QED BY <2>1
<1>2. n # 0 /\ Head(ring) = ring[1]
  BY <1>1
<1>3. /\ g \in [1 .. n + 1 -> Positions]
      /\ \A i \in 1 .. n : Expects(g[i], ring[i], g[i + 1])
      /\ g[n + 1][1] <= z[1]
      /\ ~ overflow => g[n + 1] = z
  BY <1>1 DEF Ring
<1> DEFINE e == [i \in 1 .. n |-> g[i + 1]]
<1>4. e \in [1 .. n -> Positions] /\ \A i \in 1 .. n : e[i] = g[i + 1]
  <2>1. \A i \in 1 .. n : i + 1 \in 1 .. n + 1
    BY <1>1
  <2> QED BY <1>3, <2>1
<1> HIDE DEF e
<1>5. Len(ring') = n - 1 /\ \A i \in 1 .. n - 1 : ring'[i] = ring[i + 1]
  BY <1>1, <1>2
<1>6. \A i \in 1 .. n - 1 : Expects(e[i], ring'[i], e[i + 1])
  <2> TAKE i \in 1 .. n - 1
  <2>1. i \in 1 .. n /\ i + 1 \in 1 .. n
    BY <1>1
  <2>2. e[i] = g[i + 1] /\ e[i + 1] = g[(i + 1) + 1] /\ ring'[i] = ring[i + 1]
    BY <1>4, <1>5, <2>1
  <2> QED BY <1>3, <2>1, <2>2
<1>7. Ring(e, z)'
  <2>1. Len(ring') + 1 = n
    BY <1>1, <1>2, <1>5
  <2>2. e \in [1 .. Len(ring') + 1 -> Positions]
    BY <1>4, <2>1
  <2>3. \A i \in 1 .. Len(ring') : Expects(e[i], ring'[i], e[i + 1])
    BY <1>5, <1>6
  <2>4. e[Len(ring') + 1] = g[n + 1]
    BY <1>1, <1>2, <1>4, <2>1
  <2> QED BY <1>3, <2>2, <2>3, <2>4 DEF Ring
<1>8. e[1] = g[2] /\ 1 \in 1 .. n /\ 1 \in 1 .. n + 1 /\ 2 \in 1 .. n + 1
  BY <1>1, <1>2, <1>4
<1>9. Expects(g[1], Head(ring), g[2])
  <2>1. Expects(g[1], ring[1], g[1 + 1])
    BY <1>3, <1>8
  <2> QED BY <1>2, <2>1
<1> QED BY <1>3, <1>7, <1>8, <1>9

LEMMA RingTypes ==
  ASSUME SerialLineAssumption, ring \in Seq(Char \cup {END}), ring # << >>,
         Len(ring) < BUFSIZE, ring' = Tail(ring)
  PROVE  /\ ring' \in Seq(Char \cup {END}) /\ Len(ring') < BUFSIZE
         /\ Head(ring) \in Char \cup {END}
BY Sizes

LEMMA EmptyStep ==
  ASSUME SerialLineAssumption, LineInv, Empty
  PROVE  LineInv'
<1>1. PICK h, g : /\ Port(h) /\ Ring(g, h[last])
                  /\ "continue" \notin refused => Assembles(g[1])
  BY DEF LineInv
<1>2. PICK z : z = h[last] /\ Ring(g, z)
  BY <1>1
<1>3. /\ thread = "run" /\ thread' = "yield"
      /\ UNCHANGED <<port, last, left, ring, overflow, polled, buf, ptr, queue,
                     refused, got>>
  BY DEF Empty, reader
<1>4. Port(h)' /\ Ring(g, z)' /\ z = h[last']
  BY <1>1, <1>2, <1>3, PortStays, RingStays
<1>5. LineTypeOK' /\ Ended'
  BY <1>3 DEF LineInv, LineTypeOK, Ended, port
<1>6. "continue" \notin refused' => Assembles(g[1])'
  <2>1. PICK v : v = g[1]
    OBVIOUS
  <2>2. Assembles(v) => Assembles(v)'
    BY <1>3 DEF Assembles, Given, Earlier, Holds
  <2> QED BY <1>1, <1>3, <2>1, <2>2
<1> QED BY <1>4, <1>5, <1>6, Together

LEMMA FillStep ==
  ASSUME SerialLineAssumption, LineInv, Fill
  PROVE  LineInv'
<1>1. PICK h, g : /\ Port(h) /\ Ring(g, h[last])
                  /\ "continue" \notin refused => Assembles(g[1])
  BY DEF LineInv
<1>2. PICK z : z = h[last] /\ Ring(g, z)
  BY <1>1
<1>3. /\ thread = "run" /\ ring # << >> /\ Head(ring) # END
      /\ ring' = Tail(ring)
      /\ UNCHANGED <<port, last, left, overflow, polled, thread, queue,
                     refused, got>>
  BY DEF Fill
<1>4. /\ LineTypeOK /\ Ended /\ ring \in Seq(Char \cup {END})
      /\ Len(ring) < BUFSIZE /\ BUFSIZE \in Nat /\ BUFSIZE > 1
      /\ buf \in [0 .. BUFSIZE - 1 -> Char \cup {NUL}] /\ ptr \in 0 .. BUFSIZE
  BY Sizes DEF LineInv, LineTypeOK
<1>5. PICK e : /\ Ring(e, z)' /\ e[1] = g[2]
               /\ g[1] \in Positions /\ g[2] \in Positions
               /\ Expects(g[1], Head(ring), g[2])
  BY <1>2, <1>3, <1>4, TakesOne
<1>6. PICK v, y : v = g[1] /\ y = g[2]
  OBVIOUS
<1>7. /\ Head(ring) = v /\ v \in Char /\ y = <<v[1], v[2] + 1>>
      /\ v \in Positions
  BY <1>3, <1>5, <1>6 DEF Expects
<1>8. v[1] \in Nat /\ v[2] \in Nat /\ v = <<v[1], v[2]>>
  BY <1>7, PositionIs
<1>9. y[1] = v[1] /\ y[2] = v[2] + 1
  BY <1>7
<1>10. Port(h)' /\ z = h[last']
  BY <1>1, <1>2, <1>3, PortStays
<1>11. LineTypeOK' /\ Ended'
  <2>1. ring' \in Seq(Char \cup {END}) /\ Len(ring') < BUFSIZE
    BY <1>3, <1>4, RingTypes
  <2>2. /\ buf' \in [0 .. BUFSIZE - 1 -> Char \cup {NUL}]
        /\ ptr' \in 0 .. BUFSIZE /\ buf'[BUFSIZE - 1] = NUL
        /\ ptr' < BUFSIZE
    <3>1. ptr < BUFSIZE /\ buf[BUFSIZE - 1] = NUL
      BY <1>3, <1>4 DEF Ended
    <3>2. CASE ptr < BUFSIZE - 1
      <4>1. buf' = [buf EXCEPT ![ptr] = v] /\ ptr' = ptr + 1
        BY <1>7, <3>2 DEF Fill
      <4> QED BY <1>4, <1>7, <3>1, <3>2, <4>1
    <3>3. CASE ~ ptr < BUFSIZE - 1
      <4>1. buf' = buf /\ ptr' = ptr
        BY <3>3 DEF Fill
      <4> QED BY <1>4, <3>1, <4>1
    <3> QED BY <3>2, <3>3
  <2>3. LineTypeOK'
    BY <1>3, <1>4, <2>1, <2>2 DEF LineTypeOK, port
  <2> QED BY <2>2, <2>3 DEF Ended
<1>12. ASSUME Assembles(v) PROVE Assembles(y)'
  <2>1. /\ Given /\ Earlier(v[1]) /\ Holds(v[1], ptr)
        /\ ptr < BUFSIZE - 1 => v[2] = ptr + 1
        /\ \A i \in DOMAIN queue : queue[i] = "other"
    BY <1>3, <1>12 DEF Assembles
  <2>2. Given' /\ Earlier(y[1])'
    BY <1>3, <1>9, <2>1 DEF Given, Earlier
  <2>3. Holds(y[1], ptr)' /\ (ptr' < BUFSIZE - 1 => y[2] = ptr' + 1)
    <3>1. CASE ptr < BUFSIZE - 1
      <4>1. buf' = [buf EXCEPT ![ptr] = v] /\ ptr' = ptr + 1
        BY <1>7, <3>1 DEF Fill
      <4>2. v = <<v[1], ptr + 1>>
        BY <1>8, <2>1, <3>1
      <4>3. \A k \in 0 .. ptr' - 1 : buf'[k] = <<y[1], k + 1>>
        <5> TAKE k \in 0 .. ptr' - 1
        <5>1. k \in 0 .. BUFSIZE - 1 /\ ptr \in 0 .. BUFSIZE - 1
          BY <1>4, <3>1, <4>1
        <5>2. CASE k = ptr
          BY <1>4, <1>9, <4>1, <4>2, <5>1, <5>2
        <5>3. CASE k # ptr
          <6>1. k \in 0 .. ptr - 1
            BY <1>4, <4>1, <5>3
          <6> QED BY <1>4, <1>9, <2>1, <4>1, <5>1, <5>3, <6>1 DEF Holds
        <5> QED BY <5>2, <5>3
      <4>4. ptr' < BUFSIZE - 1 => y[2] = ptr' + 1
        BY <1>9, <2>1, <3>1, <4>1
      <4> QED BY <4>3, <4>4 DEF Holds
    <3>2. CASE ~ ptr < BUFSIZE - 1
      <4>1. buf' = buf /\ ptr' = ptr
        BY <3>2 DEF Fill
      <4> QED BY <1>9, <2>1, <3>2, <4>1 DEF Holds
    <3> QED BY <3>1, <3>2
  <2> QED BY <1>3, <2>1, <2>2, <2>3 DEF Assembles
<1>13. "continue" \notin refused' => Assembles(e[1])'
  BY <1>1, <1>3, <1>5, <1>6, <1>12
<1> QED BY <1>5, <1>10, <1>11, <1>13, Together

\* What the queue of events is when the end of a line is told.
LEMMA PostedIs ==
  ASSUME SerialLineAssumption, NEW q \in Seq({"line", "continue", "other"}),
         Len(q) <= NumEvents, NEW ev \in {"line", "continue", "other"}
  PROVE  /\ Posted(q, ev) \in Seq({"line", "continue", "other"})
         /\ Len(Posted(q, ev)) <= NumEvents
         /\ Posted(q, ev) # q => Posted(q, ev) = Append(q, ev)
         /\ Posted(q, ev) # q => /\ Len(Posted(q, ev)) = Len(q) + 1
                                 /\ Posted(q, ev)[Len(q) + 1] = ev
                                 /\ \A i \in 1 .. Len(q) :
                                        Posted(q, ev)[i] = q[i]
BY Sizes DEF Posted

LEMMA TerminateStep ==
  ASSUME SerialLineAssumption, LineInv, Terminate
  PROVE  LineInv'
<1>1. PICK h, g : /\ Port(h) /\ Ring(g, h[last])
                  /\ "continue" \notin refused => Assembles(g[1])
  BY DEF LineInv
<1>2. PICK z : z = h[last] /\ Ring(g, z)
  BY <1>1
<1>3. PICK told, asked :
        /\ told = Posted(queue, "line") /\ asked = Posted(told, "continue")
        /\ thread = "run" /\ ring # << >> /\ Head(ring) = END
        /\ buf' = [buf EXCEPT ![ptr] = NUL] /\ queue' = asked
        /\ IF asked # told THEN thread' = "wait" /\ ptr' = ptr + 1
                           ELSE thread' = thread /\ ptr' = 0
        /\ ring' = Tail(ring)
        /\ refused' = refused \cup {ev \in {"line", "continue"} :
                                    IF ev = "line" THEN told = queue
                                    ELSE told # queue /\ asked = told}
        /\ UNCHANGED <<port, last, left, overflow, polled, got>>
  BY DEF Terminate
<1>4. /\ LineTypeOK /\ Ended /\ ring \in Seq(Char \cup {END})
      /\ Len(ring) < BUFSIZE /\ BUFSIZE \in Nat /\ BUFSIZE > 1
      /\ buf \in [0 .. BUFSIZE - 1 -> Char \cup {NUL}] /\ ptr \in 0 .. BUFSIZE
      /\ ptr < BUFSIZE /\ buf[BUFSIZE - 1] = NUL
      /\ queue \in Seq({"line", "continue", "other"})
      /\ Len(queue) <= NumEvents
  BY <1>3, Sizes DEF LineInv, LineTypeOK, Ended
<1>5. PICK e : /\ Ring(e, z)' /\ e[1] = g[2]
               /\ g[1] \in Positions /\ g[2] \in Positions
               /\ Expects(g[1], Head(ring), g[2])
  BY <1>2, <1>3, <1>4, TakesOne
<1>6. PICK v, y : v = g[1] /\ y = g[2]
  OBVIOUS
<1>7. v \in Positions /\ y \in Positions /\ y[1] > v[1] /\ y[2] = 1
  BY <1>3, <1>5, <1>6, Kinds DEF Expects
<1>8. /\ v[1] \in Nat /\ v[1] # 0 /\ v[2] \in Nat /\ y[1] \in Nat
  BY <1>7, PositionIs
<1>9. Port(h)' /\ z = h[last']
  BY <1>1, <1>2, <1>3, PortStays
<1>10. /\ told \in Seq({"line", "continue", "other"}) /\ Len(told) <= NumEvents
       /\ told # queue => /\ Len(told) = Len(queue) + 1
                          /\ told[Len(queue) + 1] = "line"
                          /\ \A i \in 1 .. Len(queue) : told[i] = queue[i]
  BY <1>3, <1>4, PostedIs
<1>11. /\ asked \in Seq({"line", "continue", "other"})
       /\ Len(asked) <= NumEvents
       /\ asked # told => /\ Len(asked) = Len(told) + 1
                          /\ asked[Len(told) + 1] = "continue"
                          /\ \A i \in 1 .. Len(told) : asked[i] = told[i]
  BY <1>3, <1>10, PostedIs
<1>12. buf' \in [0 .. BUFSIZE - 1 -> Char \cup {NUL}]
         /\ buf'[BUFSIZE - 1] = NUL
       /\ buf'[ptr] = NUL /\ \A k \in 0 .. ptr - 1 : buf'[k] = buf[k]
  <2>1. ptr \in 0 .. BUFSIZE - 1
    BY <1>4
  <2>2. \A k \in 0 .. ptr - 1 : k \in 0 .. BUFSIZE - 1 /\ k # ptr
    BY <1>4
  <2> QED BY <1>3, <1>4, <2>1, <2>2
<1>13. LineTypeOK' /\ Ended'
  <2>1. ring' \in Seq(Char \cup {END}) /\ Len(ring') < BUFSIZE
    BY <1>3, <1>4, RingTypes
  <2>2. /\ thread' \in {"yield", "run", "wait"} /\ ptr' \in 0 .. BUFSIZE
        /\ thread' # "wait" => ptr' < BUFSIZE
    BY <1>3, <1>4
  <2>3. refused' \subseteq {"line", "continue"}
    BY <1>3, <1>4 DEF LineTypeOK
  <2>4. LineTypeOK'
    BY <1>3, <1>4, <1>11, <1>12, <2>1, <2>2, <2>3 DEF LineTypeOK, port
  <2> QED BY <1>12, <2>2, <2>4 DEF Ended
<1>14. ASSUME Assembles(v), "continue" \notin refused' PROVE Assembles(y)'
  <2>1. /\ Given /\ Earlier(v[1]) /\ Holds(v[1], ptr)
        /\ \A i \in 1 .. Len(queue) : queue[i] = "other"
    BY <1>3, <1>4, <1>14 DEF Assembles
  <2>2. Given' /\ Earlier(v[1])'
    BY <1>3, <2>1 DEF Given, Earlier
  <2>3. Earlier(y[1])'
    <3>1. ASSUME NEW n \in DOMAIN got', got'[n] # << >>
          PROVE  got'[n][1][1] < y[1]
      <4>1. /\ n \in DOMAIN got /\ got[n] # << >> /\ got'[n] = got[n]
            /\ got[n] \in Seq(Char)
        BY <1>3, <1>4, <3>1 DEF LineTypeOK
      <4>2. got[n][1] \in Char
        BY <4>1
      <4>3. got[n][1][1] \in Nat
        BY <4>2, Kinds
      <4>4. got[n][1][1] < v[1]
        BY <2>1, <4>1 DEF Earlier
      <4> QED BY <1>7, <1>8, <4>1, <4>3, <4>4
    <3> QED BY <3>1 DEF Earlier
  <2>4. CASE told = queue
    <3>1. asked = told
      <4>1. ~ Len(queue) < NumEvents
        <5>1. Len(queue) < NumEvents => told = Append(queue, "line")
          BY <1>3 DEF Posted
        <5> QED BY <1>4, <2>4, <5>1
      <4> QED BY <1>3, <2>4, <4>1 DEF Posted
    <3>2. /\ queue' = queue /\ thread' = "run" /\ ptr' = 0
      BY <1>3, <2>4, <3>1
    <3>3. /\ Holds(y[1], ptr)' /\ y[2] = ptr' + 1
      <4>1. \A k \in 0 .. ptr' - 1 : FALSE
        BY <3>2
      <4> QED BY <1>7, <3>2, <4>1 DEF Holds
    <3>4. \A i \in DOMAIN queue' : queue'[i] = "other"
      BY <1>4, <2>1, <3>2
    <3> QED BY <2>2, <2>3, <3>2, <3>3, <3>4 DEF Assembles
  <2>5. CASE told # queue
    <3>1. asked # told
      BY <1>3, <1>14, <2>5
    <3>2. queue' = asked /\ thread' = "wait" /\ ptr' = ptr + 1
      BY <1>3, <3>1
    <3>3. PICK n \in Nat : n = Len(queue)
      <4>1. Len(queue) \in Nat
        BY <1>4
      <4> QED BY <4>1
    <3>4. /\ Len(queue') = n + 2 /\ DOMAIN queue' = 1 .. n + 2
          /\ queue'[n + 1] = "line" /\ queue'[n + 2] = "continue"
          /\ \A i \in 1 .. n : queue'[i] = "other"
      <4>1. /\ Len(told) = n + 1 /\ told[n + 1] = "line"
            /\ \A i \in 1 .. n : told[i] = "other"
        BY <1>10, <2>1, <2>5, <3>3
      <4>2. Len(asked) = n + 2 /\ asked[n + 2] = "continue"
            /\ \A i \in 1 .. n + 1 : asked[i] = told[i]
        BY <1>11, <3>1, <3>3, <4>1
      <4>3. n + 1 \in 1 .. n + 1 /\ \A i \in 1 .. n : i \in 1 .. n + 1
        BY <3>3
      <4>4. DOMAIN asked = 1 .. Len(asked)
        BY <1>11
      <4> QED BY <3>2, <4>1, <4>2, <4>3, <4>4
    <3>5. \A i \in 1 .. n + 2 : i \in 1 .. n \/ i = n + 1 \/ i = n + 2
      BY <3>3
    <3>6. n + 2 \in 1 .. n + 2 /\ n + 1 < n + 2
      BY <3>3
    <3>7. Told(v[1])'
      <4>1. \A i \in 1 .. n + 2 : /\ queue'[i] = "continue" => i = n + 2
                                  /\ queue'[i] = "line" => i = n + 1
        BY <3>4, <3>5
      <4>2. \A i \in DOMAIN queue' : queue'[i] = "continue" => i = n + 2
        BY <3>4, <4>1
      <4>3. \A i \in DOMAIN queue' : queue'[i] = "line" =>
              i < n + 2 /\ Earlier(v[1])'
        BY <2>2, <3>4, <3>6, <4>1
      <4>4. \A i, j \in DOMAIN queue' :
              queue'[i] = "line" /\ queue'[j] = "line" => i = j
        BY <3>4, <4>1
      <4>5. n + 2 \in DOMAIN queue' /\ queue'[n + 2] = "continue"
        BY <3>4, <3>6
      <4> QED BY <4>2, <4>3, <4>4, <4>5 DEF Told
    <3>8. /\ v[1] < y[1] /\ y[2] = 1 /\ ptr' > 0
          /\ buf'[ptr' - 1] = NUL /\ v[1] \in Nat \ {0}
      BY <1>4, <1>7, <1>8, <1>12, <3>2
    <3>9. Holds(v[1], ptr - 1)'
      <4>1. ptr' - 1 = ptr
        BY <1>4, <3>2
      <4> QED BY <1>12, <2>1, <4>1 DEF Holds
    <3> QED BY <2>2, <2>3, <3>2, <3>7, <3>8, <3>9 DEF Assembles
  <2> QED BY <2>4, <2>5
<1>15. "continue" \notin refused' => Assembles(e[1])'
  <2>1. "continue" \notin refused' => "continue" \notin refused
    BY <1>3
  <2> QED BY <1>1, <1>5, <1>6, <1>14, <2>1
<1> QED BY <1>5, <1>9, <1>13, <1>15, Together

-----------------------------------------------------------------------------
(* The main loop.                                                          *)

LEMMA PollStep ==
  ASSUME SerialLineAssumption, LineInv, Poll
  PROVE  LineInv'
<1>1. PICK h, g : /\ Port(h) /\ Ring(g, h[last])
                  /\ "continue" \notin refused => Assembles(g[1])
  BY DEF LineInv
<1>2. PICK z : z = h[last] /\ Ring(g, z)
  BY <1>1
<1>3. /\ polled' = FALSE
      /\ thread' = IF thread = "yield" THEN "run" ELSE thread
      /\ UNCHANGED <<port, last, left, ring, overflow, buf, ptr, queue,
                     refused, got>>
  BY DEF Poll
<1>4. Port(h)' /\ Ring(g, z)' /\ z = h[last']
  BY <1>1, <1>2, <1>3, PortStays, RingStays
<1>5. LineTypeOK' /\ Ended'
  BY <1>3 DEF LineInv, LineTypeOK, Ended, port
<1>6. "continue" \notin refused' => Assembles(g[1])'
  <2>1. PICK v : v = g[1]
    OBVIOUS
  <2>2. ASSUME Assembles(v) PROVE Assembles(v)'
    <3>1. thread' = "wait" <=> thread = "wait"
      BY <1>3
    <3>2. \A m : Earlier(m) => Earlier(m)'
      BY <1>3 DEF Earlier
    <3>3. \A m : Told(m) => Told(m)'
      BY <1>3, <3>2 DEF Told
    <3>4. \A m, n : Holds(m, n) => Holds(m, n)'
      BY <1>3 DEF Holds
    <3>5. Given => Given'
      BY <1>3 DEF Given
    <3> QED BY <1>3, <2>2, <3>1, <3>2, <3>3, <3>4, <3>5 DEF Assembles
  <2> QED BY <1>1, <1>3, <2>1, <2>2
<1> QED BY <1>4, <1>5, <1>6, Together

\* What is left when the first event is taken.
LEMMA TailIs ==
  ASSUME NEW S, NEW q \in Seq(S), q # << >>
  PROVE  /\ Tail(q) \in Seq(S) /\ Len(q) \in Nat /\ Len(q) > 0
         /\ Len(Tail(q)) = Len(q) - 1
         /\ DOMAIN q = 1 .. Len(q) /\ DOMAIN Tail(q) = 1 .. Len(q) - 1
         /\ Head(q) = q[1] /\ 1 \in DOMAIN q
         /\ \A i \in 1 .. Len(q) - 1 :
              Tail(q)[i] = q[i + 1] /\ i + 1 \in 1 .. Len(q)
<1>1. Tail(q) \in Seq(S) /\ Len(q) \in Nat /\ Len(q) > 0
  OBVIOUS
<1>2. Len(Tail(q)) = Len(q) - 1
  OBVIOUS
<1>3. DOMAIN q = 1 .. Len(q) /\ DOMAIN Tail(q) = 1 .. Len(q) - 1
  BY <1>1, <1>2
<1>4. Head(q) = q[1] /\ 1 \in DOMAIN q
  BY <1>1, <1>3
<1>5. \A i \in 1 .. Len(q) - 1 : Tail(q)[i] = q[i + 1] /\ i + 1 \in 1 .. Len(q)
  BY <1>1, <1>3
<1> QED BY <1>1, <1>2, <1>3, <1>4, <1>5

\* What all events have in common.
LEMMA Taking ==
  ASSUME SerialLineAssumption, LineInv, NEW ev, TakeEvent(ev)
  PROVE  /\ queue # << >> /\ queue \in Seq({"line", "continue", "other"})
         /\ queue' \in Seq({"line", "continue", "other"})
         /\ Len(queue') <= NumEvents /\ queue' = Tail(queue)
         /\ Head(queue) = ev
         /\ line' = line /\ place' = place /\ dmabuf' = dmabuf /\ DMA' = DMA
         /\ UNCHANGED <<last, left, ring, overflow, polled, buf, refused>>
<1>1. /\ queue # << >> /\ Head(queue) = ev /\ queue' = Tail(queue)
      /\ UNCHANGED <<port, reader, buf, refused>>
  BY DEF TakeEvent
<1>2. /\ queue \in Seq({"line", "continue", "other"})
      /\ Len(queue) <= NumEvents /\ NumEvents \in Nat
  BY Sizes DEF LineInv, LineTypeOK
<1>3. queue' \in Seq({"line", "continue", "other"}) /\ Len(queue') <= NumEvents
  BY <1>1, <1>2, TailIs
<1> QED BY <1>1, <1>2, <1>3 DEF port, reader

\* What all events preserve.
LEMMA EventStays ==
  ASSUME SerialLineAssumption, LineInv, NEW ev, TakeEvent(ev),
         thread' \in {"yield", "run", "wait"}, ptr' \in 0 .. BUFSIZE,
         thread' # "wait" => ptr' < BUFSIZE, got' \in Seq(Seq(Char)),
         \A v \in Positions : Assembles(v) => Assembles(v)'
  PROVE  LineInv'
<1>1. PICK h, g : /\ Port(h) /\ Ring(g, h[last])
                  /\ "continue" \notin refused => Assembles(g[1])
  BY DEF LineInv
<1>2. PICK z : z = h[last] /\ Ring(g, z)
  BY <1>1
<1>3. /\ line' = line /\ place' = place /\ dmabuf' = dmabuf /\ DMA' = DMA
      /\ UNCHANGED <<last, left, ring, overflow, polled, buf, refused>>
      /\ queue' \in Seq({"line", "continue", "other"})
      /\ Len(queue') <= NumEvents
  BY Taking
<1>4. Port(h)' /\ Ring(g, z)' /\ z = h[last']
  BY <1>1, <1>2, <1>3, PortStays, RingStays DEF port
<1>5. LineTypeOK' /\ Ended'
  BY <1>3 DEF LineInv, LineTypeOK, Ended
<1>6. g[1] \in Positions
  <2>1. g \in [1 .. Len(ring) + 1 -> Positions]
    BY <1>2 DEF Ring
  <2>2. ring \in Seq(Char \cup {END})
    BY DEF LineInv, LineTypeOK
  <2>3. 1 \in 1 .. Len(ring) + 1
    <3>1. Len(ring) \in Nat
      BY <2>2
    <3> QED BY <3>1
  <2> QED BY <2>1, <2>3
<1>7. "continue" \notin refused' => Assembles(g[1])'
  <2>1. PICK v : v = g[1]
    OBVIOUS
  <2>2. Assembles(v) => Assembles(v)'
    BY <1>6, <2>1
  <2> QED BY <1>1, <1>3, <2>1, <2>2
<1> QED BY <1>4, <1>5, <1>7, Together

\* The line that is told is the beginning of line m.
LEMMA LineEventStep ==
  ASSUME SerialLineAssumption, LineInv, LineEvent
  PROVE  LineInv'
<1>1. /\ TakeEvent("line") /\ got' = Append(got, Text(buf))
      /\ thread' = (IF thread = "yield" THEN "run" ELSE thread) /\ ptr' = ptr
  BY DEF LineEvent
<1>2. /\ queue # << >> /\ queue \in Seq({"line", "continue", "other"})
      /\ queue' = Tail(queue) /\ Head(queue) = "line" /\ buf' = buf
  BY <1>1, Taking
<1>3. /\ got \in Seq(Seq(Char)) /\ ptr \in 0 .. BUFSIZE
      /\ buf \in [0 .. BUFSIZE - 1 -> Char \cup {NUL}]
      /\ buf[BUFSIZE - 1] = NUL /\ BUFSIZE \in Nat /\ BUFSIZE > 1
      /\ thread \in {"yield", "run", "wait"}
      /\ (thread # "wait" => ptr < BUFSIZE)
  BY Sizes DEF LineInv, LineTypeOK, Ended
<1>4. PICK txt : txt = Text(buf)
  OBVIOUS
<1>5. txt \in Seq(Char)
  BY <1>3, <1>4, TextTypes
<1>6. /\ got' = Append(got, txt) /\ got' \in Seq(Seq(Char))
      /\ Len(got') = Len(got) + 1 /\ Len(got) \in Nat
      /\ got'[Len(got) + 1] = txt /\ \A n \in 1 .. Len(got) : got'[n] = got[n]
      /\ DOMAIN got = 1 .. Len(got) /\ DOMAIN got' = 1 .. Len(got')
  BY <1>1, <1>3, <1>4, <1>5
<1>7. \A n \in DOMAIN got' : n = Len(got) + 1 \/ n \in DOMAIN got
  BY <1>6
<1>8. Len(queue) \in Nat /\ Len(queue) > 0 /\ queue[1] = "line"
      /\ DOMAIN queue = 1 .. Len(queue) /\ 1 \in DOMAIN queue
      /\ DOMAIN queue' = 1 .. Len(queue) - 1
      /\ \A i \in 1 .. Len(queue) - 1 :
           queue'[i] = queue[i + 1] /\ i + 1 \in 1 .. Len(queue)
  BY <1>2, TailIs
<1>9. ASSUME NEW v \in Positions, Assembles(v) PROVE Assembles(v)'
  <2>1. thread = "wait"
    <3>1. thread # "wait" => \A i \in DOMAIN queue : queue[i] = "other"
      BY <1>9 DEF Assembles
    <3> QED BY <1>8, <3>1
  <2>2. PICK m \in Nat \ {0} : /\ m < v[1] /\ v[2] = 1 /\ ptr > 0
                               /\ Holds(m, ptr - 1) /\ buf[ptr - 1] = NUL
                               /\ Told(m)
    BY <1>9, <2>1 DEF Assembles
  <2>3. Given /\ Earlier(v[1]) /\ v[1] \in Nat
    BY <1>9, PositionIs DEF Assembles
  <2>4. PICK k \in DOMAIN queue :
          /\ queue[k] = "continue"
          /\ \A i \in DOMAIN queue : queue[i] = "continue" => i = k
          /\ \A i \in DOMAIN queue : queue[i] = "line" => i < k /\ Earlier(m)
          /\ \A i, j \in DOMAIN queue :
               queue[i] = "line" /\ queue[j] = "line" => i = j
    BY <2>2 DEF Told
  <2>5. Earlier(m) /\ k \in Nat /\ k > 1
    BY <1>8, <2>4
  <2>6. /\ ptr - 1 \in 0 .. BUFSIZE - 1
        /\ \A j \in 0 .. ptr - 2 : buf[j] = <<m, j + 1>> /\ buf[j] \in Char
    <3>1. ptr - 1 \in 0 .. BUFSIZE - 1
      BY <1>3, <2>2
    <3>2. ASSUME NEW j \in 0 .. ptr - 2
          PROVE  buf[j] = <<m, j + 1>> /\ buf[j] \in Char
      <4>1. j \in 0 .. (ptr - 1) - 1 /\ j \in 0 .. BUFSIZE - 1 /\ j \in Nat
        BY <1>3, <3>1
      <4>2. buf[j] = <<m, j + 1>>
        BY <2>2, <4>1 DEF Holds
      <4>3. m # 0 /\ m \in Nat
        BY <2>2
      <4>4. buf[j] # NUL
        BY <4>2, <4>3 DEF NUL
      <4> QED BY <1>3, <4>1, <4>2, <4>4
    <3> QED BY <3>1, <3>2
  <2>7. txt = [j \in 1 .. ptr - 1 |-> buf[j - 1]]
    <3>1. \A j \in 0 .. (ptr - 1) - 1 : buf[j] # NUL
      <4> TAKE j \in 0 .. (ptr - 1) - 1
      <4>1. j \in 0 .. ptr - 2
        BY <1>3
      <4> QED BY <2>6, <4>1, Kinds
    <3>2. DOMAIN buf = 0 .. BUFSIZE - 1
      BY <1>3
    <3> QED BY <1>4, <2>2, <2>6, <3>1, <3>2, TextIs
  <2>8. \A j \in DOMAIN txt : txt[j] = <<m, j>>
    <3>1. \A j \in 1 .. ptr - 1 : j - 1 \in 0 .. ptr - 2 /\ (j - 1) + 1 = j
      BY <1>3
    <3> QED BY <2>6, <2>7, <3>1
  <2>9. txt # << >> => txt[1][1] = m
    <3>1. txt # << >> => 1 \in DOMAIN txt
      BY <1>5
    <3> QED BY <2>8, <3>1
  <2>10. StartsOf(txt)
    <3>1. txt = << >> => DOMAIN txt = {}
      BY <1>5
    <3> QED BY <2>8, <2>9, <3>1 DEF StartsOf
  <2>11. ASSUME NEW i \in DOMAIN got', NEW j \in DOMAIN got', i < j,
                got'[i] # << >>, got'[j] # << >>
         PROVE  got'[i][1][1] < got'[j][1][1]
    <3>1. i \in DOMAIN got /\ got'[i] = got[i]
      BY <1>6, <2>11
    <3>2. CASE j \in DOMAIN got
      BY <1>6, <2>3, <2>11, <3>1, <3>2 DEF Given
    <3>3. CASE j = Len(got) + 1
      BY <1>6, <2>5, <2>9, <2>11, <3>1, <3>3 DEF Earlier
    <3> QED BY <1>7, <3>2, <3>3
  <2>12. Given'
    <3>1. \A n \in DOMAIN got' : StartsOf(got'[n])
      BY <1>6, <1>7, <2>3, <2>10 DEF Given
    <3> QED BY <2>11, <3>1 DEF Given
  <2>13. Earlier(v[1])'
    BY <1>6, <1>7, <2>2, <2>3, <2>9 DEF Earlier
  <2>14. Told(m)'
    <3>1. PICK l \in 1 .. Len(queue) - 1 : l + 1 = k
      <4>1. k - 1 \in 1 .. Len(queue) - 1 /\ (k - 1) + 1 = k
        BY <1>8, <2>5
      <4> QED BY <4>1
    <3>2. queue'[l] = "continue"
      BY <1>8, <2>4, <3>1
    <3>3. \A i \in DOMAIN queue' : queue'[i] = "continue" => i = l
      <4> TAKE i \in DOMAIN queue'
      <4>1. i \in 1 .. Len(queue) - 1 /\ queue'[i] = queue[i + 1]
            /\ i + 1 \in DOMAIN queue
        BY <1>8
      <4>2. queue[i + 1] = "continue" => i + 1 = l + 1
        BY <2>4, <3>1, <4>1
      <4>3. i + 1 = l + 1 => i = l
        BY <1>8, <3>1, <4>1
      <4> QED BY <4>1, <4>2, <4>3
    <3>4. \A i \in DOMAIN queue' : queue'[i] # "line"
      <4> TAKE i \in DOMAIN queue'
      <4>1. i \in 1 .. Len(queue) - 1 /\ queue'[i] = queue[i + 1]
            /\ i + 1 \in DOMAIN queue
        BY <1>8
      <4>2. i + 1 # 1
        BY <1>8, <4>1
      <4> QED BY <1>8, <2>4, <4>1, <4>2
    <3>5. l \in DOMAIN queue'
      BY <1>8
    <3> QED BY <3>2, <3>3, <3>4, <3>5 DEF Told
  <2>15. thread' = "wait" /\ ptr' > 0 /\ Holds(m, ptr - 1)'
           /\ buf'[ptr' - 1] = NUL
    BY <1>1, <1>2, <2>1, <2>2 DEF Holds
  <2> QED BY <2>2, <2>12, <2>13, <2>14, <2>15 DEF Assembles
<1>10. thread' \in {"yield", "run", "wait"}
         /\ (thread' # "wait" => ptr' < BUFSIZE)
       /\ ptr' \in 0 .. BUFSIZE
  BY <1>1, <1>3
<1> QED BY <1>1, <1>6, <1>9, <1>10, EventStays

LEMMA ContinueEventStep ==
  ASSUME SerialLineAssumption, LineInv, ContinueEvent
  PROVE  LineInv'
<1>1. /\ TakeEvent("continue") /\ got' = got
      /\ IF thread = "wait" THEN thread' = "run" /\ ptr' = 0
                          ELSE thread' = thread /\ ptr' = ptr
  BY DEF ContinueEvent
<1>2. /\ queue # << >> /\ queue \in Seq({"line", "continue", "other"})
      /\ queue' = Tail(queue) /\ Head(queue) = "continue" /\ buf' = buf
  BY <1>1, Taking
<1>3. /\ got \in Seq(Seq(Char)) /\ ptr \in 0 .. BUFSIZE
      /\ BUFSIZE \in Nat /\ BUFSIZE > 1
      /\ thread \in {"yield", "run", "wait"}
      /\ (thread # "wait" => ptr < BUFSIZE)
  BY Sizes DEF LineInv, LineTypeOK, Ended
<1>4. Len(queue) \in Nat /\ Len(queue) > 0 /\ queue[1] = "continue"
      /\ DOMAIN queue = 1 .. Len(queue) /\ 1 \in DOMAIN queue
      /\ DOMAIN queue' = 1 .. Len(queue) - 1
      /\ \A i \in 1 .. Len(queue) - 1 :
           queue'[i] = queue[i + 1] /\ i + 1 \in 1 .. Len(queue)
  BY <1>2, TailIs
<1>5. ASSUME NEW v \in Positions, Assembles(v) PROVE Assembles(v)'
  <2>1. thread = "wait"
    <3>1. thread # "wait" => \A i \in DOMAIN queue : queue[i] = "other"
      BY <1>5 DEF Assembles
    <3> QED BY <1>4, <3>1
  <2>2. PICK m \in Nat \ {0} : m < v[1] /\ v[2] = 1 /\ Told(m)
    BY <1>5, <2>1 DEF Assembles
  <2>3. PICK k \in DOMAIN queue :
          /\ queue[k] = "continue"
          /\ \A i \in DOMAIN queue : queue[i] = "continue" => i = k
          /\ \A i \in DOMAIN queue : queue[i] = "line" => i < k
    BY <2>2 DEF Told
  <2>4. k = 1
    BY <1>4, <2>3
  <2>5. \A i \in DOMAIN queue' : queue'[i] = "other"
    <3> TAKE i \in DOMAIN queue'
    <3>1. /\ i \in 1 .. Len(queue) - 1 /\ queue'[i] = queue[i + 1]
          /\ i + 1 \in DOMAIN queue
      BY <1>4
    <3>2. ~ i + 1 < 1 /\ i + 1 # 1
      BY <1>4, <3>1
    <3>3. queue[i + 1] # "line" /\ queue[i + 1] # "continue"
      BY <2>3, <2>4, <3>1, <3>2
    <3>4. queue[i + 1] \in {"line", "continue", "other"}
      BY <1>2, <3>1
    <3> QED BY <3>1, <3>3, <3>4
  <2>6. Given' /\ Earlier(v[1])'
    BY <1>1, <1>5 DEF Assembles, Given, Earlier
  <2>7. thread' = "run" /\ ptr' = 0
    BY <1>1, <2>1
  <2>8. Holds(v[1], ptr)' /\ v[2] = ptr' + 1
    <3>1. \A j \in 0 .. ptr' - 1 : FALSE
      BY <2>7
    <3> QED BY <2>2, <2>7, <3>1 DEF Holds
  <2> QED BY <2>5, <2>6, <2>7, <2>8 DEF Assembles
<1>6. thread' \in {"yield", "run", "wait"}
        /\ (thread' # "wait" => ptr' < BUFSIZE)
      /\ ptr' \in 0 .. BUFSIZE /\ got' \in Seq(Seq(Char))
  BY <1>1, <1>3
<1> QED BY <1>1, <1>5, <1>6, EventStays

LEMMA OtherEventStep ==
  ASSUME SerialLineAssumption, LineInv, OtherEvent
  PROVE  LineInv'
<1>1. TakeEvent("other") /\ thread' = thread /\ ptr' = ptr /\ got' = got
  BY DEF OtherEvent
<1>2. /\ queue # << >> /\ queue \in Seq({"line", "continue", "other"})
      /\ queue' = Tail(queue) /\ Head(queue) = "other" /\ buf' = buf
  BY <1>1, Taking
<1>3. /\ got \in Seq(Seq(Char)) /\ ptr \in 0 .. BUFSIZE
      /\ thread \in {"yield", "run", "wait"}
      /\ (thread # "wait" => ptr < BUFSIZE)
  BY DEF LineInv, LineTypeOK, Ended
<1>4. Len(queue) \in Nat /\ Len(queue) > 0 /\ queue[1] = "other"
      /\ DOMAIN queue = 1 .. Len(queue) /\ 1 \in DOMAIN queue
      /\ DOMAIN queue' = 1 .. Len(queue) - 1
      /\ \A i \in 1 .. Len(queue) - 1 :
           queue'[i] = queue[i + 1] /\ i + 1 \in 1 .. Len(queue)
  BY <1>2, TailIs
<1>5. \A m : Earlier(m) => Earlier(m)'
  BY <1>1 DEF Earlier
<1>6. ASSUME NEW m, Told(m) PROVE Told(m)'
  <2>1. PICK k \in DOMAIN queue :
          /\ queue[k] = "continue"
          /\ \A i \in DOMAIN queue : queue[i] = "continue" => i = k
          /\ \A i \in DOMAIN queue : queue[i] = "line" => i < k /\ Earlier(m)
          /\ \A i, j \in DOMAIN queue :
               queue[i] = "line" /\ queue[j] = "line" => i = j
    BY <1>6 DEF Told
  <2>2. k # 1
    BY <1>4, <2>1
  <2>3. PICK l \in 1 .. Len(queue) - 1 : l + 1 = k
    <3>1. k - 1 \in 1 .. Len(queue) - 1 /\ (k - 1) + 1 = k
      BY <1>4, <2>2
    <3> QED BY <3>1
  <2>4. l \in DOMAIN queue' /\ queue'[l] = "continue"
    BY <1>4, <2>1, <2>3
  <2>5. ASSUME NEW i \in DOMAIN queue'
        PROVE  /\ queue'[i] = "continue" => i = l
               /\ queue'[i] = "line" => i < l /\ Earlier(m)'
    <3>1. /\ i \in 1 .. Len(queue) - 1 /\ queue'[i] = queue[i + 1]
          /\ i + 1 \in DOMAIN queue
      BY <1>4
    <3>2. /\ i + 1 = l + 1 => i = l
          /\ i + 1 < l + 1 => i < l
      BY <1>4, <2>3, <3>1
    <3> QED BY <1>5, <2>1, <2>3, <3>1, <3>2
  <2>6. ASSUME NEW i \in DOMAIN queue', NEW j \in DOMAIN queue',
               queue'[i] = "line", queue'[j] = "line"
        PROVE  i = j
    <3>1. /\ i \in 1 .. Len(queue) - 1 /\ queue'[i] = queue[i + 1]
          /\ i + 1 \in DOMAIN queue
          /\ j \in 1 .. Len(queue) - 1 /\ queue'[j] = queue[j + 1]
          /\ j + 1 \in DOMAIN queue
      BY <1>4
    <3>2. i + 1 = j + 1
      BY <2>1, <2>6, <3>1
    <3> QED BY <1>4, <3>1, <3>2
  <2> QED BY <2>4, <2>5, <2>6 DEF Told
<1>7. \A m, n : Holds(m, n) => Holds(m, n)'
  BY <1>2 DEF Holds
<1>8. Given => Given'
  BY <1>1 DEF Given
<1>9. (\A i \in DOMAIN queue : queue[i] = "other")
        => \A i \in DOMAIN queue' : queue'[i] = "other"
  BY <1>4
<1>10. ASSUME NEW v \in Positions, Assembles(v) PROVE Assembles(v)'
  <2>1. CASE thread = "wait"
    <3>1. PICK m \in Nat \ {0} : /\ m < v[1] /\ v[2] = 1 /\ ptr > 0
                                 /\ Holds(m, ptr - 1) /\ buf[ptr - 1] = NUL
                                 /\ Told(m)
      BY <1>10, <2>1 DEF Assembles
    <3>2. /\ thread' = "wait" /\ ptr' > 0 /\ buf'[ptr' - 1] = NUL
          /\ Holds(m, ptr - 1)' /\ Told(m)'
      BY <1>1, <1>2, <1>6, <2>1, <3>1 DEF Holds
    <3>3. Given' /\ Earlier(v[1])'
      BY <1>5, <1>8, <1>10 DEF Assembles
    <3> QED BY <3>1, <3>2, <3>3 DEF Assembles
  <2>2. CASE thread # "wait"
    <3>1. /\ Holds(v[1], ptr) /\ (ptr < BUFSIZE - 1 => v[2] = ptr + 1)
          /\ \A i \in DOMAIN queue : queue[i] = "other"
          /\ Given /\ Earlier(v[1])
      BY <1>10, <2>2 DEF Assembles
    <3>2. /\ thread' # "wait" /\ Holds(v[1], ptr)'
          /\ (ptr' < BUFSIZE - 1 => v[2] = ptr' + 1)
      BY <1>1, <1>2, <2>2, <3>1 DEF Holds
    <3>3. /\ \A i \in DOMAIN queue' : queue'[i] = "other"
          /\ Given' /\ Earlier(v[1])'
      BY <1>5, <1>8, <1>9, <3>1
    <3> QED BY <3>2, <3>3 DEF Assembles
  <2> QED BY <2>1, <2>2
<1> QED BY <1>1, <1>3, <1>10, EventStays

LEMMA OtherPostsStep ==
  ASSUME SerialLineAssumption, LineInv, OtherPosts
  PROVE  LineInv'
<1>1. PICK h, g : /\ Port(h) /\ Ring(g, h[last])
                  /\ "continue" \notin refused => Assembles(g[1])
  BY DEF LineInv
<1>2. PICK z : z = h[last] /\ Ring(g, z)
  BY <1>1
<1>3. /\ Len(queue) < NumEvents /\ queue' = Append(queue, "other")
      /\ line' = line /\ place' = place /\ dmabuf' = dmabuf /\ DMA' = DMA
      /\ UNCHANGED <<last, left, ring, overflow, polled, thread, buf, ptr,
                     refused, got>>
  BY DEF OtherPosts, port, reader, assembler
<1>4. /\ LineTypeOK /\ Ended /\ NumEvents \in Nat
      /\ queue \in Seq({"line", "continue", "other"})
  BY Sizes DEF LineInv, LineTypeOK
<1>5. PICK n \in Nat : n = Len(queue)
  <2>1. Len(queue) \in Nat
    BY <1>4
  <2> QED BY <2>1
<1>6. /\ queue' \in Seq({"line", "continue", "other"})
      /\ Len(queue') = n + 1
      /\ DOMAIN queue = 1 .. n /\ DOMAIN queue' = 1 .. n + 1
      /\ queue'[n + 1] = "other" /\ \A i \in 1 .. n : queue'[i] = queue[i]
  BY <1>3, <1>4, <1>5
<1>7. \A i \in 1 .. n + 1 : i \in 1 .. n \/ i = n + 1
  BY <1>5
<1>8. \A i \in 1 .. n : i \in 1 .. n + 1
  BY <1>5
<1>9. Port(h)' /\ Ring(g, z)' /\ z = h[last']
  BY <1>1, <1>2, <1>3, PortStays, RingStays DEF port
<1>10. LineTypeOK' /\ Ended'
  <2>1. Len(queue') <= NumEvents
    BY <1>3, <1>4, <1>5, <1>6
  <2> QED BY <1>3, <1>4, <1>6, <2>1 DEF LineTypeOK, Ended
<1>11. \A m : Earlier(m) => Earlier(m)'
  BY <1>3 DEF Earlier
<1>12. \A m : Told(m) => Told(m)'
  BY <1>6, <1>7, <1>8, <1>11 DEF Told
<1>13. \A m, k : Holds(m, k) => Holds(m, k)'
  BY <1>3 DEF Holds
<1>14. Given => Given'
  BY <1>3 DEF Given
<1>15. (\A i \in DOMAIN queue : queue[i] = "other")
         => \A i \in DOMAIN queue' : queue'[i] = "other"
  BY <1>6, <1>7
<1>16. "continue" \notin refused' => Assembles(g[1])'
  <2>1. PICK v : v = g[1]
    OBVIOUS
  <2>2. Assembles(v) => Assembles(v)'
    BY <1>3, <1>11, <1>12, <1>13, <1>14, <1>15 DEF Assembles
  <2> QED BY <1>1, <1>3, <2>1, <2>2
<1> QED BY <1>9, <1>10, <1>16, Together

LEMMA StutterStep ==
  ASSUME LineInv, UNCHANGED lineVars
  PROVE  LineInv'
<1>1. PICK h, g : /\ Port(h) /\ Ring(g, h[last])
                  /\ "continue" \notin refused => Assembles(g[1])
  BY DEF LineInv
<1>2. PICK z : z = h[last] /\ Ring(g, z)
  BY <1>1
<1>3. /\ line' = line /\ place' = place /\ dmabuf' = dmabuf /\ DMA' = DMA
      /\ UNCHANGED <<last, left, ring, overflow, polled, thread, buf, ptr,
                     queue, refused, got>>
  BY DEF lineVars, port, reader, assembler
<1>4. Port(h)' /\ Ring(g, z)' /\ z = h[last']
  BY <1>1, <1>2, <1>3, PortStays, RingStays DEF port
<1>5. LineTypeOK' /\ Ended'
  BY <1>3 DEF LineInv, LineTypeOK, Ended
<1>6. "continue" \notin refused' => Assembles(g[1])'
  BY <1>1, <1>3, AssemblesStays
<1> QED BY <1>4, <1>5, <1>6, Together

-----------------------------------------------------------------------------
(* The invariant.                                                          *)

LEMMA LineStarts ==
  ASSUME SerialLineAssumption, LineInit
  PROVE  LineInv
<1>1. /\ RXBUFSIZE \in Nat /\ RXBUFSIZE > 1 /\ BUFSIZE \in Nat /\ BUFSIZE > 1
      /\ NumEvents \in Nat /\ NumEvents > 1
      /\ MaxLines \in Nat /\ MaxLength \in Nat
  BY Sizes
<1>2. /\ line = 1 /\ place = 1 /\ DMA = 0 /\ last = 0 /\ left = 0
      /\ dmabuf = [k \in 0 .. RXBUFSIZE - 1 |-> NUL]
      /\ ring = << >> /\ overflow = FALSE /\ polled = FALSE
      /\ thread = "yield" /\ ptr = 0 /\ buf = [k \in 0 .. BUFSIZE - 1 |-> NUL]
      /\ queue = << >> /\ refused = {} /\ got = << >>
  BY DEF LineInit
<1>3. <<1, 1>> \in Positions
  BY DEF Positions
<1> DEFINE h == [k \in 0 .. RXBUFSIZE - 1 |-> <<1, 1>>]
           g == [i \in 1 .. 1 |-> <<1, 1>>]
<1>4. /\ h \in [0 .. RXBUFSIZE - 1 -> Positions]
      /\ \A k \in 0 .. RXBUFSIZE - 1 : h[k] = <<1, 1>>
      /\ g \in [1 .. 1 -> Positions] /\ g[1] = <<1, 1>>
  BY <1>3
<1> HIDE DEF h, g
<1>5. Port(h)
  <2>1. \A k \in 0 .. RXBUFSIZE - 1 : ~ Unread(k)
    BY <1>1, <1>2 DEF Unread
  <2>2. 0 \in 0 .. RXBUFSIZE - 1
    BY <1>1
  <2> QED BY <1>1, <1>2, <1>4, <2>1, <2>2 DEF Port
<1>6. Ring(g, <<1, 1>>)
  <2>1. Len(ring) = 0 /\ Len(ring) + 1 = 1 /\ 1 .. Len(ring) = {}
    BY <1>2
  <2> QED BY <1>4, <2>1 DEF Ring
<1>7. Assembles(<<1, 1>>)
  <2>1. DOMAIN got = {} /\ DOMAIN queue = {}
    BY <1>2
  <2>2. Given /\ Earlier(1)
    BY <2>1 DEF Given, Earlier
  <2>3. Holds(1, ptr)
    BY <1>2 DEF Holds
  <2> QED BY <1>2, <2>1, <2>2, <2>3 DEF Assembles
<1>8. LineTypeOK /\ Ended
  <2>1. /\ line \in 1 .. MaxLines + 1 /\ place \in 1 .. MaxLength + 1
        /\ MaxLines + 1 \in Nat
    BY <1>1, <1>2
  <2>2. /\ dmabuf \in [0 .. RXBUFSIZE - 1 -> Char \cup {END, CR, NUL}]
        /\ buf \in [0 .. BUFSIZE - 1 -> Char \cup {NUL}]
        /\ buf[BUFSIZE - 1] = NUL
    BY <1>1, <1>2
  <2>3. /\ {DMA, last, left} \subseteq 0 .. RXBUFSIZE - 1
        /\ Len(ring) < BUFSIZE /\ ptr \in 0 .. BUFSIZE /\ ptr < BUFSIZE
        /\ Len(queue) <= NumEvents
    BY <1>1, <1>2
  <2>4. /\ ring \in Seq(Char \cup {END}) /\ got \in Seq(Seq(Char))
        /\ queue \in Seq({"line", "continue", "other"})
    BY <1>2
  <2> QED BY <1>2, <2>1, <2>2, <2>3, <2>4 DEF LineTypeOK, Ended
<1>9. Ring(g, h[last]) /\ Assembles(g[1])
  <2>1. h[last] = <<1, 1>>
    BY <1>1, <1>2, <1>4
  <2> QED BY <1>4, <1>6, <1>7, <2>1
<1> QED BY <1>5, <1>8, <1>9 DEF LineInv

LEMMA LineKeeps ==
  ASSUME SerialLineAssumption, Paced, LineInv, [LineNext]_lineVars
  PROVE  LineInv'
<1>1. CASE Letter \/ Return \/ Newline
  BY <1>1, ArriveStep
<1>2. CASE RxTimer \/ RxByte
  BY <1>2, TimerStep, ByteStep
<1>3. CASE Poll \/ OtherPosts
  BY <1>3, PollStep, OtherPostsStep
<1>4. CASE Events
  BY <1>4, LineEventStep, ContinueEventStep, OtherEventStep DEF Events
<1>5. CASE Assemble
  BY <1>5, EmptyStep, FillStep, TerminateStep DEF Assemble
<1>6. CASE UNCHANGED lineVars
  BY <1>6, StutterStep
<1> QED BY <1>1, <1>2, <1>3, <1>4, <1>5, <1>6 DEF LineNext

LEMMA LineAlways ==
  ASSUME SerialLineAssumption, Paced
  PROVE  LineSpec => []LineInv
<1>1. LineInit => LineInv
  BY LineStarts
<1>2. LineInv /\ [LineNext]_lineVars => LineInv'
  BY LineKeeps
<1> QED BY <1>1, <1>2, PTL DEF LineSpec

\* What the shell is given are beginnings of lines that were sent, each from
\* one line and in the order they were sent, whatever the rings had to drop
\* (serial-line.c:60-86), and the buffer keeps the line until the shell has
\* read it (serial-line.c:115-124); when the queue has refused a CONTINUE
\* nothing is said of the lines.
THEOREM LinesArrive ==
  ASSUME SerialLineAssumption, Paced
  PROVE  LineSpec => []LinesInOrder
<1>1. LineInv => LinesInOrder
  <2> SUFFICES ASSUME LineInv PROVE LinesInOrder
    OBVIOUS
  <2>1. LineTypeOK
    BY DEF LineInv
  <2>2. "continue" \notin refused => Given
    BY DEF LineInv, Assembles
  <2> QED BY <2>1, <2>2 DEF LinesInOrder, Given
<1>2. LineSpec => []LineInv
  BY LineAlways
<1> QED BY <1>1, <1>2, PTL
=============================================================================
