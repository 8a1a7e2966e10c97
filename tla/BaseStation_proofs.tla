------------------------- MODULE BaseStation_proofs -------------------------
(***************************************************************************)
(* What leaves the base station: the records the reader writes to the file *)
(* were sent, the safety property of UsbReader, for any packets and number *)
(* of records, printed with their payload or without.                      *)
(***************************************************************************)
EXTENDS UsbReader, SequenceTheorems, WellFoundedInduction, TLAPS

(***************************************************************************)
(* Sequences of bytes, least and greatest numbers.                         *)
(***************************************************************************)

Octet == 0 .. 255

\* A part of a sequence.
LEMMA PartIs ==
  ASSUME NEW S, NEW s \in Seq(S), NEW m \in Nat \ {0}, NEW n \in Int,
         n <= Len(s)
  PROVE  /\ SubSeq(s, m, n) \in Seq(S)
         /\ Len(SubSeq(s, m, n)) = IF m <= n THEN n - m + 1 ELSE 0
         /\ \A k \in 1 .. Len(SubSeq(s, m, n)) :
              SubSeq(s, m, n)[k] = s[m + k - 1]
OBVIOUS

\* A set of numbers has a least one,
LEMMA Smallest ==
  ASSUME NEW L \in SUBSET Nat, L # {}
  PROVE  \E m \in L : \A k \in L : m <= k
<1>1. \E m \in L : \A k \in L : <<k, m>> \notin OpToRel(<, Nat)
  BY WFMin, NatLessThanWellFounded
<1>2. \A j, k \in Nat : <<j, k>> \in OpToRel(<, Nat) <=> j < k
  BY DEF OpToRel
<1>3. \A j, k \in Nat : ~ j < k => k <= j
  OBVIOUS
<1> QED BY <1>1, <1>2, <1>3

\* a bounded one a greatest.
LEMMA MaxIs ==
  ASSUME NEW n \in Nat, NEW L \in SUBSET (0 .. n), L # {}
  PROVE  /\ Max(L) \in L /\ Max(L) \in 0 .. n
         /\ \A k \in L : k <= Max(L)
<1> DEFINE D == {j \in 0 .. n : n - j \in L}
<1>1. \A k \in L : k \in 0 .. n /\ n - k \in 0 .. n /\ n - (n - k) = k
  OBVIOUS
<1>2. D \in SUBSET Nat /\ D # {}
  <2>1. PICK k \in L : TRUE
    OBVIOUS
  <2>2. n - k \in D
    BY <1>1, <2>1
  <2>3. D \in SUBSET Nat
    OBVIOUS
  <2> HIDE DEF D
  <2> QED BY <2>2, <2>3
<1>3. PICK j \in D : \A k \in D : j <= k
  BY <1>2, Smallest
<1>4. n - j \in L /\ \A k \in L : n - j >= k
  <2>1. j \in 0 .. n /\ n - j \in L
    BY <1>3
  <2>2. ASSUME NEW k \in L PROVE n - j >= k
    <3>1. n - k \in D
      BY <1>1, <2>2
    <3>2. j <= n - k
      BY <1>3, <3>1
    <3> QED BY <1>1, <2>1, <2>2, <3>2
  <2> QED BY <2>1, <2>2
<1>5. Max(L) \in L /\ \A k \in L : Max(L) >= k
  BY <1>4 DEF Max
<1> QED BY <1>1, <1>5

(***************************************************************************)
(* The newlines in front of a place: what the reader keeps has no          *)
(* separator.                                                              *)
(***************************************************************************)

LEMMA EvenSum ==
  ASSUME NEW m \in Nat, NEW n \in Nat, m % 2 = 0, n % 2 = 0
  PROVE  ((m + n) + 2) % 2 = 0
OBVIOUS

\* p is the last byte in front of k that is not a newline, 0 if there is none.
LastOther(b, k, p) ==
  /\ p \in 0 .. k - 1
  /\ p # 0 => b[p] # NL
  /\ \A j \in p + 1 .. k - 1 : b[j] = NL

\* The newlines the split has counted are those behind that byte.
LEMMA NewlinesAre ==
  ASSUME NEW b, NEW k \in Nat \ {0}
  PROVE  /\ \E p : LastOther(b, k, p) /\ NewlinesBefore(b, k) = k - 1 - p
         /\ \A p : LastOther(b, k, p) => NewlinesBefore(b, k) = k - 1 - p
<1> DEFINE L == {0} \cup {j \in 1 .. k - 1 : b[j] # NL}
<1>1. k - 1 \in Nat /\ L \in SUBSET (0 .. k - 1) /\ L # {} /\ 0 \in L
  OBVIOUS
<1>2. /\ Max(L) \in L /\ Max(L) \in 0 .. k - 1
      /\ \A j \in L : j <= Max(L)
  BY <1>1, MaxIs
<1>3. NewlinesBefore(b, k) = k - 1 - Max(L)
  BY DEF NewlinesBefore
<1>4. LastOther(b, k, Max(L))
  <2>1. Max(L) # 0 => b[Max(L)] # NL
    BY <1>2
  <2>2. ASSUME NEW j \in Max(L) + 1 .. k - 1 PROVE b[j] = NL
    <3>1. j \in 1 .. k - 1 /\ ~ j <= Max(L)
      BY <1>2
    <3>2. j \notin L
      BY <1>2, <3>1
    <3> QED BY <3>1, <3>2
  <2> QED BY <1>2, <2>1, <2>2 DEF LastOther
<1>5. ASSUME NEW p, LastOther(b, k, p) PROVE p = Max(L)
  <2>1. p \in L /\ p \in 0 .. k - 1
    BY <1>5 DEF LastOther
  <2>2. p <= Max(L)
    BY <1>2, <2>1
  <2>3. ~ p < Max(L)
    <3>1. p < Max(L) => Max(L) \in p + 1 .. k - 1 /\ Max(L) # 0
      BY <1>2, <2>1
    <3>2. Max(L) # 0 => b[Max(L)] # NL
      BY <1>2
    <3> QED BY <1>5, <3>1, <3>2 DEF LastOther
  <2> QED BY <1>2, <2>1, <2>2, <2>3
<1> HIDE DEF L
<1> QED BY <1>3, <1>4, <1>5

\* What follows the last separator has none.
LEMMA RestHasNone ==
  ASSUME NEW b \in Seq(Octet), Separators(b) # {}
  PROVE  /\ Rest(b, Separators(b)) \in Seq(Octet)
         /\ Separators(Rest(b, Separators(b))) = {}
         /\ Max(Separators(b)) \in Separators(b)
         /\ \A k \in Separators(b) : k <= Max(Separators(b))
<1> DEFINE M == Max(Separators(b))
           r == Rest(b, Separators(b))
<1>1. Len(b) \in Nat /\ Separators(b) \in SUBSET (1 .. Len(b) - 1)
  BY DEF Separators
<1>2. /\ M \in Separators(b) /\ \A k \in Separators(b) : k <= M
  <2>1. Separators(b) \in SUBSET (0 .. Len(b))
    BY <1>1
  <2> QED BY <1>1, <2>1, MaxIs
<1>3. M \in 1 .. Len(b) - 1 /\ b[M] = NL /\ b[M + 1] = NL
      /\ NewlinesBefore(b, M) % 2 = 0
  BY <1>2 DEF Separators
<1>4. r = SubSeq(b, M + 2, Len(b))
  BY DEF Rest
<1> HIDE DEF M, r
<1>5. /\ r \in Seq(Octet) /\ Len(r) = Len(b) - (M + 1)
      /\ \A k \in 1 .. Len(r) : r[k] = b[M + 1 + k]
  <2>1. M + 2 \in Nat \ {0} /\ Len(b) \in Int /\ Len(b) <= Len(b)
    BY <1>1, <1>3
  <2>2. /\ r \in Seq(Octet)
        /\ Len(r) = IF M + 2 <= Len(b) THEN Len(b) - (M + 2) + 1 ELSE 0
        /\ \A k \in 1 .. Len(r) : r[k] = b[(M + 2) + k - 1]
    BY <1>4, <2>1, PartIs
  <2>3. \A k \in 1 .. Len(r) : (M + 2) + k - 1 = M + 1 + k
    BY <1>1, <1>3, <2>2
  <2>4. Len(r) = Len(b) - (M + 1)
    BY <1>1, <1>3, <2>2
  <2> QED BY <2>2, <2>3, <2>4
<1>6. ASSUME NEW k \in Separators(r) PROVE FALSE
  <2>1. k \in 1 .. Len(r) - 1 /\ r[k] = NL /\ r[k + 1] = NL
        /\ NewlinesBefore(r, k) % 2 = 0
    BY <1>6 DEF Separators
  <2>2. /\ k \in Nat \ {0} /\ M \in Nat \ {0} /\ Len(r) \in Nat
        /\ M + 1 + k \in 1 .. Len(b) - 1 /\ k \in 1 .. Len(r)
        /\ k + 1 \in 1 .. Len(r) /\ M + 1 + (k + 1) = (M + 1 + k) + 1
        /\ M + 1 + k \in Nat \ {0} /\ ~ M + 1 + k <= M
    BY <1>1, <1>3, <1>5, <2>1
  <2>3. b[M + 1 + k] = NL /\ b[(M + 1 + k) + 1] = NL
    BY <1>5, <2>1, <2>2
  <2>4. PICK q : LastOther(r, k, q) /\ NewlinesBefore(r, k) = k - 1 - q
    BY <2>2, NewlinesAre
  <2>5. q \in 0 .. k - 1 /\ (q # 0 => r[q] # NL)
        /\ \A j \in q + 1 .. k - 1 : r[j] = NL
    BY <2>4 DEF LastOther
  <2>6. \A j \in 1 .. k - 1 : j \in 1 .. Len(r) /\ r[j] = b[M + 1 + j]
    BY <1>5, <2>1, <2>2
  <2>7. CASE q # 0
    <3>1. LastOther(b, M + 1 + k, M + 1 + q)
      <4>1. M + 1 + q \in 0 .. (M + 1 + k) - 1 /\ M + 1 + q # 0
        BY <2>2, <2>5, <2>7
      <4>2. b[M + 1 + q] # NL
        BY <2>2, <2>5, <2>6, <2>7
      <4>3. ASSUME NEW j \in (M + 1 + q) + 1 .. (M + 1 + k) - 1
            PROVE  b[j] = NL
        <5>1. /\ j - (M + 1) \in q + 1 .. k - 1 /\ j - (M + 1) \in 1 .. k - 1
              /\ M + 1 + (j - (M + 1)) = j
          BY <2>2, <2>5
        <5> QED BY <2>5, <2>6, <5>1
      <4> QED BY <4>1, <4>2, <4>3 DEF LastOther
    <3>2. NewlinesBefore(b, M + 1 + k) = (M + 1 + k) - 1 - (M + 1 + q)
      BY <2>2, <3>1, NewlinesAre
    <3>3. NewlinesBefore(b, M + 1 + k) = NewlinesBefore(r, k)
      BY <2>2, <2>4, <2>5, <3>2
    <3>4. M + 1 + k \in Separators(b)
      BY <2>1, <2>2, <2>3, <3>3 DEF Separators
    <3> QED BY <1>2, <2>2, <3>4
  <2>8. CASE q = 0
    <3>1. PICK p : LastOther(b, M, p) /\ NewlinesBefore(b, M) = M - 1 - p
      BY <2>2, NewlinesAre
    <3>2. p \in 0 .. M - 1 /\ (p # 0 => b[p] # NL)
          /\ \A j \in p + 1 .. M - 1 : b[j] = NL
      BY <3>1 DEF LastOther
    <3>3. LastOther(b, M + 1 + k, p)
      <4>1. p \in 0 .. (M + 1 + k) - 1
        BY <2>2, <3>2
      <4>2. ASSUME NEW j \in p + 1 .. (M + 1 + k) - 1 PROVE b[j] = NL
        <5>1. \/ j \in p + 1 .. M - 1 \/ j = M \/ j = M + 1
              \/ /\ j - (M + 1) \in 1 .. k - 1
                 /\ j - (M + 1) \in q + 1 .. k - 1
                 /\ M + 1 + (j - (M + 1)) = j
          BY <2>2, <2>8, <3>2
        <5> QED BY <1>3, <2>5, <2>6, <3>2, <5>1
      <4> QED BY <3>2, <4>1, <4>2 DEF LastOther
    <3>4. NewlinesBefore(b, M + 1 + k) = (M + 1 + k) - 1 - p
      BY <2>2, <3>3, NewlinesAre
    <3>5. /\ NewlinesBefore(b, M + 1 + k)
               = (NewlinesBefore(b, M) + NewlinesBefore(r, k)) + 2
          /\ NewlinesBefore(b, M) \in Nat /\ NewlinesBefore(r, k) \in Nat
      BY <2>2, <2>4, <2>5, <2>8, <3>1, <3>2, <3>4
    <3>6. NewlinesBefore(b, M + 1 + k) % 2 = 0
      BY <1>3, <2>1, <3>5, EvenSum
    <3>7. M + 1 + k \in Separators(b)
      BY <2>2, <2>3, <3>6 DEF Separators
    <3> QED BY <1>2, <2>2, <3>7
  <2> QED BY <2>7, <2>8
<1> QED BY <1>2, <1>5, <1>6 DEF M, r

(***************************************************************************)
(* A record of bytes.                                                      *)
(***************************************************************************)

\* Two sequences in a row.
LEMMA TwoParts ==
  ASSUME NEW S, NEW s \in Seq(S), NEW t \in Seq(S), NEW w, w = s \o t
  PROVE  /\ w \in Seq(S) /\ Len(w) = Len(s) + Len(t)
         /\ Len(s) \in Nat /\ Len(t) \in Nat /\ Len(w) \in Nat
         /\ \A k \in 1 .. Len(s) : w[k] = s[k]
         /\ \A k \in 1 .. Len(t) : w[Len(s) + k] = t[k]
OBVIOUS

LEMMA ThreeParts ==
  ASSUME NEW s \in Seq(Octet), NEW t \in Seq(Octet), NEW u \in Seq(Octet)
  PROVE  (s \o t) \o u = s \o (t \o u)
BY ConcatAssociative

\* What app_recv can be given to print.
Packets ==
  {r \in [sn : Octet, counter : Octet, seq : Octet, size : Octet,
           payload : Seq(Octet)] :
     Len(r.payload) \in Octet /\ (Len(r.payload) = 0 \/ ~ Hidden(r))}

\* All that is printed of a packet.
Full(r) == Shown(r) \o <<NL, NL>>

\* Its bytes, one by one.
LEMMA FullIs ==
  ASSUME NEW r \in Packets
  PROVE  /\ Shown(r) \in Seq(Octet) /\ Len(Shown(r)) = Len(r.payload) + 6
         /\ Full(r) \in Seq(Octet) /\ Len(Full(r)) = Len(r.payload) + 8
         /\ Len(r.payload) \in Octet
         /\ \A o \in 1 .. Len(Shown(r)) : Full(r)[o] = Shown(r)[o]
         /\ Full(r)[Len(r.payload) + 7] = NL
         /\ Full(r)[Len(r.payload) + 8] = NL
         /\ Shown(r)[1] = 126 /\ Shown(r)[2] = 126 /\ Shown(r)[3] = r.sn
         /\ Shown(r)[4] = r.counter /\ Shown(r)[5] = r.seq
         /\ Shown(r)[6] = r.size
         /\ \A o \in 1 .. Len(r.payload) : Shown(r)[o + 6] = r.payload[o]
<1> DEFINE p == r.payload
           h == START \o <<r.sn, r.counter, r.seq, r.size>>
<1>1. /\ p \in Seq(Octet) /\ Len(p) \in Octet /\ r.sn \in Octet
      /\ r.counter \in Octet /\ r.seq \in Octet /\ r.size \in Octet
  BY DEF Packets
<1>2. /\ h \in Seq(Octet) /\ Len(h) = 6 /\ h[1] = 126 /\ h[2] = 126
      /\ h[3] = r.sn /\ h[4] = r.counter /\ h[5] = r.seq /\ h[6] = r.size
  <2>1. 126 \in Octet /\ START = <<126, 126>> /\ r.size \in Octet
    <3>1. 126 \in Octet
      BY DEF Octet
    <3>2. START = <<126, 126>>
      BY DEF START
    <3> QED BY <1>1, <3>1, <3>2
  <2> DEFINE q == <<r.sn, r.counter, r.seq, r.size>>
  <2>2. q \in Seq(Octet) /\ Len(q) = 4 /\ q[1] = r.sn
        /\ q[2] = r.counter /\ q[3] = r.seq /\ q[4] = r.size
    BY <1>1
  <2>3. START \in Seq(Octet) /\ Len(START) = 2 /\ START[1] = 126
        /\ START[2] = 126
    BY <2>1
  <2>4. h = START \o q
    OBVIOUS
  <2> HIDE DEF h, p, q
  <2>5. /\ h \in Seq(Octet) /\ Len(h) = Len(START) + Len(q)
        /\ \A k \in 1 .. Len(START) : h[k] = START[k]
        /\ \A k \in 1 .. Len(q) : h[Len(START) + k] = q[k]
    <3>1. q \in Seq(Octet) /\ START \in Seq(Octet)
      BY <2>2, <2>3
    <3> QED BY <2>4, <3>1, TwoParts
  <2> QED BY <2>2, <2>3, <2>5
<1>3. Shown(r) = h \o p
  BY DEF Shown
<1> HIDE DEF h, p
<1>4. /\ Shown(r) \in Seq(Octet) /\ Len(Shown(r)) = Len(p) + 6
      /\ \A o \in 1 .. 6 : Shown(r)[o] = h[o]
      /\ \A o \in 1 .. Len(p) : Shown(r)[o + 6] = p[o]
  <2>1. /\ Shown(r) \in Seq(Octet) /\ Len(Shown(r)) = Len(h) + Len(p)
        /\ \A o \in 1 .. Len(h) : Shown(r)[o] = h[o]
        /\ \A o \in 1 .. Len(p) : Shown(r)[Len(h) + o] = p[o]
        /\ Len(p) \in Nat
    <3>1. h \in Seq(Octet) /\ p \in Seq(Octet)
      BY <1>1, <1>2
    <3> QED BY <1>3, <3>1, TwoParts
  <2>2. \A o \in 1 .. Len(p) : p[o] = Shown(r)[6 + o] /\ 6 + o = o + 6
    BY <1>2, <2>1
  <2>3. \A o \in 1 .. Len(p) : Shown(r)[o + 6] = p[o]
    BY <2>2
  <2>4. Len(Shown(r)) = Len(p) + 6
    BY <1>2, <2>1
  <2> QED BY <1>2, <2>1, <2>3, <2>4
<1>5. <<NL, NL>> \in Seq(Octet) /\ Len(<<NL, NL>>) = 2
      /\ <<NL, NL>>[1] = NL /\ <<NL, NL>>[2] = NL
  BY DEF NL, Octet
<1>6. /\ Full(r) \in Seq(Octet) /\ Len(Full(r)) = Len(p) + 8
      /\ \A o \in 1 .. Len(Shown(r)) : Full(r)[o] = Shown(r)[o]
      /\ Full(r)[Len(p) + 7] = NL /\ Full(r)[Len(p) + 8] = NL
  <2> DEFINE q == <<NL, NL>>
  <2>1. Full(r) = Shown(r) \o q
    BY DEF Full
  <2>2. q \in Seq(Octet) /\ Len(q) = 2 /\ q[1] = NL /\ q[2] = NL
    BY <1>5
  <2> HIDE DEF q
  <2>3. /\ Full(r) \in Seq(Octet) /\ Len(Full(r)) = Len(Shown(r)) + Len(q)
        /\ \A o \in 1 .. Len(Shown(r)) : Full(r)[o] = Shown(r)[o]
        /\ \A o \in 1 .. Len(q) : Full(r)[Len(Shown(r)) + o] = q[o]
    <3>1. Shown(r) \in Seq(Octet) /\ q \in Seq(Octet)
      BY <1>4, <2>2
    <3> QED BY <2>1, <3>1, TwoParts
  <2>4. Len(p) \in Nat
    BY <1>1 DEF Octet
  <2>5. /\ 1 \in 1 .. Len(q) /\ 2 \in 1 .. Len(q)
        /\ Len(Shown(r)) + 1 = Len(p) + 7 /\ Len(Shown(r)) + 2 = Len(p) + 8
        /\ Len(Shown(r)) + Len(q) = Len(p) + 8
    BY <1>4, <2>2, <2>4
  <2> QED BY <2>2, <2>3, <2>5
<1>7. 3 \in 1 .. 6 /\ 4 \in 1 .. 6 /\ 5 \in 1 .. 6 /\ 6 \in 1 .. 6
      /\ 1 \in 1 .. 6 /\ 2 \in 1 .. 6
  OBVIOUS
<1>8. /\ Shown(r)[1] = 126 /\ Shown(r)[2] = 126 /\ Shown(r)[3] = r.sn
      /\ Shown(r)[4] = r.counter /\ Shown(r)[5] = r.seq
      /\ Shown(r)[6] = r.size
  BY <1>2, <1>4, <1>7
<1> QED BY <1>1, <1>4, <1>6, <1>8 DEF p

\* A record f with no two newlines in a row but at its end.
Neat(f) ==
  /\ f \in Seq(Octet) /\ Len(f) \in Nat /\ Len(f) > 7
  /\ f[1] = 126 /\ f[2] = 126
  /\ f[Len(f)] = NL /\ f[Len(f) - 1] = NL
  /\ \A o \in 1 .. Len(f) - 3 : ~ (f[o] = NL /\ f[o + 1] = NL)

\* A packet that is not cut is one.
LEMMA FullIsNeat ==
  ASSUME NEW r \in Packets, ~ Cut(r)
  PROVE  Neat(Full(r))
<1> DEFINE n == Len(r.payload)
<1>1. n \in Nat /\ Len(Full(r)) = n + 8 /\ Len(Shown(r)) = n + 6
  <2>1. n \in Octet /\ Len(Full(r)) = n + 8 /\ Len(Shown(r)) = n + 6
    BY FullIs
  <2> HIDE DEF n
  <2> QED BY <2>1 DEF Octet
<1>2. \A o \in 1 .. n + 6 : Full(r)[o] = Shown(r)[o]
  BY FullIs, <1>1
<1>3. /\ Full(r)[n + 7] = NL /\ Full(r)[n + 8] = NL /\ Full(r) \in Seq(Octet)
      /\ Shown(r)[1] = 126 /\ Shown(r)[2] = 126
  BY FullIs
<1>4. \A o \in 1 .. n + 5 : ~ (Shown(r)[o] = NL /\ Shown(r)[o + 1] = NL)
  BY <1>1 DEF Cut
<1> HIDE DEF n
<1>5. \A o \in 1 .. (n + 8) - 3 : ~ (Full(r)[o] = NL /\ Full(r)[o + 1] = NL)
  <2>1. \A o \in 1 .. (n + 8) - 3 :
          o \in 1 .. n + 5 /\ o \in 1 .. n + 6 /\ o + 1 \in 1 .. n + 6
    BY <1>1
  <2> QED BY <1>2, <1>4, <2>1
<1>6. /\ 1 \in 1 .. n + 6 /\ 2 \in 1 .. n + 6 /\ (n + 8) - 1 = n + 7
      /\ n + 8 \in Nat /\ n + 8 > 7
  BY <1>1
<1> QED BY <1>1, <1>2, <1>3, <1>5, <1>6 DEF Neat

\* Where the separator of a record is.
EndOf(f) == IF f[Len(f) - 2] = NL THEN Len(f) - 2 ELSE Len(f) - 1

\* There are its two newlines, and no byte in front of them is one.
LEMMA EndOfIs ==
  ASSUME NEW f, Neat(f)
  PROVE  /\ EndOf(f) \in Nat /\ EndOf(f) > 5 /\ Len(f) \in Nat
         /\ (EndOf(f) = Len(f) - 1 \/ EndOf(f) = Len(f) - 2)
         /\ f[EndOf(f)] = NL /\ f[EndOf(f) + 1] = NL /\ f[EndOf(f) - 1] # NL
         /\ \A o \in 1 .. Len(f) - 1 : f[o] = NL /\ f[o + 1] = NL
              => o = EndOf(f) \/ o = EndOf(f) + 1
<1> DEFINE n == Len(f)
<1>1. /\ n \in Nat /\ n > 7 /\ f[n] = NL /\ f[n - 1] = NL
      /\ \A o \in 1 .. n - 3 : ~ (f[o] = NL /\ f[o + 1] = NL)
  BY DEF Neat
<1>2. EndOf(f) = IF f[n - 2] = NL THEN n - 2 ELSE n - 1
  BY DEF EndOf
<1> HIDE DEF n
<1>3. ASSUME NEW o \in 1 .. n - 1, f[o] = NL, f[o + 1] = NL
      PROVE  o = n - 1 \/ o = n - 2
  <2>1. o \notin 1 .. n - 3
    BY <1>1, <1>3
  <2> QED BY <1>1, <2>1
<1>4. CASE f[n - 2] = NL
  <2>1. n - 3 \in 1 .. n - 3 /\ (n - 3) + 1 = n - 2 /\ (n - 2) - 1 = n - 3
        /\ (n - 2) + 1 = n - 1 /\ n - 2 \in Nat /\ n - 2 > 5
    BY <1>1
  <2>2. f[n - 3] # NL
    BY <1>1, <1>4, <2>1
  <2>3. EndOf(f) = n - 2
    BY <1>2, <1>4
  <2>4. \A o \in 1 .. n - 1 : f[o] = NL /\ f[o + 1] = NL
          => o = n - 2 \/ o = (n - 2) + 1
    BY <1>3, <2>1
  <2> QED BY <1>1, <1>4, <2>1, <2>2, <2>3, <2>4 DEF n
<1>5. CASE f[n - 2] # NL
  <2>1. (n - 2) + 1 = n - 1 /\ (n - 1) - 1 = n - 2
        /\ (n - 1) + 1 = n /\ n - 1 \in Nat /\ n - 1 > 5
    BY <1>1
  <2>2. EndOf(f) = n - 1
    BY <1>2, <1>5
  <2>3. \A o \in 1 .. n - 1 : f[o] = NL /\ f[o + 1] = NL
          => o = n - 1 \/ o = (n - 1) + 1
    BY <1>3, <1>5
  <2> QED BY <1>1, <1>5, <2>1, <2>2, <2>3 DEF n
<1> QED BY <1>4, <1>5

\* In every packet two newlines in a row are at its end only.
NeatAll(pr) == \A i \in 1 .. Len(pr) : Neat(Full(pr[i]))

(***************************************************************************)
(* The stream: what the operating system holds of the records, and the     *)
(* pieces the reader cuts it into at the separators.                       *)
(***************************************************************************)

\* What the reader has still to look at: perhaps the last newline of packet
\* m - 1, then all of the packets from m on, packet i behind the byte P[i].
Stream(s, pr, m, P) ==
  /\ m \in 1 .. Len(pr) + 1
  /\ \A i \in m .. Len(pr) + 1 : P[i] \in 0 .. Len(s)
  /\ P[m] \in {0, 1} /\ (P[m] = 1 => s[1] = NL)
  /\ P[Len(pr) + 1] = Len(s)
  /\ \A i, j \in m .. Len(pr) + 1 : i < j => P[i] < P[j]
  /\ \A i \in m .. Len(pr) :
       /\ P[i + 1] = P[i] + Len(Full(pr[i]))
       /\ \A o \in 1 .. Len(Full(pr[i])) : s[P[i] + o] = Full(pr[i])[o]

\* Every byte but that newline is one of a packet.
LEMMA Placed ==
  ASSUME NEW s \in Seq(Octet), NEW S, NEW pr \in Seq(S), NEW m, NEW P,
         Stream(s, pr, m, P), NeatAll(pr), NEW k \in 1 .. Len(s)
  PROVE  \/ k = 1 /\ P[m] = 1
         \/ \E i \in m .. Len(pr) : \E o \in 1 .. Len(Full(pr[i])) :
              k = P[i] + o
<1> DEFINE N == Len(pr)
           L == {i \in m .. N + 1 : k <= P[i]}
<1>1. N \in Nat /\ m \in 1 .. N + 1 /\ Len(s) \in Nat /\ P[N + 1] = Len(s)
      /\ P[m] \in {0, 1} /\ \A i \in m .. N + 1 : P[i] \in 0 .. Len(s)
  BY DEF Stream
<1>2. \A i \in m .. N : P[i + 1] = P[i] + Len(Full(pr[i]))
  BY DEF Stream
<1> HIDE DEF N
<1>3. N + 1 \in L /\ L \in SUBSET Nat /\ L # {}
  <2>1. N + 1 \in m .. N + 1 /\ k <= P[N + 1]
    BY <1>1
  <2>2. L \in SUBSET Nat
    BY <1>1
  <2> QED BY <2>1, <2>2
<1>4. PICK i \in L : \A j \in L : i <= j
  BY <1>3, Smallest
<1>5. i \in m .. N + 1 /\ k <= P[i]
  BY <1>4
<1>6. CASE i = m
  BY <1>1, <1>5, <1>6
<1>7. CASE i # m
  <2>1. i - 1 \in m .. N /\ i - 1 \in m .. N + 1 /\ (i - 1) + 1 = i
        /\ ~ i <= i - 1
    BY <1>1, <1>5, <1>7
  <2>2. i - 1 \notin L
    BY <1>4, <2>1
  <2>3. ~ k <= P[i - 1] /\ P[i - 1] \in Nat
    BY <1>1, <2>1, <2>2
  <2>4. P[i] = P[i - 1] + Len(Full(pr[i - 1]))
    BY <1>2, <2>1
  <2>5. P[i] \in Nat
    BY <1>1, <1>5
  <2> DEFINE l == Len(Full(pr[i - 1]))
  <2>6. l \in Nat
    BY <1>1, <2>1 DEF NeatAll, Neat, N
  <2>7. P[i] = P[i - 1] + l
    BY <2>4
  <2> HIDE DEF l
  <2>8. k - P[i - 1] \in 1 .. l /\ k = P[i - 1] + (k - P[i - 1])
    BY <1>5, <2>3, <2>5, <2>6, <2>7
  <2> QED BY <2>1, <2>8 DEF N, l
<1> QED BY <1>6, <1>7

\* b is the part of s that has arrived.
PartOf(b, s) ==
  /\ b \in Seq(Octet) /\ s \in Seq(Octet) /\ Len(b) <= Len(s)
  /\ \A k \in 1 .. Len(b) : b[k] = s[k]

\* Where the stream has two newlines in a row.
LEMMA NewlinesEnd ==
  ASSUME NEW s \in Seq(Octet), NEW S, NEW pr \in Seq(S), NEW m, NEW P,
         Stream(s, pr, m, P), NeatAll(pr),
         NEW k \in 1 .. Len(s) - 1, s[k] = NL, s[k + 1] = NL
  PROVE  \E i \in m .. Len(pr) :
           \/ k = P[i] + EndOf(Full(pr[i]))
           \/ k = P[i] + EndOf(Full(pr[i])) + 1
<1> DEFINE N == Len(pr)
<1>1. N \in Nat /\ m \in 1 .. N + 1 /\ Len(s) \in Nat /\ P[N + 1] = Len(s)
      /\ P[m] \in {0, 1} /\ k \in Nat /\ k > 0 /\ k + 1 <= Len(s)
      /\ k \in 1 .. Len(s)
      /\ \A i \in m .. N + 1 : P[i] \in 0 .. Len(s)
  BY DEF Stream
<1>2. \A i \in m .. N :
        /\ P[i + 1] = P[i] + Len(Full(pr[i]))
        /\ \A o \in 1 .. Len(Full(pr[i])) : s[P[i] + o] = Full(pr[i])[o]
  BY DEF Stream
<1>3. \A i \in m .. N : Neat(Full(pr[i]))
  BY <1>1 DEF NeatAll
\* No packet begins with a newline.
<1>4. ASSUME NEW i \in m .. N, s[P[i] + 1] = NL PROVE FALSE
  <2>1. 1 \in 1 .. Len(Full(pr[i])) /\ Full(pr[i])[1] = 126
    BY <1>3 DEF Neat
  <2> QED BY <1>2, <1>4, <2>1 DEF NL
<1>5. CASE k = 1 /\ P[m] = 1
  <2>1. m # N + 1
    BY <1>1, <1>5
  <2>2. m \in m .. N /\ k + 1 = P[m] + 1
    BY <1>1, <1>5, <2>1
  <2> QED BY <1>4, <2>2
<1>6. CASE \E i \in m .. N : \E o \in 1 .. Len(Full(pr[i])) : k = P[i] + o
  <2>1. PICK i \in m .. N : \E o \in 1 .. Len(Full(pr[i])) : k = P[i] + o
    BY <1>6
  <2> DEFINE f == Full(pr[i])
             n == Len(f)
  <2>2. PICK o \in 1 .. n : k = P[i] + o
    BY <2>1
  <2>3. Neat(f)
    BY <1>3
  <2>4. n \in Nat /\ n > 7
    BY <2>3 DEF Neat
  <2>5. P[i + 1] = P[i] + n /\ \A j \in 1 .. n : s[P[i] + j] = f[j]
    BY <1>2
  <2>6. P[i] \in Nat /\ i \in Nat /\ i + 1 \in m .. N + 1
    BY <1>1
  <2> HIDE DEF n
  <2>7. CASE o = n
    <3>1. i + 1 # N + 1
      <4>1. k = P[i + 1]
        BY <2>2, <2>5, <2>7
      <4>2. k # P[N + 1]
        BY <1>1
      <4> QED BY <4>1, <4>2
    <3>2. i + 1 \in m .. N
      <4>1. N \in Nat /\ m \in Nat
        BY <1>1
      <4> HIDE DEF N
      <4> QED BY <2>6, <3>1, <4>1
    <3>3. k + 1 = P[i + 1] + 1
      <4>1. k = P[i + 1]
        BY <2>2, <2>5, <2>7
      <4> QED BY <4>1
    <3> QED BY <1>4, <3>2, <3>3
  <2>8. CASE o # n
    <3>1. o \in 1 .. n - 1 /\ o + 1 \in 1 .. n /\ P[i] + (o + 1) = k + 1
      <4>1. o \in 1 .. n - 1 /\ o + 1 \in 1 .. n /\ o \in Nat
        BY <2>2, <2>4, <2>8
      <4>2. \A x \in Nat : k = x + o => x + (o + 1) = k + 1
        BY <4>1
      <4> QED BY <2>2, <2>6, <4>1, <4>2
    <3>2. f[o] = NL /\ f[o + 1] = NL
      BY <2>2, <2>5, <3>1
    <3>3. /\ EndOf(f) \in Nat
          /\ o = EndOf(f) \/ o = EndOf(f) + 1
      BY <2>3, <3>1, <3>2, EndOfIs DEF n
    <3>4. k = P[i] + EndOf(f) \/ k = P[i] + EndOf(f) + 1
      <4> DEFINE e == EndOf(f)
      <4>1. e \in Nat /\ (o = e \/ o = e + 1)
        BY <3>3
      <4> HIDE DEF e
      <4>2. \A x \in Nat : x + (e + 1) = x + e + 1
        BY <4>1
      <4> QED BY <2>2, <2>6, <4>1, <4>2 DEF e
    <3> QED BY <3>4
  <2> QED BY <2>7, <2>8
<1>7. \/ k = 1 /\ P[m] = 1
      \/ \E i \in m .. N : \E o \in 1 .. Len(Full(pr[i])) : k = P[i] + o
  BY <1>1, Placed
<1> QED BY <1>5, <1>6, <1>7

\* The separators of what has arrived are the ends of the records in it.
LEMMA SeparatorsAre ==
  ASSUME NEW s, NEW b, PartOf(b, s), NEW S, NEW pr \in Seq(S), NEW m, NEW P,
         Stream(s, pr, m, P), NeatAll(pr), NEW k
  PROVE  k \in Separators(b) <=>
           \E i \in m .. Len(pr) :
             k = P[i] + EndOf(Full(pr[i])) /\ k + 1 <= Len(b)
<1> DEFINE N == Len(pr)
           n == Len(b)
<1>1. /\ s \in Seq(Octet) /\ b \in Seq(Octet) /\ n \in Nat /\ Len(s) \in Nat
      /\ n <= Len(s) /\ \A j \in 1 .. n : b[j] = s[j]
  BY DEF PartOf
<1>2. /\ N \in Nat /\ m \in 1 .. N + 1
      /\ \A i \in m .. N + 1 : P[i] \in 0 .. Len(s)
  BY DEF Stream
<1>3. \A i \in m .. N :
        \A o \in 1 .. Len(Full(pr[i])) : s[P[i] + o] = Full(pr[i])[o]
  BY DEF Stream
<1>4. \A i \in m .. N : Neat(Full(pr[i]))
  BY <1>2 DEF NeatAll
<1> HIDE DEF n
\* In front of the separator of a record is no newline.
<1>5. ASSUME NEW i \in m .. N, NEW e, e = P[i] + EndOf(Full(pr[i])),
             e <= n + 1
      PROVE  /\ e \in Nat /\ e - 1 \in 1 .. n /\ s[e - 1] # NL
             /\ s[e] = NL /\ s[e + 1] = NL
  <2> DEFINE f == Full(pr[i])
             h == EndOf(f)
  <2>1. Neat(f)
    BY <1>4
  <2>2. /\ h \in Nat /\ h > 5 /\ Len(f) \in Nat
        /\ h = Len(f) - 1 \/ h = Len(f) - 2
        /\ f[h] = NL /\ f[h + 1] = NL /\ f[h - 1] # NL
    BY <2>1, EndOfIs
  <2>3. P[i] \in Nat
    BY <1>2
  <2>4. \A o \in 1 .. Len(f) : s[P[i] + o] = f[o]
    BY <1>3
  <2>5. e = P[i] + h
    BY <1>5
  <2> HIDE DEF f, h
  <2>6. h \in 1 .. Len(f) /\ h + 1 \in 1 .. Len(f) /\ h - 1 \in 1 .. Len(f)
    BY <2>2
  <2>7. e \in Nat /\ P[i] + (h - 1) = e - 1 /\ P[i] + (h + 1) = e + 1
        /\ e > 5
    <3>1. \A x \in Nat : x + h \in Nat /\ x + (h - 1) = (x + h) - 1
                        /\ x + (h + 1) = (x + h) + 1 /\ x + h > 5
      BY <2>2
    <3> QED BY <2>3, <2>5, <3>1
  <2>8. e - 1 \in 1 .. n
    BY <1>1, <1>5, <2>7
  <2> QED BY <2>2, <2>4, <2>5, <2>6, <2>7, <2>8
<1>6. ASSUME k \in Separators(b)
      PROVE  \E i \in m .. N : k = P[i] + EndOf(Full(pr[i])) /\ k + 1 <= n
  <2>1. k \in 1 .. n - 1 /\ b[k] = NL /\ b[k + 1] = NL
        /\ NewlinesBefore(b, k) % 2 = 0
    BY <1>6 DEF Separators, n
  <2>2. k \in 1 .. Len(s) - 1 /\ k \in 1 .. n /\ k + 1 \in 1 .. n
        /\ k + 1 <= n
    BY <1>1, <2>1
  <2>3. s[k] = NL /\ s[k + 1] = NL
    BY <1>1, <2>1, <2>2
  <2>4. PICK i \in m .. N : \/ k = P[i] + EndOf(Full(pr[i]))
                            \/ k = P[i] + EndOf(Full(pr[i])) + 1
    BY <1>1, <2>2, <2>3, NewlinesEnd
  <2>5. CASE k = P[i] + EndOf(Full(pr[i])) + 1
    <3> DEFINE e == P[i] + EndOf(Full(pr[i]))
    <3>1. EndOf(Full(pr[i])) \in Nat /\ P[i] \in Nat
      BY <1>2, <1>4, EndOfIs
    <3>2. e \in Nat /\ e = k - 1
      BY <2>5, <3>1
    <3>3. e <= n + 1
      BY <1>1, <2>2, <3>2
    <3>4. e - 1 \in 1 .. n /\ s[e - 1] # NL /\ s[e] = NL
      BY <1>5, <3>3
    <3> HIDE DEF e
    <3>5. LastOther(b, k, e - 1)
      <4>1. e - 1 \in 0 .. k - 1 /\ \A j \in (e - 1) + 1 .. k - 1 : j = e
        BY <2>1, <3>2, <3>4
      <4>2. b[e - 1] # NL
        BY <1>1, <3>4
      <4>3. b[e] = NL
        <5>1. e \in 1 .. n
          BY <1>1, <2>2, <3>2, <3>4
        <5> QED BY <1>1, <3>4, <5>1
      <4> QED BY <4>1, <4>2, <4>3 DEF LastOther
    <3>6. k \in Nat \ {0}
      BY <2>1
    <3>7. NewlinesBefore(b, k) = k - 1 - (e - 1)
      BY <3>5, <3>6, NewlinesAre
    <3>8. NewlinesBefore(b, k) = 1
      BY <3>2, <3>6, <3>7
    <3> QED BY <2>1, <3>8
  <2> QED BY <2>2, <2>4, <2>5
<1>7. ASSUME NEW i \in m .. N, k = P[i] + EndOf(Full(pr[i])), k + 1 <= n
      PROVE  k \in Separators(b)
  <2>1. EndOf(Full(pr[i])) \in Nat /\ P[i] \in Nat
    BY <1>2, <1>4, EndOfIs
  <2>2. k \in Nat /\ k <= n + 1
    BY <1>1, <1>7, <2>1
  <2>3. k - 1 \in 1 .. n /\ s[k - 1] # NL /\ s[k] = NL /\ s[k + 1] = NL
    BY <1>5, <1>7, <2>2
  <2>4. k \in 1 .. n - 1 /\ k \in 1 .. n /\ k + 1 \in 1 .. n
        /\ k \in Nat \ {0}
    BY <1>1, <1>7, <2>2, <2>3, SMTT(30)
  <2>5. b[k - 1] # NL /\ b[k] = NL /\ b[k + 1] = NL
    BY <1>1, <2>3, <2>4
  <2>6. LastOther(b, k, k - 1)
    <3>1. k - 1 \in 0 .. k - 1 /\ \A j \in (k - 1) + 1 .. k - 1 : FALSE
      BY <2>4
    <3> QED BY <2>5, <3>1 DEF LastOther
  <2>7. NewlinesBefore(b, k) = k - 1 - (k - 1)
    BY <2>4, <2>6, NewlinesAre
  <2>8. NewlinesBefore(b, k) % 2 = 0
    BY <2>4, <2>7
  <2> QED BY <2>4, <2>5, <2>8 DEF Separators, n
<1> QED BY <1>6, <1>7 DEF n

\* What is not below any of them is the greatest.
LEMMA MaxOf ==
  ASSUME NEW L, L \subseteq Nat, NEW x \in L, \A k \in L : k <= x
  PROVE  Max(L) = x
<1>1. \A y \in L : (\A k \in L : y >= k) => y = x
  <2>1. \A y, z \in Nat : y >= z /\ y <= z => y = z
    OBVIOUS
  <2> QED BY <2>1
<1>2. x \in L /\ \A k \in L : x >= k
  OBVIOUS
<1> QED BY <1>1, <1>2 DEF Max

\* A record ends before the next begins.
LEMMA EndsInOrder ==
  ASSUME NEW s \in Seq(Octet), NEW S, NEW pr \in Seq(S), NEW m, NEW P,
         Stream(s, pr, m, P), NeatAll(pr),
         NEW i \in m .. Len(pr), NEW j \in m .. Len(pr), j < i
  PROVE  P[j] + EndOf(Full(pr[j])) + 1 <= P[i]
<1> DEFINE n == Len(Full(pr[j]))
           h == EndOf(Full(pr[j]))
<1>1. /\ m \in 1 .. Len(pr) + 1 /\ Len(pr) \in Nat
      /\ P[j] \in 0 .. Len(s) /\ P[i] \in 0 .. Len(s) /\ Len(s) \in Nat
      /\ P[j + 1] = P[j] + n
  BY DEF Stream
<1>2. P[j + 1] <= P[i]
  <2>1. j + 1 = i \/ j + 1 < i
    BY <1>1
  <2>2. CASE j + 1 < i
    <3>1. j + 1 \in m .. Len(pr) + 1 /\ i \in m .. Len(pr) + 1
      BY <1>1
    <3>2. P[j + 1] < P[i] /\ P[j + 1] \in Nat
      BY <2>2, <3>1 DEF Stream
    <3> QED BY <1>1, <3>2
  <2>3. CASE j + 1 = i
    <3>1. P[i] <= P[i]
      BY <1>1
    <3> QED BY <2>3, <3>1
  <2> QED BY <2>1, <2>2, <2>3
<1>3. /\ n \in Nat /\ h \in Nat
      /\ h = n - 1 \/ h = n - 2
  <2>1. Neat(Full(pr[j]))
    BY <1>1 DEF NeatAll
  <2> QED BY <2>1, EndOfIs
<1> HIDE DEF n, h
<1>4. \A x, y \in Nat : x + n <= y => x + h + 1 <= y
  BY <1>3
<1>5. P[j] + h + 1 <= P[i]
  BY <1>1, <1>2, <1>4
<1> QED BY <1>5 DEF h

\* The piece the reader looks at: what is before the separator of a record,
\* perhaps with the newline that was left of the last.
PieceOf(piece, f) ==
  \E d \in {0, 1} :
    /\ piece \in Seq(Octet) /\ Len(piece) = d + (EndOf(f) - 1)
    /\ d = 1 => piece[1] = NL
    /\ \A o \in 1 .. EndOf(f) - 1 : piece[d + o] = f[o]

\* The piece before the last separator is of the record that ends there.
LEMMA LatestIs ==
  ASSUME NEW s, NEW b, PartOf(b, s), NEW S, NEW pr \in Seq(S), NEW m, NEW P,
         Stream(s, pr, m, P), NeatAll(pr), Separators(b) # {}
  PROVE  \E i \in m .. Len(pr) :
           /\ Max(Separators(b)) = P[i] + EndOf(Full(pr[i]))
           /\ PieceOf(Latest(b, Separators(b)), Full(pr[i]))
<1> DEFINE N == Len(pr)
           n == Len(b)
           D == Separators(b)
           M == Max(D)
           At(i) == P[i] + EndOf(Full(pr[i]))
<1>1. /\ s \in Seq(Octet) /\ b \in Seq(Octet) /\ n \in Nat /\ Len(s) \in Nat
      /\ n <= Len(s) /\ \A j \in 1 .. n : b[j] = s[j]
  BY DEF PartOf
<1>2. /\ N \in Nat /\ m \in 1 .. N + 1
      /\ \A i \in m .. N + 1 : P[i] \in 0 .. Len(s)
      /\ P[m] \in {0, 1} /\ (P[m] = 1 => s[1] = NL)
  BY DEF Stream
<1>3. \A i \in m .. N :
        /\ P[i + 1] = P[i] + Len(Full(pr[i]))
        /\ \A o \in 1 .. Len(Full(pr[i])) : s[P[i] + o] = Full(pr[i])[o]
  BY DEF Stream
<1>4. \A i \in m .. N : Neat(Full(pr[i]))
  BY <1>2 DEF NeatAll
<1>5. \A k : k \in D <=> \E i \in m .. N : k = At(i) /\ k + 1 <= n
  BY SeparatorsAre
<1>6. M \in D /\ \A k \in D : k <= M
  BY <1>1, RestHasNone
<1>7. \A i \in m .. N : /\ At(i) \in Nat /\ EndOf(Full(pr[i])) \in Nat
                        /\ EndOf(Full(pr[i])) > 5
  <2>1. \A i \in m .. N : EndOf(Full(pr[i])) \in Nat /\ EndOf(Full(pr[i])) > 5
    BY <1>4, EndOfIs
  <2>2. \A i \in m .. N : P[i] \in Nat
    BY <1>2
  <2> QED BY <2>1, <2>2
<1>8. \A i, j \in m .. N : j < i => At(j) + 1 <= P[i]
  BY <1>1, EndsInOrder
<1>9. PICK i \in m .. N : M = At(i) /\ M + 1 <= n
  BY <1>5, <1>6
<1> DEFINE f == Full(pr[i])
           h == EndOf(f)
           start == Max({k + 2 : k \in D \ {M}} \cup {1})
           piece == Latest(b, D)
<1>10. P[i] \in Nat /\ h \in Nat /\ h > 5 /\ M = P[i] + h /\ i \in Nat
  BY <1>2, <1>7, <1>9
\* The separators before it are of the records before this one.
<1>11. \A k \in D \ {M} : \E j \in m .. i - 1 : k = At(j)
  <2>1. ASSUME NEW k \in D \ {M} PROVE \E j \in m .. i - 1 : k = At(j)
    <3>1. PICK j \in m .. N : k = At(j)
      BY <1>5, <2>1
    <3>2. j # i
      BY <1>9, <2>1, <3>1
    <3>3. ~ i < j
      <4>1. ASSUME i < j PROVE FALSE
        <5>1. /\ At(i) + 1 <= P[j] /\ P[j] \in Nat
              /\ At(j) = P[j] + EndOf(Full(pr[j]))
          BY <1>2, <1>8, <4>1
        <5>2. EndOf(Full(pr[j])) \in Nat /\ At(i) \in Nat
          BY <1>7
        <5>3. k <= M
          BY <1>6, <2>1
        <5> HIDE DEF At
        <5>4. \A x, y, z \in Nat : x + 1 <= y => ~ y + z <= x
          OBVIOUS
        <5> QED BY <1>9, <3>1, <5>1, <5>2, <5>3, <5>4
      <4> QED BY <4>1
    <3>4. j \in m .. i - 1
      BY <1>2, <3>2, <3>3
    <3> QED BY <3>1, <3>4
  <2> QED BY <2>1
<1>12. piece = SubSeq(b, start, M - 1)
  BY DEF Latest
<1> HIDE DEF D, M, At, start, piece
<1>13. \E d \in {0, 1} : start = P[i] + 1 - d /\ start \in 1 .. n
                         /\ (d = 1 => b[start] = NL)
  <2>1. CASE i = m
    <3>1. D \ {M} = {}
      <4>1. m .. i - 1 = {}
        BY <1>2, <2>1
      <4> QED BY <1>11, <4>1
    <3>2. start = Max({1})
      <4>1. {k + 2 : k \in D \ {M}} \cup {1} = {1}
        BY <3>1
      <4> QED BY <4>1 DEF start
    <3>3. start = 1
      <4>1. {1} \subseteq Nat /\ 1 \in {1} /\ \A k \in {1} : k <= 1
        OBVIOUS
      <4> QED BY <3>2, <4>1, MaxOf
    <3>4. P[i] \in {0, 1} /\ start = P[i] + 1 - P[i] /\ 1 \in 1 .. n
      <4>1. P[i] \in {0, 1}
        BY <1>2, <2>1
      <4>2. \A x \in {0, 1} : x + 1 - x = 1
        OBVIOUS
      <4>3. 1 \in 1 .. n
        <5> HIDE DEF h
        <5>1. \A x \in Nat : (x + h) + 1 <= n => 1 \in 1 .. n
          BY <1>1, <1>10
        <5> QED BY <1>9, <1>10, <5>1
      <4> QED BY <3>3, <4>1, <4>2, <4>3
    <3> QED BY <1>1, <1>2, <2>1, <3>3, <3>4
  <2>2. CASE i # m
    <3> DEFINE g == Full(pr[i - 1])
               c == EndOf(g)
    <3>1. /\ i - 1 \in m .. N /\ i - 1 < i /\ (i - 1) + 1 = i
          /\ i - 1 \in m .. N + 1
      BY <1>2, <2>2
    <3>2. At(i - 1) + 1 <= P[i] /\ At(i - 1) \in Nat
      BY <1>7, <1>8, <3>1
    <3>3. At(i - 1) + 1 <= n /\ At(i - 1) # M /\ At(i - 1) + 2 \in Nat
      <4>1. \A x, y, z \in Nat : x + 1 <= y /\ (y + z) + 1 <= n /\ z > 5
              => x + 1 <= n /\ x # y + z /\ x + 2 \in Nat
        BY <1>1
      <4> HIDE DEF h
      <4> QED BY <1>9, <1>10, <3>2, <4>1
    <3>4. At(i - 1) \in D \ {M}
      BY <1>5, <3>1, <3>3
    <3>5. ASSUME NEW k \in D \ {M} PROVE k \in Nat /\ k <= At(i - 1)
      <4>1. PICK j \in m .. i - 1 : k = At(j)
        BY <1>11
      <4>2. j \in m .. N /\ (j = i - 1 \/ j < i - 1)
        BY <1>2, <3>1
      <4>3. At(j) \in Nat
        BY <1>7, <4>2
      <4>4. CASE j = i - 1
        BY <3>2, <4>1, <4>4
      <4>5. CASE j < i - 1
        <5>1. At(j) + 1 <= P[i - 1]
          BY <1>8, <3>1, <4>2, <4>5
        <5>2. /\ P[i - 1] \in Nat /\ At(i - 1) = P[i - 1] + c /\ c \in Nat
          BY <1>2, <1>7, <3>1 DEF At
        <5> HIDE DEF c
        <5> QED BY <4>1, <4>3, <5>1, <5>2
      <4> QED BY <4>2, <4>4, <4>5
    <3>6. start = At(i - 1) + 2
      <4> DEFINE L == {k + 2 : k \in D \ {M}} \cup {1}
      <4>1. L \subseteq Nat
        BY <3>5
      <4>2. At(i - 1) + 2 \in L
        BY <3>4
      <4>3. \A k \in L : k <= At(i - 1) + 2
        <5>1. \A k \in D \ {M} : k + 2 <= At(i - 1) + 2
          BY <3>2, <3>5
        <5>2. 1 <= At(i - 1) + 2
          BY <3>2
        <5> QED BY <5>1, <5>2
      <4> HIDE DEF L
      <4>4. Max(L) = At(i - 1) + 2
        BY <4>1, <4>2, <4>3, MaxOf
      <4> QED BY <4>4 DEF start, L
    <3>7. /\ c \in Nat /\ c > 5 /\ Len(g) \in Nat
          /\ c = Len(g) - 1 \/ c = Len(g) - 2
      BY <1>4, <3>1, EndOfIs
    <3>8. P[i] = P[i - 1] + Len(g) /\ P[i - 1] \in Nat
          /\ At(i - 1) = P[i - 1] + c
      BY <1>2, <1>3, <3>1 DEF At
    <3>9. s[P[i]] = NL
      <4>1. Len(g) \in 1 .. Len(g) /\ g[Len(g)] = NL
        BY <1>4, <3>1 DEF Neat
      <4>2. \A o \in 1 .. Len(g) : s[P[i - 1] + o] = g[o]
        BY <1>3, <3>1
      <4> HIDE DEF g
      <4> QED BY <3>8, <4>1, <4>2
    <3> HIDE DEF g, c
    <3>10. CASE c = Len(g) - 1
      <4>1. \A x, y \in Nat : y = x + Len(g) =>
              /\ (x + c) + 2 = y + 1 - 0
              /\ (y + h) + 1 <= n => (x + c) + 2 \in 1 .. n
        <5> HIDE DEF h
        <5> QED BY <1>1, <1>10, <3>7, <3>10
      <4>2. start = P[i] + 1 - 0 /\ start \in 1 .. n
        <5> HIDE DEF h
        <5>1. start = (P[i - 1] + c) + 2 /\ (P[i] + h) + 1 <= n
          BY <1>9, <1>10, <3>6, <3>8
        <5>2. P[i] \in Nat /\ P[i - 1] \in Nat /\ P[i] = P[i - 1] + Len(g)
          BY <1>10, <3>8
        <5> QED BY <4>1, <5>1, <5>2
      <4> QED BY <4>2
    <3>11. CASE c = Len(g) - 2
      <4>1. \A x, y \in Nat : y = x + Len(g) =>
              /\ (x + c) + 2 = y /\ (x + c) + 2 = y + 1 - 1
              /\ (y + h) + 1 <= n => (x + c) + 2 \in 1 .. n
        <5> HIDE DEF h
        <5> QED BY <1>1, <1>10, <3>7, <3>11
      <4>2. start = P[i] /\ start = P[i] + 1 - 1 /\ start \in 1 .. n
        <5> HIDE DEF h
        <5>1. start = (P[i - 1] + c) + 2 /\ (P[i] + h) + 1 <= n
          BY <1>9, <1>10, <3>6, <3>8
        <5>2. P[i] \in Nat /\ P[i - 1] \in Nat /\ P[i] = P[i - 1] + Len(g)
          BY <1>10, <3>8
        <5> QED BY <4>1, <5>1, <5>2
      <4>3. b[start] = NL
        BY <1>1, <3>9, <4>2
      <4> QED BY <4>2, <4>3
    <3> QED BY <3>7, <3>10, <3>11
  <2> QED BY <2>1, <2>2
<1>14. PICK d \in {0, 1} : start = P[i] + 1 - d /\ start \in 1 .. n
                           /\ (d = 1 => b[start] = NL)
  BY <1>13
<1>15. /\ piece \in Seq(Octet) /\ Len(piece) = d + (h - 1)
       /\ \A k \in 1 .. Len(piece) : piece[k] = b[start + k - 1]
  <2>1. start \in Nat \ {0} /\ M - 1 \in Int /\ M - 1 <= n
    <3> HIDE DEF h
    <3>1. M \in Nat
      BY <1>10
    <3>2. M - 1 \in Int /\ M - 1 <= n
      BY <1>1, <1>9, <3>1
    <3> QED BY <1>14, <3>2
  <2>2. /\ piece \in Seq(Octet)
        /\ Len(piece) = IF start <= M - 1 THEN (M - 1) - start + 1 ELSE 0
        /\ \A k \in 1 .. Len(piece) : piece[k] = b[start + k - 1]
    <3>1. b \in Seq(Octet) /\ M - 1 <= Len(b)
      BY <1>1, <2>1
    <3> QED BY <1>12, <2>1, <3>1, PartIs
  <2>3. Len(piece) = d + (h - 1)
    <3> HIDE DEF h
    <3>1. \A x \in Nat :
            /\ x + 1 - d <= (x + h) - 1
            /\ ((x + h) - 1) - (x + 1 - d) + 1 = d + (h - 1)
      BY <1>10
    <3>2. start = P[i] + 1 - d /\ M = P[i] + h /\ P[i] \in Nat
      BY <1>10, <1>14
    <3>3. start <= M - 1 /\ (M - 1) - start + 1 = d + (h - 1)
      BY <3>1, <3>2
    <3> QED BY <2>2, <3>3
  <2> QED BY <2>2, <2>3
<1>16. d = 1 => piece[1] = NL
  <2>1. d = 1 => 1 \in 1 .. Len(piece) /\ start + 1 - 1 = start
    BY <1>10, <1>14, <1>15
  <2> QED BY <1>14, <1>15, <2>1
<1>17. ASSUME NEW o \in 1 .. h - 1 PROVE piece[d + o] = f[o]
  <2>1. /\ h \in Nat /\ h > 5 /\ Len(f) \in Nat
        /\ h = Len(f) - 1 \/ h = Len(f) - 2
    BY <1>4, EndOfIs
  <2>2. s[P[i] + o] = f[o]
    <3>1. o \in 1 .. Len(f)
      <4> HIDE DEF h, f
      <4> QED BY <1>17, <2>1
    <3> QED BY <1>3, <3>1
  <2> HIDE DEF h, f
  <2>3. d + o \in 1 .. Len(piece)
    BY <1>10, <1>15, <1>17
  <2>4. start + (d + o) - 1 = P[i] + o /\ P[i] + o \in 1 .. n
    <3>1. \A x \in Nat : (x + h) + 1 <= n =>
            (x + 1 - d) + (d + o) - 1 = x + o /\ x + o \in 1 .. n
      BY <1>1, <1>10, <1>17
    <3> QED BY <1>9, <1>10, <1>14, <3>1
  <2> QED BY <1>1, <1>15, <2>2, <2>3, <2>4
<1>18. PieceOf(piece, f)
  BY <1>15, <1>16, <1>17 DEF PieceOf
<1> QED BY <1>9, <1>18 DEF M, D, At, piece

\* What is taken for a record is the packet itself.
LEMMA LineIs ==
  ASSUME NEW r \in Packets, ~ Cut(r), NEW piece, PieceOf(piece, Full(r))
  PROVE  /\ HasStart(piece) /\ FromStart(piece) \in Seq(Octet)
         /\ ~ Len(FromStart(piece)) < 6 /\ Complete(FromStart(piece))
              => Record(FromStart(piece)) = r
<1> DEFINE f == Full(r)
           h == EndOf(f)
           p == r.payload
           n == Len(p)
           line == FromStart(piece)
<1>1. Neat(f)
  BY FullIsNeat
<1>2. /\ h \in Nat /\ h > 5 /\ Len(f) \in Nat
      /\ h = Len(f) - 1 \/ h = Len(f) - 2
      /\ f[h] = NL
  BY <1>1, EndOfIs
<1>3. f[1] = 126 /\ f[2] = 126
  BY <1>1 DEF Neat
<1>4. /\ n \in Nat /\ p \in Seq(Octet)
      /\ Len(f) = n + 8 /\ Len(Shown(r)) = n + 6
      /\ Shown(r)[3] = r.sn /\ Shown(r)[4] = r.counter /\ Shown(r)[5] = r.seq
      /\ Shown(r)[6] = r.size /\ r.size \in Nat /\ (n = 0 \/ n = r.size)
      /\ \A o \in 1 .. n : Shown(r)[o + 6] = p[o]
  <2>1. /\ n \in Octet /\ p \in Seq(Octet) /\ r.size \in Octet
        /\ n = 0 \/ n = r.size
    BY DEF Packets, Hidden
  <2>2. n \in Nat /\ r.size \in Nat
    <3>1. \A x \in Octet : x \in Nat
      BY DEF Octet
    <3> HIDE DEF n
    <3> QED BY <2>1, <3>1
  <2> QED BY <2>1, <2>2, FullIs
<1>5. \A o \in 1 .. n + 6 : f[o] = Shown(r)[o]
  BY <1>4, FullIs
<1>6. PICK d \in {0, 1} :
        /\ piece \in Seq(Octet) /\ Len(piece) = d + (h - 1)
        /\ d = 1 => piece[1] = NL
        /\ \A o \in 1 .. h - 1 : piece[d + o] = f[o]
  BY DEF PieceOf
<1> HIDE DEF f, h, n, p, line
<1>7. h - 1 <= n + 6
  BY <1>2, <1>4
<1>8. /\ d + 1 \in StartsAt(piece) /\ StartsAt(piece) \in SUBSET Nat
      /\ \A k \in StartsAt(piece) : d + 1 <= k
  <2>1. d + 1 \in 1 .. Len(piece) - 1 /\ 1 \in 1 .. h - 1 /\ 2 \in 1 .. h - 1
        /\ d + 2 = (d + 1) + 1
    BY <1>2, <1>6
  <2>2. piece[d + 1] = 126 /\ piece[(d + 1) + 1] = 126
    BY <1>3, <1>6, <2>1
  <2>3. <<piece[d + 1], piece[(d + 1) + 1]>> = START
    BY <2>2 DEF START
  <2>4. d + 1 \in StartsAt(piece)
    BY <2>1, <2>3 DEF StartsAt
  <2>5. StartsAt(piece) \in SUBSET Nat
    BY DEF StartsAt
  <2>6. ASSUME NEW k \in StartsAt(piece) PROVE d + 1 <= k
    <3>1. k \in Nat /\ k > 0 /\ <<piece[k], piece[k + 1]>> = <<126, 126>>
      BY <2>6 DEF StartsAt, START
    <3>2. piece[k] = 126
      BY <3>1
    <3>3. ~ (d = 1 /\ k = 1)
      BY <1>6, <3>2 DEF NL
    <3> QED BY <3>1, <3>3
  <2> QED BY <2>4, <2>5, <2>6
<1>9. line = SubSeq(piece, d + 1, Len(piece))
  <2> DEFINE first == CHOOSE k \in StartsAt(piece) :
                        \A j \in StartsAt(piece) : k <= j
  <2>1. first \in StartsAt(piece) /\ \A j \in StartsAt(piece) : first <= j
    BY <1>8
  <2>2. line = SubSeq(piece, first, Len(piece))
    BY DEF line, FromStart
  <2> HIDE DEF first
  <2>3. first \in Nat /\ d + 1 \in Nat /\ first <= d + 1 /\ d + 1 <= first
    BY <1>8, <2>1
  <2>4. first = d + 1
    BY <2>3
  <2> QED BY <2>2, <2>4
<1>10. /\ line \in Seq(Octet) /\ Len(line) = h - 1
       /\ \A o \in 1 .. h - 1 : line[o] = f[o]
  <2>1. d + 1 \in Nat \ {0} /\ Len(piece) \in Int /\ Len(piece) <= Len(piece)
    BY <1>2, <1>6
  <2>2. /\ line \in Seq(Octet)
        /\ Len(line) = IF d + 1 <= Len(piece)
                       THEN Len(piece) - (d + 1) + 1 ELSE 0
        /\ \A k \in 1 .. Len(line) : line[k] = piece[(d + 1) + k - 1]
    BY <1>6, <1>9, <2>1, PartIs
  <2>3. Len(line) = h - 1
    BY <1>2, <1>6, <2>2
  <2>4. \A k \in 1 .. h - 1 : (d + 1) + k - 1 = d + k
    BY <1>2
  <2> QED BY <1>6, <2>2, <2>3, <2>4
<1>11. ASSUME ~ Len(line) < 6, Complete(line) PROVE Record(line) = r
  <2>0. h > 6
    BY <1>2, <1>10, <1>11
  <2>1. 3 \in 1 .. h - 1 /\ 4 \in 1 .. h - 1 /\ 5 \in 1 .. h - 1
        /\ 6 \in 1 .. h - 1 /\ 3 \in 1 .. n + 6 /\ 4 \in 1 .. n + 6
        /\ 5 \in 1 .. n + 6 /\ 6 \in 1 .. n + 6
    BY <1>2, <1>4, <1>7, <2>0
  <2>2. /\ line[3] = r.sn /\ line[4] = r.counter /\ line[5] = r.seq
        /\ line[6] = r.size
    BY <1>4, <1>5, <1>10, <2>1
  <2>3. Len(line) - 6 = n
    <3>1. Len(line) - 6 = r.size
      BY <1>11, <2>2 DEF Complete
    <3>2. Len(line) = h - 1
      BY <1>10
    <3>3. n = 0 => r.size = n
      BY <1>2, <1>4, <1>7, <2>0, <3>1, <3>2
    <3> QED BY <1>4, <3>1, <3>3
  <2>4. h - 1 = n + 6 /\ Len(line) = n + 6
    BY <1>2, <1>4, <1>10, <2>3
  <2> DEFINE q == SubSeq(line, 7, Len(line))
  <2>5. /\ q \in Seq(Octet) /\ Len(q) = n
        /\ \A k \in 1 .. n : q[k] = line[7 + k - 1]
    <3>1. 7 \in Nat \ {0} /\ Len(line) \in Int /\ Len(line) <= Len(line)
      BY <1>4, <2>4
    <3>2. /\ q \in Seq(Octet)
          /\ Len(q) = IF 7 <= Len(line) THEN Len(line) - 7 + 1 ELSE 0
          /\ \A k \in 1 .. Len(q) : q[k] = line[7 + k - 1]
      BY <1>10, <3>1, PartIs
    <3>3. Len(q) = n
      BY <1>4, <2>4, <3>2
    <3> QED BY <3>2, <3>3
  <2>6. ASSUME NEW k \in 1 .. n PROVE q[k] = p[k]
    <3>1. 7 + k - 1 = k + 6 /\ k + 6 \in 1 .. h - 1 /\ k + 6 \in 1 .. n + 6
      BY <1>4, <2>4
    <3> HIDE DEF q
    <3> QED BY <1>4, <1>5, <1>10, <2>5, <3>1
  <2>7. q = p
    <3> HIDE DEF q
    <3>1. Len(q) = Len(p) /\ \A k \in 1 .. Len(q) : q[k] = p[k]
      BY <2>5, <2>6 DEF n
    <3> QED BY <1>4, <2>5, <3>1, SeqEqual
  <2>8. Record(line) = [sn |-> r.sn, counter |-> r.counter, seq |-> r.seq,
                        size |-> r.size, payload |-> r.payload]
    BY <2>2, <2>7 DEF Record, p
  <2>9. r \in [sn : Octet, counter : Octet, seq : Octet, size : Octet,
               payload : Seq(Octet)]
    BY DEF Packets
  <2>10. r = [sn |-> r.sn, counter |-> r.counter, seq |-> r.seq,
              size |-> r.size, payload |-> r.payload]
    BY <2>9
  <2> QED BY <2>8, <2>10
<1>12. HasStart(piece)
  BY <1>8 DEF HasStart
<1> QED BY <1>10, <1>11, <1>12 DEF line

(***************************************************************************)
(* The stream goes on: a record more is printed, a piece is taken.         *)
(***************************************************************************)

\* A packet more is printed.
LEMMA StreamGrows ==
  ASSUME NEW s \in Seq(Octet), NEW pr \in Seq(Packets), NEW r \in Packets,
         NEW m, NEW P, Stream(s, pr, m, P), NeatAll(pr)
  PROVE  \E Q : Stream(s \o Full(r), Append(pr, r), m, Q)
<1> DEFINE N == Len(pr)
           f == Full(r)
           n == Len(f)
           t == s \o f
           new == Append(pr, r)
           Q == [i \in m .. N + 2 |-> IF i = N + 2 THEN Len(s) + n ELSE P[i]]
<1>1. /\ N \in Nat /\ m \in 1 .. N + 1 /\ Len(s) \in Nat
      /\ \A i \in m .. N + 1 : P[i] \in 0 .. Len(s)
      /\ P[m] \in {0, 1} /\ (P[m] = 1 => s[1] = NL)
      /\ P[N + 1] = Len(s)
      /\ \A i, j \in m .. N + 1 : i < j => P[i] < P[j]
  BY DEF Stream
<1>2. \A i \in m .. N :
        /\ P[i + 1] = P[i] + Len(Full(pr[i]))
        /\ \A o \in 1 .. Len(Full(pr[i])) : s[P[i] + o] = Full(pr[i])[o]
  BY DEF Stream
<1>3. f \in Seq(Octet) /\ n \in Nat /\ n > 0
  <2>1. Len(r.payload) \in Octet /\ f \in Seq(Octet)
        /\ n = Len(r.payload) + 8
    BY FullIs
  <2> HIDE DEF f, n
  <2>2. Len(r.payload) \in Nat
    BY <2>1, SMTT(30) DEF Octet
  <2> QED BY <2>1, <2>2
<1>4. /\ Len(new) = N + 1 /\ new[N + 1] = r
      /\ \A i \in 1 .. N : new[i] = pr[i]
  BY <1>1
<1>5. /\ t \in Seq(Octet) /\ Len(t) = Len(s) + n
      /\ \A k \in 1 .. Len(s) : t[k] = s[k]
      /\ \A k \in 1 .. n : t[Len(s) + k] = f[k]
  BY <1>3, TwoParts
<1> HIDE DEF N, f, n, t, new
<1>6. /\ Q[N + 2] = Len(s) + n
      /\ \A i \in m .. N + 1 : Q[i] = P[i]
  <2>1. /\ N + 2 \in m .. N + 2
        /\ \A i \in m .. N + 1 : i \in m .. N + 2 /\ i # N + 2
    BY <1>1
  <2> QED BY <2>1
<1> HIDE DEF Q
<1>7. m \in 1 .. (N + 1) + 1 /\ m \in m .. N + 1
  BY <1>1
<1>8. ASSUME NEW i \in m .. N + 2 PROVE Q[i] \in 0 .. Len(s) + n
  <2>1. i \in m .. N + 1 \/ i = N + 2
    BY <1>1
  <2>2. CASE i = N + 2
    BY <1>1, <1>3, <1>6, <2>2
  <2>3. CASE i \in m .. N + 1
    <3>1. Q[i] \in 0 .. Len(s)
      BY <1>1, <1>6, <2>3
    <3> QED BY <1>1, <1>3, <3>1
  <2> QED BY <2>1, <2>2, <2>3
<1>9. Q[m] \in {0, 1} /\ (Q[m] = 1 => t[1] = NL)
  <2>1. Q[m] = P[m]
    BY <1>6, <1>7
  <2>2. P[m] \in 0 .. Len(s)
    BY <1>1, <1>7
  <2>3. P[m] = 1 => 1 \in 1 .. Len(s)
    BY <1>1, <2>2
  <2> QED BY <1>1, <1>5, <2>1, <2>3
<1>10. ASSUME NEW i \in m .. N + 2, NEW j \in m .. N + 2, i < j
       PROVE  Q[i] < Q[j]
  <2>1. i \in m .. N + 1 /\ (j \in m .. N + 1 \/ j = N + 2)
    BY <1>1, <1>10
  <2>2. CASE j \in m .. N + 1
    BY <1>1, <1>6, <1>10, <2>1, <2>2
  <2>3. CASE j = N + 2
    <3>1. Q[i] \in 0 .. Len(s)
      BY <1>1, <1>6, <2>1
    <3>2. Q[j] = Len(s) + n
      BY <1>6, <2>3
    <3> QED BY <1>1, <1>3, <3>1, <3>2
  <2> QED BY <2>1, <2>2, <2>3
<1>11. ASSUME NEW i \in m .. N + 1
       PROVE  /\ Q[i + 1] = Q[i] + Len(Full(new[i]))
              /\ \A o \in 1 .. Len(Full(new[i])) :
                   t[Q[i] + o] = Full(new[i])[o]
  <2>1. Q[i] = P[i]
    BY <1>6
  <2>2. CASE i = N + 1
    <3>1. Full(new[i]) = f /\ Len(Full(new[i])) = n
      BY <1>4, <2>2 DEF f, n
    <3>2. P[i] = Len(s) /\ i + 1 = N + 2
      BY <1>1, <2>2
    <3> QED BY <1>5, <1>6, <2>1, <3>1, <3>2
  <2>3. CASE i # N + 1
    <3>1. i \in m .. N /\ i \in 1 .. N /\ i + 1 \in m .. N + 1
          /\ i \in m .. N + 1
      BY <1>1, <2>3
    <3>2. new[i] = pr[i] /\ Q[i + 1] = P[i + 1]
      BY <1>4, <1>6, <3>1
    <3> DEFINE g == Full(pr[i])
               l == Len(g)
    <3>3. P[i + 1] = P[i] + l /\ \A o \in 1 .. l : s[P[i] + o] = g[o]
      BY <1>2, <3>1
    <3>4. P[i] \in Nat /\ P[i + 1] \in 0 .. Len(s)
      BY <1>1, <3>1
    <3>5. l \in Nat
      BY <3>1 DEF NeatAll, Neat, N
    <3> HIDE DEF l
    <3>6. ASSUME NEW o \in 1 .. l PROVE t[P[i] + o] = g[o]
      <4>1. P[i] + o \in 1 .. Len(s)
        <5>1. \A x \in Nat : x + l \in 0 .. Len(s) => x + o \in 1 .. Len(s)
          BY <1>1, <3>5
        <5> QED BY <3>3, <3>4, <5>1
      <4> QED BY <1>5, <3>3, <4>1
    <3> QED BY <2>1, <3>2, <3>3, <3>6 DEF l
  <2> QED BY <2>2, <2>3
<1>12. Stream(t, new, m, Q)
  <2>1. (N + 1) + 1 = N + 2
    BY <1>1
  <2> QED BY <1>4, <1>5, <1>6, <1>7, <1>8, <1>9, <1>10, <1>11, <2>1 DEF Stream
<1> QED BY <1>12 DEF t, f, new

\* t is what is behind the first c bytes of s.
Behind(t, s, c) ==
  Len(t) = Len(s) - c /\ \A k \in 1 .. Len(t) : t[k] = s[c + k]

\* What is up to the separator of packet i is taken away.
LEMMA StreamGoesOn ==
  ASSUME NEW s \in Seq(Octet), NEW pr \in Seq(Packets), NEW m, NEW P,
         Stream(s, pr, m, P), NeatAll(pr), NEW i \in m .. Len(pr),
         NEW c, c = P[i] + EndOf(Full(pr[i])) + 1,
         NEW t \in Seq(Octet), Behind(t, s, c)
  PROVE  \E Q : Stream(t, pr, i + 1, Q)
<1> DEFINE N == Len(pr)
           f == Full(pr[i])
           h == EndOf(f)
           Q == [j \in i + 1 .. N + 1 |-> P[j] - c]
<1>1. /\ N \in Nat /\ m \in 1 .. N + 1 /\ Len(s) \in Nat /\ Len(t) \in Nat
      /\ \A j \in m .. N + 1 : P[j] \in 0 .. Len(s)
      /\ P[N + 1] = Len(s)
      /\ \A j, k \in m .. N + 1 : j < k => P[j] < P[k]
      /\ Len(t) = Len(s) - c
      /\ \A k \in 1 .. Len(t) : t[k] = s[c + k]
  <2>1. /\ m \in 1 .. N + 1
        /\ \A j \in m .. N + 1 : P[j] \in 0 .. Len(s)
        /\ P[N + 1] = Len(s)
        /\ \A j, k \in m .. N + 1 : j < k => P[j] < P[k]
    BY DEF Stream
  <2>2. Len(t) = Len(s) - c /\ \A k \in 1 .. Len(t) : t[k] = s[c + k]
    BY DEF Behind
  <2>3. N \in Nat /\ Len(s) \in Nat /\ Len(t) \in Nat
    OBVIOUS
  <2> QED BY <2>1, <2>2, <2>3
<1>2. \A j \in m .. N :
        /\ P[j + 1] = P[j] + Len(Full(pr[j]))
        /\ \A o \in 1 .. Len(Full(pr[j])) : s[P[j] + o] = Full(pr[j])[o]
  BY DEF Stream
<1>3. Neat(f) /\ \A j \in m .. N : Len(Full(pr[j])) \in Nat
  BY <1>1, SMTT(30) DEF NeatAll, Neat
<1>4. /\ h \in Nat /\ Len(f) \in Nat /\ h > 5
      /\ h = Len(f) - 1 \/ h = Len(f) - 2
      /\ f[Len(f)] = NL
  BY <1>3, EndOfIs DEF Neat
<1>5. /\ P[i] \in Nat /\ i \in Nat /\ P[i + 1] = P[i] + Len(f)
      /\ c = P[i] + h + 1 /\ i + 1 \in m .. N + 1 /\ P[i + 1] \in Nat
      /\ \A j \in i + 1 .. N + 1 : j \in m .. N + 1
  <2>1. i \in Nat /\ i \in m .. N /\ i \in m .. N + 1 /\ i + 1 \in m .. N + 1
    BY <1>1
  <2>2. \A j \in i + 1 .. N + 1 : j \in m .. N + 1
    BY <1>1, <2>1
  <2>3. P[i] \in Nat /\ P[i + 1] \in Nat
    BY <1>1, <2>1
  <2>4. P[i + 1] = P[i] + Len(f)
    BY <1>2, <2>1
  <2> QED BY <2>1, <2>2, <2>3, <2>4
<1>6. \A o \in 1 .. Len(f) : s[P[i] + o] = f[o]
  BY <1>2
<1> HIDE DEF N, f, h
<1>7. /\ c \in Nat /\ P[i + 1] - c \in {0, 1}
      /\ P[i + 1] - c = 1 => c + 1 = P[i + 1]
  <2> DEFINE l == Len(f)
  <2>1. l = h + 1 \/ l = h + 2
    BY <1>4
  <2> HIDE DEF l
  <2>2. \A x \in Nat : /\ x + h + 1 \in Nat
                       /\ (x + l) - (x + h + 1) \in {0, 1}
                       /\ (x + l) - (x + h + 1) = 1 => (x + h + 1) + 1 = x + l
    BY <1>4, <2>1
  <2> QED BY <1>5, <2>2 DEF l
<1>8. \A j \in i + 1 .. N + 1 : Q[j] = P[j] - c
  OBVIOUS
<1> HIDE DEF Q
<1>9. \A j \in i + 1 .. N + 1 : P[j] \in Nat /\ P[j] <= Len(s)
                                /\ P[i + 1] <= P[j]
  <2>1. ASSUME NEW j \in i + 1 .. N + 1
        PROVE  P[j] \in Nat /\ P[j] <= Len(s) /\ P[i + 1] <= P[j]
    <3>1. P[j] \in Nat /\ P[j] <= Len(s)
      BY <1>1, <1>5
    <3>2. CASE j = i + 1
      <4>1. P[j] <= P[j]
        BY <3>1
      <4> QED BY <3>1, <3>2, <4>1
    <3>3. CASE j # i + 1
      <4>1. i + 1 < j
        BY <1>5, <3>3
      <4>2. P[i + 1] < P[j]
        BY <1>1, <1>5, <4>1
      <4> QED BY <1>5, <3>1, <4>2, SMTT(30)
    <3> QED BY <3>2, <3>3
  <2> QED BY <2>1
<1>10. ASSUME NEW j \in i + 1 .. N + 1 PROVE Q[j] \in 0 .. Len(t)
  <2>1. \A x, y \in Nat : /\ x - c \in {0, 1} /\ x <= y /\ y <= Len(s)
                             => y - c \in 0 .. Len(s) - c
    <3>1. c \in Nat /\ Len(s) \in Nat
      BY <1>1, <1>7
    <3>2. \A l, x, y \in Nat : /\ x - c \in {0, 1} /\ x <= y /\ y <= l
                                  => y - c \in 0 .. l - c
      BY <3>1, SMTT(30)
    <3> QED BY <3>1, <3>2
  <2>2. P[j] - c \in 0 .. Len(s) - c
    BY <1>5, <1>7, <1>9, <2>1
  <2> QED BY <1>1, <1>8, <2>2
<1>11. Q[i + 1] \in {0, 1} /\ (Q[i + 1] = 1 => t[1] = NL)
  <2>1. i + 1 \in i + 1 .. N + 1
    BY <1>1, <1>5
  <2>2. Q[i + 1] = P[i + 1] - c
    BY <1>8, <2>1
  <2>3. ASSUME Q[i + 1] = 1 PROVE t[1] = NL
    <3>1. s[P[i + 1]] = NL
      <4>1. Len(f) \in 1 .. Len(f)
        BY <1>4
      <4> QED BY <1>4, <1>5, <1>6, <4>1
    <3>2. c + 1 = P[i + 1]
      BY <1>7, <2>2, <2>3
    <3>3. 1 \in 1 .. Len(t)
      <4>1. Q[i + 1] \in 0 .. Len(t)
        BY <1>10, <2>1
      <4> QED BY <1>1, <2>3, <4>1
    <3> QED BY <1>1, <3>1, <3>2, <3>3
  <2> QED BY <1>7, <2>2, <2>3
<1>12. Q[N + 1] = Len(t)
  <2>1. N + 1 \in i + 1 .. N + 1
    BY <1>1, <1>5
  <2> QED BY <1>1, <1>8, <2>1
<1>13. ASSUME NEW j \in i + 1 .. N + 1, NEW k \in i + 1 .. N + 1, j < k
       PROVE  Q[j] < Q[k]
  <2>1. P[j] < P[k] /\ P[j] \in Nat /\ P[k] \in Nat
    BY <1>1, <1>5, <1>9, <1>13
  <2>2. \A x, y \in Nat : x < y => x - c < y - c
    BY <1>7
  <2> QED BY <1>8, <2>1, <2>2
<1>14. ASSUME NEW j \in i + 1 .. N
       PROVE  /\ Q[j + 1] = Q[j] + Len(Full(pr[j]))
              /\ \A o \in 1 .. Len(Full(pr[j])) : t[Q[j] + o] = Full(pr[j])[o]
  <2> DEFINE l == Len(Full(pr[j]))
  <2>1. j \in m .. N /\ j \in i + 1 .. N + 1 /\ j + 1 \in i + 1 .. N + 1
    BY <1>1, <1>5
  <2>2. /\ l \in Nat /\ P[j + 1] = P[j] + l /\ P[j] \in Nat
        /\ P[j + 1] \in Nat
        /\ \A o \in 1 .. l : s[P[j] + o] = Full(pr[j])[o]
    BY <1>2, <1>3, <1>9, <2>1
  <2>3. Q[j] = P[j] - c /\ Q[j + 1] = P[j + 1] - c
        /\ Q[j] \in 0 .. Len(t) /\ Q[j + 1] \in 0 .. Len(t)
    BY <1>8, <1>10, <2>1
  <2> HIDE DEF l
  <2>4. \A x \in Nat : (x + l) - c = (x - c) + l
    BY <1>7, <2>2
  <2>5. Q[j + 1] = Q[j] + l
    BY <2>2, <2>3, <2>4
  <2>6. ASSUME NEW o \in 1 .. l PROVE t[Q[j] + o] = Full(pr[j])[o]
    <3>1. Q[j] + o \in 1 .. Len(t)
      <4>1. \A x \in 0 .. Len(t) :
              x + l \in 0 .. Len(t) => x + o \in 1 .. Len(t)
        BY <1>1, <2>2
      <4> QED BY <2>3, <2>5, <4>1
    <3>2. c + (Q[j] + o) = P[j] + o
      <4>1. \A x \in Nat : c + ((x - c) + o) = x + o
        BY <1>7
      <4> QED BY <2>2, <2>3, <4>1
    <3> QED BY <1>1, <2>2, <3>1, <3>2
  <2> QED BY <2>5, <2>6 DEF l
<1>15. i + 1 \in 1 .. N + 1
  BY <1>1, <1>5
<1>16. Stream(t, pr, i + 1, Q)
  BY <1>10, <1>11, <1>12, <1>13, <1>14, <1>15 DEF Stream, N
<1> QED BY <1>16

\* The reader has b, of what came before and the first n bytes of w.
Moves(b0, w, n, b, v, s) ==
  /\ b0 \in Seq(Octet) /\ w \in Seq(Octet) /\ n \in 1 .. Len(w)
  /\ b = b0 \o SubSeq(w, 1, n)
  /\ v = SubSeq(w, n + 1, Len(w))
  /\ s = b0 \o w

\* It is the part of the stream s that has arrived, v is what is behind it.
LEMMA Moved ==
  ASSUME NEW b0, NEW w, NEW n, NEW b, NEW v, NEW s, Moves(b0, w, n, b, v, s)
  PROVE  /\ v \in Seq(Octet) /\ b \in Seq(Octet) /\ s \in Seq(Octet)
         /\ PartOf(b, s) /\ Behind(v, s, Len(b))
         /\ b \o v = s
<1> DEFINE u == SubSeq(w, 1, n)
<1>1. Len(w) \in Nat /\ n \in Nat /\ n > 0 /\ n <= Len(w)
      /\ w \in Seq(Octet) /\ b0 \in Seq(Octet)
  BY DEF Moves
<1>2. u \in Seq(Octet) /\ Len(u) = n /\ \A k \in 1 .. n : u[k] = w[k]
  <2>1. /\ u \in Seq(Octet) /\ Len(u) = IF 1 <= n THEN n - 1 + 1 ELSE 0
        /\ \A k \in 1 .. Len(u) : u[k] = w[1 + k - 1]
    BY <1>1, PartIs
  <2>2. Len(u) = n /\ \A k \in 1 .. n : 1 + k - 1 = k
    BY <1>1, <2>1
  <2> QED BY <2>1, <2>2
<1>3. /\ v \in Seq(Octet) /\ Len(v) = Len(w) - n
      /\ \A k \in 1 .. Len(v) : v[k] = w[n + k]
  <2>1. n + 1 \in Nat \ {0} /\ Len(w) \in Int /\ Len(w) <= Len(w)
    BY <1>1
  <2>2. /\ v \in Seq(Octet)
        /\ Len(v) = IF n + 1 <= Len(w) THEN Len(w) - (n + 1) + 1 ELSE 0
        /\ \A k \in 1 .. Len(v) : v[k] = w[(n + 1) + k - 1]
    <3>1. v = SubSeq(w, n + 1, Len(w))
      BY DEF Moves
    <3> QED BY <1>1, <2>1, <3>1, PartIs
  <2>3. Len(v) = Len(w) - n /\ \A k \in 1 .. Len(v) : (n + 1) + k - 1 = n + k
    BY <1>1, <2>2
  <2> QED BY <2>2, <2>3
<1>4. /\ b \in Seq(Octet) /\ Len(b) = Len(b0) + n
      /\ \A k \in 1 .. Len(b0) : b[k] = b0[k]
      /\ \A k \in 1 .. n : b[Len(b0) + k] = u[k]
      /\ Len(b0) \in Nat /\ Len(b) \in Nat
  <2>1. b = b0 \o u /\ u \in Seq(Octet)
    BY <1>2 DEF Moves
  <2> HIDE DEF u
  <2>2. /\ b \in Seq(Octet) /\ Len(b) = Len(b0) + Len(u)
        /\ Len(b0) \in Nat /\ Len(b) \in Nat
        /\ \A k \in 1 .. Len(b0) : b[k] = b0[k]
        /\ \A k \in 1 .. Len(u) : b[Len(b0) + k] = u[k]
    BY <1>1, <2>1, TwoParts
  <2> QED BY <1>2, <2>2
<1>5. /\ s \in Seq(Octet) /\ Len(s) = Len(b0) + Len(w)
      /\ \A k \in 1 .. Len(b0) : s[k] = b0[k]
      /\ \A k \in 1 .. Len(w) : s[Len(b0) + k] = w[k]
      /\ Len(s) \in Nat
  <2>1. s = b0 \o w
    BY DEF Moves
  <2> QED BY <1>1, <2>1, TwoParts
<1> HIDE DEF u
<1>6. ASSUME NEW k \in 1 .. Len(b) PROVE b[k] = s[k]
  <2>1. CASE k <= Len(b0)
    BY <1>4, <1>5, <2>1
  <2>2. CASE ~ k <= Len(b0)
    <3> DEFINE j == k - Len(b0)
    <3>1. j \in 1 .. n /\ j \in 1 .. Len(w) /\ Len(b0) + j = k
      BY <1>1, <1>4, <2>2
    <3> HIDE DEF j
    <3>2. b[Len(b0) + j] = w[j]
      BY <1>2, <1>4, <3>1
    <3>3. s[Len(b0) + j] = w[j]
      BY <1>5, <3>1
    <3> QED BY <3>1, <3>2, <3>3
  <2> QED BY <2>1, <2>2
<1>7. PartOf(b, s)
  <2>1. Len(b) <= Len(s)
    BY <1>1, <1>4, <1>5
  <2> QED BY <1>4, <1>5, <1>6, <2>1 DEF PartOf
<1>8. Len(v) = Len(s) - Len(b)
  BY <1>1, <1>3, <1>4, <1>5
<1>9. ASSUME NEW k \in 1 .. Len(v) PROVE v[k] = s[Len(b) + k]
  <2>1. n + k \in 1 .. Len(w) /\ Len(b0) + (n + k) = Len(b) + k
    BY <1>1, <1>3, <1>4
  <2> QED BY <1>3, <1>5, <2>1
<1>10. b \o v = s
  <2> DEFINE x == b \o v
  <2>1. /\ x \in Seq(Octet) /\ Len(x) = Len(b) + Len(v)
        /\ \A k \in 1 .. Len(b) : x[k] = b[k]
        /\ \A k \in 1 .. Len(v) : x[Len(b) + k] = v[k]
    <3>1. x = b \o v
      OBVIOUS
    <3> HIDE DEF x
    <3>2. b \in Seq(Octet) /\ v \in Seq(Octet)
      BY <1>3, <1>4
    <3> QED BY <3>1, <3>2, TwoParts
  <2> HIDE DEF x
  <2>2. Len(x) = Len(s)
    BY <1>4, <1>5, <1>8, <2>1
  <2>3. ASSUME NEW k \in 1 .. Len(x) PROVE x[k] = s[k]
    <3>1. CASE k <= Len(b)
      <4>1. k \in 1 .. Len(b)
        BY <1>4, <3>1
      <4> QED BY <1>6, <2>1, <4>1
    <3>2. CASE ~ k <= Len(b)
      <4>1. k - Len(b) \in 1 .. Len(v) /\ Len(b) + (k - Len(b)) = k
        BY <1>4, <1>8, <2>1, <3>2
      <4> QED BY <1>9, <2>1, <4>1
    <3> QED BY <3>1, <3>2
  <2>4. x = s
    BY <1>5, <2>1, <2>2, <2>3, SeqEqual
  <2> QED BY <2>4 DEF x
<1> QED BY <1>3, <1>4, <1>5, <1>7, <1>8, <1>9, <1>10 DEF Behind

\* t is what is behind the separator at k.
Cuts(b, v, k, u, t) == u = SubSeq(b, k + 2, Len(b)) /\ t = u \o v

\* It is the stream without what is up to the separator.
LEMMA Stays ==
  ASSUME NEW s \in Seq(Octet), NEW b \in Seq(Octet), PartOf(b, s),
         NEW v \in Seq(Octet), Behind(v, s, Len(b)),
         NEW k \in Nat, k + 1 <= Len(b), NEW u, NEW t, Cuts(b, v, k, u, t)
  PROVE  t \in Seq(Octet) /\ Behind(t, s, k + 1)
<1>1. /\ Len(b) \in Nat /\ Len(s) \in Nat /\ Len(b) <= Len(s)
      /\ \A j \in 1 .. Len(b) : b[j] = s[j]
      /\ Len(v) = Len(s) - Len(b)
      /\ \A j \in 1 .. Len(v) : v[j] = s[Len(b) + j]
  BY DEF PartOf, Behind
<1>2. /\ u \in Seq(Octet) /\ Len(u) = Len(b) - (k + 1)
      /\ \A j \in 1 .. Len(u) : u[j] = b[(k + 1) + j]
  <2>1. k + 2 \in Nat \ {0} /\ Len(b) \in Int /\ Len(b) <= Len(b)
    BY <1>1
  <2>2. /\ u \in Seq(Octet)
        /\ Len(u) = IF k + 2 <= Len(b) THEN Len(b) - (k + 2) + 1 ELSE 0
        /\ \A j \in 1 .. Len(u) : u[j] = b[(k + 2) + j - 1]
    <3>1. u = SubSeq(b, k + 2, Len(b))
      BY DEF Cuts
    <3> QED BY <2>1, <3>1, PartIs
  <2>3. /\ Len(u) = Len(b) - (k + 1)
        /\ \A j \in 1 .. Len(u) : (k + 2) + j - 1 = (k + 1) + j
    BY <1>1, <2>2
  <2> QED BY <2>2, <2>3
<1>3. /\ t \in Seq(Octet) /\ Len(t) = Len(u) + Len(v)
      /\ \A j \in 1 .. Len(u) : t[j] = u[j]
      /\ \A j \in 1 .. Len(v) : t[Len(u) + j] = v[j]
  <2>1. t = u \o v
    BY DEF Cuts
  <2>2. u \in Seq(Octet) /\ v \in Seq(Octet)
    BY <1>2
  <2> QED BY <2>1, <2>2, TwoParts
<1>4. Len(t) = Len(s) - (k + 1)
  BY <1>1, <1>2, <1>3
<1>5. ASSUME NEW j \in 1 .. Len(t) PROVE t[j] = s[(k + 1) + j]
  <2>1. CASE j <= Len(u)
    <3>1. j \in 1 .. Len(u) /\ (k + 1) + j \in 1 .. Len(b)
      BY <1>1, <1>2, <2>1
    <3> QED BY <1>1, <1>2, <1>3, <3>1
  <2>2. CASE ~ j <= Len(u)
    <3>1. /\ j - Len(u) \in 1 .. Len(v) /\ Len(u) + (j - Len(u)) = j
          /\ Len(b) + (j - Len(u)) = (k + 1) + j
      BY <1>1, <1>2, <1>3, <1>4, <2>2
    <3>2. t[j] = v[j - Len(u)]
      BY <1>3, <3>1
    <3>3. v[j - Len(u)] = s[Len(b) + (j - Len(u))]
      BY <1>1, <3>1
    <3> QED BY <3>1, <3>2, <3>3
  <2> QED BY <2>1, <2>2
<1> QED BY <1>3, <1>4, <1>5 DEF Behind

\* The counter is a byte and grows.
LEMMA CounterIs ==
  /\ \A n \in 0 .. 254 : Counter(n) \in Octet
  /\ \A i, j \in Nat : i < j => Counter(i) < Counter(j)
BY DEF Counter, NL, Octet

(***************************************************************************)
(* The invariant and the steps of the specification.                       *)
(***************************************************************************)

\* What the reader can write.
Records ==
  [sn : Octet, counter : Octet, seq : Octet, size : Octet,
   payload : Seq(Octet)]

\* What it looks at and writes are bytes.
LEMMA LatestIsBytes ==
  ASSUME NEW b \in Seq(Octet), Separators(b) # {}
  PROVE  Latest(b, Separators(b)) \in Seq(Octet)
<1> DEFINE D == Separators(b)
           M == Max(D)
           L == {k + 2 : k \in D \ {M}} \cup {1}
<1>1. Len(b) \in Nat /\ D \in SUBSET (1 .. Len(b) - 1)
  BY DEF Separators
<1>2. M \in 1 .. Len(b) - 1
  BY <1>1, RestHasNone
<1> HIDE DEF D, M
<1>3. Len(b) + 1 \in Nat /\ L \in SUBSET (0 .. Len(b) + 1) /\ L # {}
      /\ \A k \in L : k # 0
  BY <1>1, <1>2
<1> HIDE DEF L
<1>4. Max(L) \in L /\ Max(L) \in 0 .. Len(b) + 1
  BY <1>3, MaxIs
<1>5. Max(L) \in Nat \ {0} /\ M - 1 \in Int /\ M - 1 <= Len(b)
  BY <1>1, <1>2, <1>3, <1>4
<1>6. SubSeq(b, Max(L), M - 1) \in Seq(Octet)
  BY <1>5, PartIs
<1> QED BY <1>6 DEF Latest, L, M, D

LEMMA FromStartIsBytes ==
  ASSUME NEW b \in Seq(Octet), HasStart(b)
  PROVE  FromStart(b) \in Seq(Octet)
<1> DEFINE first == CHOOSE k \in StartsAt(b) : \A j \in StartsAt(b) : k <= j
<1>1. StartsAt(b) \in SUBSET Nat /\ StartsAt(b) # {}
      /\ \A k \in StartsAt(b) : k \in Nat \ {0}
  BY DEF StartsAt, HasStart
<1>2. \E k \in StartsAt(b) : \A j \in StartsAt(b) : k <= j
  BY <1>1, Smallest
<1>3. first \in StartsAt(b)
  BY <1>2
<1>4. FromStart(b) = SubSeq(b, first, Len(b))
  BY DEF FromStart
<1> HIDE DEF first
<1>5. first \in Nat \ {0} /\ Len(b) \in Int /\ Len(b) <= Len(b)
  BY <1>1, <1>3
<1> QED BY <1>4, <1>5, PartIs

LEMMA RecordIs ==
  ASSUME NEW line \in Seq(Octet), ~ Len(line) < 6
  PROVE  Record(line) \in Records
<1>1. Len(line) \in Int /\ Len(line) <= Len(line) /\ 7 \in Nat \ {0}
  OBVIOUS
<1>2. SubSeq(line, 7, Len(line)) \in Seq(Octet)
  BY <1>1, PartIs
<1>3. /\ line[3] \in Octet /\ line[4] \in Octet /\ line[5] \in Octet
      /\ line[6] \in Octet
  BY <1>1
<1> QED BY <1>2, <1>3 DEF Record, Records

\* No record has two newlines in a row before its end.
NoneCut(pr) == \A i \in DOMAIN pr : ~ Cut(pr[i])

LEMMA NoneCutIsNeat ==
  ASSUME NEW pr \in Seq(Packets), NoneCut(pr)
  PROVE  NeatAll(pr)
<1>1. DOMAIN pr = 1 .. Len(pr) /\ \A i \in 1 .. Len(pr) : pr[i] \in Packets
  OBVIOUS
<1> QED BY <1>1, FullIsNeat DEF NeatAll, NoneCut

\* The file w is of packets before m of those that are printed, in their order.
Before(w, pr, m) ==
  \A k \in 1 .. Len(w) :
    /\ \E j \in 1 .. m - 1 : w[k] = pr[j]
    /\ k > 1 => w[k - 1].counter < w[k].counter

\* The file w has no record of the packets that are still in the stream s.
InStep(pr, s, w) ==
  NoneCut(pr) => \E m, P : Stream(s, pr, m, P) /\ Before(w, pr, m)

\* The counters of the packets.
Counted(pr) == \A i \in 1 .. Len(pr) : pr[i].counter = Counter(i)

\* It stays so when a packet more is printed
LEMMA PrintKeeps ==
  ASSUME NEW s \in Seq(Octet), NEW pr \in Seq(Packets), NEW r \in Packets,
         NEW w, InStep(pr, s, w)
  PROVE  InStep(Append(pr, r), s \o Full(r), w)
<1> DEFINE new == Append(pr, r)
<1>1. /\ Len(pr) \in Nat /\ Len(new) = Len(pr) + 1
      /\ DOMAIN pr = 1 .. Len(pr) /\ DOMAIN new = 1 .. Len(pr) + 1
      /\ \A i \in 1 .. Len(pr) : new[i] = pr[i]
  OBVIOUS
<1> HIDE DEF new
<1>2. ASSUME NoneCut(new)
      PROVE  \E m, Q : Stream(s \o Full(r), new, m, Q) /\ Before(w, new, m)
  <2>1. \A i \in 1 .. Len(pr) : i \in 1 .. Len(pr) + 1
    BY <1>1
  <2>2. NoneCut(pr)
    BY <1>1, <1>2, <2>1 DEF NoneCut
  <2>3. PICK m, P : Stream(s, pr, m, P) /\ Before(w, pr, m)
    BY <2>2 DEF InStep
  <2>4. \E Q : Stream(s \o Full(r), new, m, Q)
    BY <2>2, <2>3, NoneCutIsNeat, StreamGrows DEF new
  <2>5. m \in 1 .. Len(pr) + 1
    BY <2>3 DEF Stream
  <2>6. \A j \in 1 .. m - 1 : new[j] = pr[j]
    <3>1. \A j \in 1 .. m - 1 : j \in 1 .. Len(pr)
      BY <1>1, <2>5
    <3> QED BY <1>1, <3>1
  <2>7. Before(w, new, m)
    BY <2>3, <2>6 DEF Before
  <2> QED BY <2>4, <2>7
<1> QED BY <1>2 DEF InStep, new

\* What the reader writes is nothing or the packet the piece is of.
Written(w, new, piece) ==
  \/ new = w
  \/ /\ ~ Len(FromStart(piece)) < 6 /\ Complete(FromStart(piece))
     /\ new = Append(w, Record(FromStart(piece)))

\* and when the reader takes a piece.
LEMMA TakeKeeps ==
  ASSUME NEW b0, NEW wi, NEW n, NEW b, NEW v, NEW s, Moves(b0, wi, n, b, v, s),
         NEW pr \in Seq(Packets), Counted(pr), NoneCut(pr),
         NEW w \in Seq(Records), InStep(pr, s, w), Separators(b) # {}
  PROVE  LET piece == Latest(b, Separators(b)) IN
           /\ HasStart(piece)
           /\ \A new : Written(w, new, piece) =>
                InStep(pr, Rest(b, Separators(b)) \o v, new)
<1> DEFINE D == Separators(b)
           piece == Latest(b, D)
           rest == Rest(b, D)
           t == rest \o v
<1>1. /\ v \in Seq(Octet) /\ b \in Seq(Octet) /\ s \in Seq(Octet)
      /\ PartOf(b, s) /\ Behind(v, s, Len(b))
  BY Moved
<1>2. NeatAll(pr)
  BY NoneCutIsNeat
<1>3. PICK m, P : Stream(s, pr, m, P) /\ Before(w, pr, m)
  BY DEF InStep
<1>4. PICK i \in m .. Len(pr) :
        /\ Max(D) = P[i] + EndOf(Full(pr[i]))
        /\ PieceOf(piece, Full(pr[i]))
  BY <1>1, <1>2, <1>3, LatestIs
<1>5. m \in 1 .. Len(pr) + 1 /\ Len(pr) \in Nat
  BY <1>3 DEF Stream
<1>6. i \in 1 .. Len(pr) /\ i \in Nat /\ m - 1 \in Nat /\ m <= i
      /\ pr[i] \in Packets
  BY <1>5
<1>7. ~ Cut(pr[i])
  BY <1>6 DEF NoneCut
<1>8. /\ HasStart(piece)
      /\ ~ Len(FromStart(piece)) < 6 /\ Complete(FromStart(piece))
           => Record(FromStart(piece)) = pr[i]
  BY <1>4, <1>6, <1>7, LineIs
<1>9. \E Q : Stream(t, pr, i + 1, Q)
  <2> DEFINE k == Max(D)
  <2>1. k \in D
    BY <1>1, RestHasNone
  <2>2. k \in Nat /\ k + 1 <= Len(b)
    <3>1. Len(b) \in Nat
      BY <1>1
    <3>2. k \in 1 .. Len(b) - 1
      BY <2>1 DEF Separators
    <3> HIDE DEF k
    <3> QED BY <3>1, <3>2
  <2>3. Cuts(b, v, k, rest, t)
    BY DEF Cuts, Rest
  <2>4. t \in Seq(Octet) /\ Behind(t, s, k + 1)
    <3> HIDE DEF k, t, rest
    <3> QED BY <1>1, <2>2, <2>3, Stays
  <2>5. k + 1 = P[i] + EndOf(Full(pr[i])) + 1
    BY <1>4
  <2> HIDE DEF k, t
  <2> QED BY <1>1, <1>2, <1>3, <2>4, <2>5, StreamGoesOn
<1>10. ASSUME NEW new, Written(w, new, piece)
       PROVE  Before(new, pr, i + 1)
  <2>1. ASSUME NEW k \in 1 .. Len(w) PROVE \E j \in 1 .. i : w[k] = pr[j]
    <3>1. PICK j \in 1 .. m - 1 : w[k] = pr[j]
      BY <1>3 DEF Before
    <3>2. j \in 1 .. i
      BY <1>5, <1>6
    <3> QED BY <3>1, <3>2
  <2>2. \A k \in 1 .. Len(w) : k > 1 => w[k - 1].counter < w[k].counter
    BY <1>3 DEF Before
  <2>3. (i + 1) - 1 = i
    BY <1>6
  <2>4. CASE new = w
    BY <2>1, <2>2, <2>3, <2>4 DEF Before
  <2>5. CASE new = Append(w, pr[i])
    <3>1. /\ Len(w) \in Nat /\ Len(new) = Len(w) + 1
          /\ \A k \in 1 .. Len(w) : new[k] = w[k]
          /\ new[Len(w) + 1] = pr[i]
      BY <2>5
    <3>2. ASSUME NEW k \in 1 .. Len(new)
          PROVE  /\ \E j \in 1 .. i : new[k] = pr[j]
                 /\ k > 1 => new[k - 1].counter < new[k].counter
      <4>1. CASE k \in 1 .. Len(w)
        <5>1. \E j \in 1 .. i : new[k] = pr[j]
          BY <2>1, <3>1, <4>1
        <5>2. k > 1 => k - 1 \in 1 .. Len(w)
          BY <3>1, <4>1
        <5> QED BY <2>2, <3>1, <4>1, <5>1, <5>2
      <4>2. CASE k \notin 1 .. Len(w)
        <5>1. k = Len(w) + 1 /\ k - 1 = Len(w)
          BY <3>1, <4>2
        <5>2. new[k] = pr[i] /\ i \in 1 .. i
          BY <1>6, <3>1, <5>1
        <5>3. ASSUME k > 1 PROVE new[k - 1].counter < new[k].counter
          <6>1. k - 1 \in 1 .. Len(w)
            BY <3>1, <5>1, <5>3
          <6>2. PICK j \in 1 .. m - 1 : w[k - 1] = pr[j]
            BY <1>3, <6>1 DEF Before
          <6>3. j \in 1 .. Len(pr) /\ j < i /\ j \in Nat
            BY <1>5, <1>6
          <6>4. Counter(j) < Counter(i)
            BY <1>6, <6>3, CounterIs
          <6>5. pr[j].counter = Counter(j) /\ pr[i].counter = Counter(i)
            BY <1>6, <6>3 DEF Counted
          <6>6. new[k - 1] = pr[j]
            BY <3>1, <6>1, <6>2
          <6> QED BY <5>2, <6>4, <6>5, <6>6
        <5> QED BY <5>2, <5>3
      <4> QED BY <4>1, <4>2
    <3> QED BY <2>3, <3>2 DEF Before
  <2>6. new = w \/ new = Append(w, pr[i])
    BY <1>8, <1>10 DEF Written
  <2> QED BY <2>4, <2>5, <2>6
<1> HIDE DEF t, piece, D
<1>11. \A new : Written(w, new, piece) => InStep(pr, t, new)
  BY <1>9, <1>10 DEF InStep
<1> QED BY <1>8, <1>11 DEF t, rest, piece, D

\* The type invariant the steps need,
UsbTypes ==
  /\ printed \in Seq(Packets) /\ Len(printed) <= MaxRecords
  /\ Counted(printed)
  /\ wire \in Seq(Octet) /\ buffer_string \in Seq(Octet)
  /\ current_line \in Seq(Octet)
  /\ Separators(buffer_string) = {}
  /\ written \in Seq(Records)
  /\ behind \in BOOLEAN /\ line_is_break \in BOOLEAN /\ running \in BOOLEAN

\* the inductive invariant.
UsbInv ==
  /\ UsbTypes
  /\ InStep(printed, buffer_string \o wire, written)

\* It holds at the start, a packet that is printed and a read keep it.
LEMMA UsbStarts ==
  ASSUME UsbInit
  PROVE  UsbInv
<1>1. /\ printed = << >> /\ wire = << >> /\ behind = FALSE
      /\ buffer_string = << >> /\ current_line = << >>
      /\ line_is_break = FALSE /\ running = TRUE /\ written = << >>
  BY DEF UsbInit
<1>2. /\ printed \in Seq(Packets) /\ wire \in Seq(Octet)
      /\ buffer_string \in Seq(Octet) /\ current_line \in Seq(Octet)
      /\ written \in Seq(Records)
      /\ Len(printed) = 0 /\ Len(written) = 0 /\ Len(buffer_string) = 0
  BY <1>1
<1>3. Len(printed) <= MaxRecords
  BY <1>2, UsbReaderAssumption DEF UsbReaderAssumption
<1>4. Counted(printed)
  BY <1>2 DEF Counted
<1>5. Separators(buffer_string) = {}
  BY <1>2 DEF Separators
<1>6. behind \in BOOLEAN /\ line_is_break \in BOOLEAN /\ running \in BOOLEAN
  BY <1>1
<1>7. UsbTypes
  BY <1>2, <1>3, <1>4, <1>5, <1>6 DEF UsbTypes
<1>8. InStep(printed, buffer_string \o wire, written)
  <2> DEFINE P == [i \in {1} |-> 0]
             s == buffer_string \o wire
  <2>1. Len(s) = 0
    BY <1>1
  <2>2. P[1] = 0 /\ \A i \in 1 .. 0 + 1 : i = 1
    OBVIOUS
  <2> HIDE DEF P, s
  <2>3. Stream(s, printed, 1, P)
    BY <1>2, <2>1, <2>2 DEF Stream
  <2>4. Before(written, printed, 1)
    BY <1>2 DEF Before
  <2> QED BY <2>3, <2>4 DEF InStep, s
<1> QED BY <1>7, <1>8 DEF UsbInv

LEMMA UsbPrints ==
  ASSUME UsbInv,
         NEW sn \in Senders, NEW seq \in Seqs,
         NEW payload \in SeqOf(PayloadBytes, MaxPayload),
         NEW print_MPU \in {0, 1}, app_recv(sn, seq, payload, print_MPU)
  PROVE  UsbInv'
<1> DEFINE n == Len(printed) + 1
<1>1. PICK r : r = [sn |-> sn, counter |-> Counter(n), seq |-> seq,
                    size |-> Len(payload),
                    payload |-> IF print_MPU # 0 THEN payload ELSE << >>]
  OBVIOUS
<1>2. /\ printed \in Seq(Packets) /\ Len(printed) <= MaxRecords
      /\ Len(printed) \in Nat
      /\ Counted(printed)
      /\ wire \in Seq(Octet) /\ buffer_string \in Seq(Octet)
      /\ current_line \in Seq(Octet)
      /\ Separators(buffer_string) = {}
      /\ written \in Seq(Records)
      /\ behind \in BOOLEAN /\ line_is_break \in BOOLEAN
      /\ running \in BOOLEAN
  BY DEF UsbInv, UsbTypes
<1>3. /\ Len(printed) < MaxRecords /\ printed' = Append(printed, r)
      /\ wire' = wire \o Shown(r) \o <<NL, NL>>
      /\ behind' = (behind \/ wire # << >>)
      /\ buffer_string' = buffer_string /\ current_line' = current_line
      /\ line_is_break' = line_is_break /\ running' = running
      /\ written' = written
  BY <1>1 DEF app_recv, reader
<1>4. MaxRecords \in 0 .. 254 /\ MaxPayload \in 0 .. 255
      /\ Senders \subseteq Octet /\ Seqs \subseteq Octet
      /\ PayloadBytes \subseteq Octet
  BY UsbReaderAssumption DEF UsbReaderAssumption, Octet
<1>5. payload \in Seq(Octet) /\ Len(payload) \in Octet
  <2>1. PICK k \in 0 .. MaxPayload : payload \in [1 .. k -> PayloadBytes]
    BY DEF SeqOf
  <2>2. k \in Nat /\ payload \in Seq(PayloadBytes) /\ Len(payload) = k
    BY <1>4, <2>1
  <2>3. payload \in Seq(Octet)
    BY <1>4, <2>2
  <2> QED BY <1>4, <2>2, <2>3 DEF Octet
<1>6. r \in Packets /\ r.counter = Counter(n)
  <2>1. n \in 0 .. 254
    <3>1. /\ Len(printed) \in Nat /\ Len(printed) < MaxRecords
          /\ MaxRecords \in Nat /\ MaxRecords <= 254
      BY <1>2, <1>3, <1>4
    <3>2. \A x, y \in Nat : x < y /\ y <= 254 => x + 1 \in Nat /\ x + 1 <= 254
      OBVIOUS
    <3>3. n \in Nat /\ n <= 254
      BY <3>1, <3>2
    <3> HIDE DEF n
    <3> QED BY <3>3
  <2> HIDE DEF n
  <2>2. Counter(n) \in Octet /\ sn \in Octet /\ seq \in Octet
    BY <1>4, <2>1, CounterIs
  <2>3. /\ r.payload = payload \/ r.payload = << >>
        /\ r.counter = Counter(n) /\ r.size = Len(payload)
    BY <1>1
  <2>4. r.payload \in Seq(Octet)
    <3>1. << >> \in Seq(Octet)
      OBVIOUS
    <3> QED BY <1>5, <2>3, <3>1
  <2>5. r \in [sn : Octet, counter : Octet, seq : Octet, size : Octet,
               payload : Seq(Octet)]
    BY <1>1, <1>5, <2>2, <2>3, <2>4
  <2>6. Len(r.payload) \in Octet /\ (Len(r.payload) = 0 \/ ~ Hidden(r))
    <3>1. Len(<< >>) = 0 /\ 0 \in Octet
      BY DEF Octet
    <3> QED BY <1>5, <2>3, <3>1 DEF Hidden
  <2> QED BY <2>3, <2>5, <2>6 DEF Packets
<1>7. /\ printed' \in Seq(Packets) /\ Len(printed') = n
      /\ \A i \in 1 .. Len(printed) : printed'[i] = printed[i]
      /\ printed'[n] = r
  BY <1>2, <1>3, <1>6, AppendProperties
<1>8. Len(printed') <= MaxRecords
  <2>1. \A x, y \in Nat : x < y => x + 1 <= y
    OBVIOUS
  <2>2. MaxRecords \in Nat
    BY <1>4
  <2>3. Len(printed') = Len(printed) + 1
    BY <1>7
  <2> QED BY <1>2, <1>3, <2>1, <2>2, <2>3
<1>9. Counted(printed')
  <2>1. ASSUME NEW i \in 1 .. Len(printed')
        PROVE  printed'[i].counter = Counter(i)
    <3>1. i = n \/ i \in 1 .. Len(printed)
      BY <1>2, <1>7
    <3> QED BY <1>2, <1>6, <1>7, <3>1 DEF Counted
  <2> QED BY <2>1 DEF Counted
<1>10. wire' = wire \o Full(r) /\ Full(r) \in Seq(Octet)
  <2>1. Shown(r) \in Seq(Octet) /\ Full(r) \in Seq(Octet)
    BY <1>6, FullIs
  <2>2. <<NL, NL>> \in Seq(Octet)
    BY DEF NL, Octet
  <2>3. (wire \o Shown(r)) \o <<NL, NL>> = wire \o (Shown(r) \o <<NL, NL>>)
    <3>1. wire \in Seq(Octet) /\ Shown(r) \in Seq(Octet)
      BY <1>2, <2>1
    <3> QED BY <2>2, <3>1, ThreeParts
  <2> QED BY <1>3, <2>1, <2>3 DEF Full
<1>11. wire' \in Seq(Octet)
  BY <1>2, <1>10, TwoParts
<1>12. behind' \in BOOLEAN
  BY <1>3
<1>13. UsbTypes'
  BY <1>2, <1>3, <1>7, <1>8, <1>9, <1>11, <1>12 DEF UsbTypes
<1>14. buffer_string' \o wire' = (buffer_string \o wire) \o Full(r)
  <2>1. (buffer_string \o wire) \o Full(r) = buffer_string \o (wire \o Full(r))
    <3>1. wire \in Seq(Octet) /\ buffer_string \in Seq(Octet)
          /\ Full(r) \in Seq(Octet)
      BY <1>2, <1>10
    <3> QED BY <3>1, ThreeParts
  <2> QED BY <1>3, <1>10, <2>1
<1>15. InStep(printed', buffer_string' \o wire', written')
  <2>1. buffer_string \o wire \in Seq(Octet)
    BY <1>2, TwoParts
  <2>2. InStep(printed, buffer_string \o wire, written)
    BY DEF UsbInv
  <2>3. InStep(Append(printed, r), (buffer_string \o wire) \o Full(r), written)
    BY <1>2, <1>6, <2>1, <2>2, PrintKeeps
  <2> QED BY <1>3, <1>14, <2>3
<1> QED BY <1>13, <1>15 DEF UsbInv

LEMMA UsbReads ==
  ASSUME UsbInv, NEW n \in 1 .. Len(wire), readUSB(n)
  PROVE  UsbInv'
<1>1. /\ printed \in Seq(Packets) /\ Len(printed) <= MaxRecords
      /\ Counted(printed)
      /\ wire \in Seq(Octet) /\ buffer_string \in Seq(Octet)
      /\ current_line \in Seq(Octet)
      /\ Separators(buffer_string) = {}
      /\ written \in Seq(Records)
      /\ behind \in BOOLEAN /\ line_is_break \in BOOLEAN
      /\ running \in BOOLEAN
  BY DEF UsbInv, UsbTypes
<1>2. PICK b : b = buffer_string \o SubSeq(wire, 1, n)
  OBVIOUS
<1>3. PICK v : v = SubSeq(wire, n + 1, Len(wire))
  OBVIOUS
<1>4. PICK s : s = buffer_string \o wire
  OBVIOUS
<1>5. PICK b0, wi : b0 = buffer_string /\ wi = wire
  OBVIOUS
<1>6. Moves(b0, wi, n, b, v, s)
  BY <1>1, <1>2, <1>3, <1>4, <1>5 DEF Moves
<1>7. v \in Seq(Octet) /\ b \in Seq(Octet) /\ s \in Seq(Octet) /\ b \o v = s
  BY <1>6, Moved
<1>8. /\ printed' = printed /\ behind' = behind /\ wire' = v
      /\ Takes(b, Separators(b))
  BY <1>2, <1>3 DEF readUSB
<1>9. InStep(printed, s, written)
  BY <1>4 DEF UsbInv
<1>10. CASE Separators(b) = {}
  <2>1. /\ buffer_string' = b /\ current_line' = current_line
        /\ line_is_break' = line_is_break /\ running' = running
        /\ written' = written
    BY <1>8, <1>10 DEF Takes
  <2>2. UsbTypes'
    BY <1>1, <1>7, <1>8, <1>10, <2>1 DEF UsbTypes
  <2>3. buffer_string' \o wire' = s
    BY <1>7, <1>8, <2>1
  <2>4. InStep(printed', buffer_string' \o wire', written')
    BY <1>8, <1>9, <2>1, <2>3
  <2> QED BY <2>2, <2>4 DEF UsbInv
<1>11. CASE Separators(b) # {}
  <2>1. PICK piece : piece = Latest(b, Separators(b))
    OBVIOUS
  <2>2. PICK line : line = Joined(piece)
    OBVIOUS
  <2>3. PICK rest : rest = Rest(b, Separators(b))
    OBVIOUS
  <2>4. buffer_string' = rest /\ Look(piece, line)
    BY <1>8, <1>11, <2>1, <2>2, <2>3 DEF Takes
  <2>5. rest \in Seq(Octet) /\ Separators(rest) = {}
    BY <1>7, <1>11, <2>3, RestHasNone
  <2>6. piece \in Seq(Octet)
    BY <1>7, <1>11, <2>1, LatestIsBytes
  <2>7. line \in Seq(Octet)
    <3>1. CASE HasStart(piece)
      BY <2>2, <2>6, <3>1, FromStartIsBytes DEF Joined
    <3>2. CASE ~ HasStart(piece)
      <4>1. line = current_line \o piece
        BY <2>2, <3>2 DEF Joined
      <4> QED BY <1>1, <2>6, <4>1, TwoParts
    <3> QED BY <3>1, <3>2
  <2>8. /\ current_line' \in Seq(Octet) /\ line_is_break' \in BOOLEAN
        /\ running' \in BOOLEAN
        /\ \/ written' = written
           \/ /\ ~ Len(line) < 6 /\ Complete(line)
              /\ written' = Append(written, Record(line))
    <3>1. CASE ~ HasStart(piece) /\ ~ line_is_break
      BY <1>1, <2>4, <3>1 DEF Look
    <3>2. CASE ~ (~ HasStart(piece) /\ ~ line_is_break) /\ Len(line) < 6
      <4>1. /\ current_line' = line /\ running' = ~ line_is_break
            /\ line_is_break' = line_is_break /\ written' = written
        BY <2>4, <3>2 DEF Look
      <4>2. running' \in BOOLEAN
        BY <4>1
      <4> QED BY <1>1, <2>7, <4>1, <4>2
    <3>3. CASE /\ ~ (~ HasStart(piece) /\ ~ line_is_break)
               /\ ~ Len(line) < 6 /\ ~ Complete(line)
      <4>1. /\ current_line' = line /\ running' = running
            /\ line_is_break' = TRUE /\ written' = written
        BY <2>4, <3>3 DEF Look
      <4> QED BY <1>1, <2>7, <4>1
    <3>4. CASE /\ ~ (~ HasStart(piece) /\ ~ line_is_break)
               /\ ~ Len(line) < 6 /\ Complete(line)
      <4>1. /\ current_line' = << >> /\ running' = running
            /\ line_is_break' = FALSE
            /\ written' = Append(written, Record(line))
        BY <2>4, <3>4 DEF Look
      <4>2. << >> \in Seq(Octet) /\ FALSE \in BOOLEAN
        OBVIOUS
      <4>3. current_line' \in Seq(Octet) /\ line_is_break' \in BOOLEAN
            /\ running' \in BOOLEAN
        BY <1>1, <4>1, <4>2
      <4> QED BY <3>4, <4>1, <4>3
    <3> QED BY <3>1, <3>2, <3>3, <3>4
  <2>9. written' \in Seq(Records)
    <3>1. CASE written' = written
      BY <1>1, <3>1
    <3>2. CASE ~ Len(line) < 6 /\ written' = Append(written, Record(line))
      <4>1. Record(line) \in Records
        BY <2>7, <3>2, RecordIs
      <4> QED BY <1>1, <3>2, <4>1, AppendProperties
    <3> QED BY <2>8, <3>1, <3>2
  <2>10. UsbTypes'
    BY <1>1, <1>7, <1>8, <2>4, <2>5, <2>8, <2>9 DEF UsbTypes
  <2>11. InStep(printed', buffer_string' \o wire', written')
    <3>1. ASSUME NoneCut(printed) PROVE InStep(printed, rest \o v, written')
      <4>1. PICK pr, w : pr = printed /\ w = written
        OBVIOUS
      <4>2. /\ pr \in Seq(Packets) /\ Counted(pr) /\ NoneCut(pr)
            /\ w \in Seq(Records) /\ InStep(pr, s, w)
        BY <1>1, <1>9, <3>1, <4>1
      <4>3. /\ HasStart(piece)
            /\ \A new : Written(w, new, piece) => InStep(pr, rest \o v, new)
        BY <1>6, <1>11, <2>1, <2>3, <4>2, TakeKeeps
      <4>4. line = FromStart(piece)
        BY <2>2, <4>3 DEF Joined
      <4>5. Written(w, written', piece)
        BY <2>8, <4>1, <4>4 DEF Written
      <4> QED BY <4>1, <4>3, <4>5
    <3>2. InStep(printed, rest \o v, written')
      BY <3>1 DEF InStep
    <3> QED BY <1>8, <2>4, <3>2
  <2> QED BY <2>10, <2>11 DEF UsbInv
<1> QED BY <1>10, <1>11

\* It is enough for the property.
LEMMA UsbInvGives ==
  ASSUME UsbInv
  PROVE  WrittenWereSent
<1>1. /\ printed \in Seq(Packets) /\ Len(printed) <= MaxRecords
      /\ wire \in Seq(0 .. 255) /\ current_line \in Seq(0 .. 255)
      /\ Separators(buffer_string) = {}
      /\ written \in Seq(Records)
      /\ behind \in BOOLEAN /\ line_is_break \in BOOLEAN
      /\ running \in BOOLEAN
  BY DEF UsbInv, UsbTypes, Octet
<1>2. UsbTypeOK
  BY <1>1 DEF UsbTypeOK
<1>3. ASSUME \A i \in DOMAIN printed : ~ Cut(printed[i]),
             NEW k \in DOMAIN written
      PROVE  /\ written[k] \in ToSet(printed)
             /\ k > 1 => written[k - 1].counter < written[k].counter
  <2>1. NoneCut(printed)
    BY <1>3 DEF NoneCut
  <2>2. PICK m, P : /\ Stream(buffer_string \o wire, printed, m, P)
                    /\ Before(written, printed, m)
    BY <2>1 DEF UsbInv, InStep
  <2>3. m \in 1 .. Len(printed) + 1 /\ Len(printed) \in Nat
    BY <1>1, <2>2 DEF Stream
  <2>4. k \in 1 .. Len(written) /\ DOMAIN printed = 1 .. Len(printed)
    BY <1>1
  <2>5. /\ \E j \in 1 .. m - 1 : written[k] = printed[j]
        /\ k > 1 => written[k - 1].counter < written[k].counter
    BY <2>2, <2>4 DEF Before
  <2>6. PICK j \in 1 .. m - 1 : written[k] = printed[j]
    BY <2>5
  <2>7. j \in DOMAIN printed
    BY <2>3, <2>4
  <2>8. written[k] \in ToSet(printed)
    BY <2>6, <2>7 DEF ToSet
  <2> QED BY <2>5, <2>8
<1> QED BY <1>2, <1>3 DEF WrittenWereSent

(***************************************************************************)
(* What the reader writes to the file was sent by the base station, each   *)
(* record once and in the order of the counter, whatever bytes the packets *)
(* hold and however the stream is cut up on its way, as long as no record  *)
(* has two newlines in a row before its end (MPU6050_example.c:76-106,     *)
(* readUSB_MPU6050_BS.py:87-157).                                          *)
(***************************************************************************)
THEOREM FileIsOfSent == UsbSpec => []WrittenWereSent
<1>1. UsbInit => UsbInv
  BY UsbStarts
<1>2. UsbInv /\ [UsbNext]_usbVars => UsbInv'
  <2> SUFFICES ASSUME UsbInv, [UsbNext]_usbVars PROVE UsbInv'
    OBVIOUS
  <2>1. ASSUME NEW sn \in Senders, NEW seq \in Seqs,
               NEW payload \in SeqOf(PayloadBytes, MaxPayload),
               NEW print_MPU \in {0, 1}, app_recv(sn, seq, payload, print_MPU)
        PROVE  UsbInv'
    BY <2>1, UsbPrints
  <2>2. ASSUME NEW n \in 1 .. Len(wire), readUSB(n) PROVE UsbInv'
    BY <2>2, UsbReads
  <2>3. CASE UNCHANGED usbVars
    BY <2>3 DEF usbVars, reader, UsbInv, UsbTypes
  <2> QED BY <2>1, <2>2, <2>3 DEF UsbNext
<1>3. UsbInv => WrittenWereSent
  BY UsbInvGives
<1> QED BY <1>1, <1>2, <1>3, PTL DEF UsbSpec

=============================================================================
