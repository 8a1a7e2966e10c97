---------------------------- MODULE Cc2420_proofs ----------------------------
(***************************************************************************)
(* The lock of the CC2420 driver, its radio and its frames, for any number *)
(* of frames, room in the FIFO and slots that meet something.              *)
(*                                                                         *)
(* What a context still has to execute is a walk through the points of the *)
(* lock (Path): a statement leads from one point to the next, and a call   *)
(* puts a walk between the same two points in front.  So the point where a *)
(* context stands tells whether it holds the lock, and which of the        *)
(* requests that the other one has left behind it is still going to see.   *)
(*                                                                         *)
(* A way (Way) is such a walk that also says which stage of its function   *)
(* a context has come to: what the radio and the buffers are like depends  *)
(* on the stages of both contexts (Standing).                              *)
(***************************************************************************)
EXTENDS Cc2420, SequenceTheorems, FiniteSetTheorems, WellFoundedInduction,
        TLAPS

USE Cc2420Assumption

Contexts == {"main", "isr"}

(***************************************************************************)
(* "free": without the lock; "held": in front of RELEASE_LOCK; "on?" and   *)
(* "off?": in front of the test of a flag; "on" and "off": in the request  *)
(* that the flag asks for; "rest": about to give the lock back.            *)
(***************************************************************************)
Points == {"free", "held", "on?", "on", "off?", "off", "rest"}

Calls ==
  {"cc2420_on", "on_locked?", "cc2420_off", "off_locked?", "read", "input",
   "clear", "copy"}

Inner ==
  {"enable", "select", "SRXON", "receive_on", "receive_off", "SRFOFF",
   "disable", "flush", "write", "body", "again"}

\* In front of a return, whichever it is.
Parting == {"transmit", "length"}

Locking ==
  {"lock", "release", "lock_on?", "lock_off?", "lock_on=0", "lock_off=0",
   "unlock"}

Words == Calls \cup Inner \cup Parting \cup Locking

Step(x, a, b) ==
  \/ x \in Calls /\ a = "free" /\ b = "free"
  \/ x \in Inner /\ a \in {"held", "on", "off"} /\ b = a
  \/ x \in Parting /\ a = "held" /\ b = "free"
  \/ x = "lock" /\ a = "free" /\ b = "held"
  \/ x = "release" /\ a = "held" /\ b = "rest"
  \/ x = "lock_on?" /\ a = "on?" /\ b = "off?"
  \/ x = "lock_on=0" /\ a = "on" /\ b = "off?"
  \/ x = "lock_off?" /\ a = "off?" /\ b = "rest"
  \/ x = "lock_off=0" /\ a = "off" /\ b = "rest"
  \/ x = "unlock" /\ a = "rest" /\ b = "free"

Walk(s, h) == \A i \in 1 .. Len(s) : Step(s[i], h[i], h[i + 1])

Path(s, a, b) ==
  /\ s \in Seq(Words)
  /\ \E h \in [1 .. Len(s) + 1 -> Points] :
       h[1] = a /\ h[Len(s) + 1] = b /\ Walk(s, h)

-----------------------------------------------------------------------------
(* Walks, through any places S: a statement x leads from a to b if         *)
(* <<x, a, b>> is one of the steps T.                                      *)

Chain(T, S, s, a, b) ==
  /\ s \in Seq(Words)
  /\ \E h \in [1 .. Len(s) + 1 -> S] :
       /\ h[1] = a /\ h[Len(s) + 1] = b
       /\ \A i \in 1 .. Len(s) : <<s[i], h[i], h[i + 1]>> \in T

LEMMA ChainNothing ==
  ASSUME NEW T, NEW S, NEW a \in S
  PROVE  /\ Chain(T, S, << >>, a, a)
         /\ \A b : Chain(T, S, << >>, a, b) => a = b
<1>1. Chain(T, S, << >>, a, a)
  <2> DEFINE h == [i \in 1 .. 1 |-> a]
  <2>1. /\ << >> \in Seq(Words) /\ Len(<< >>) = 0
        /\ h \in [1 .. Len(<< >>) + 1 -> S] /\ h[1] = a
    OBVIOUS
  <2> HIDE DEF h
  <2> QED BY <2>1 DEF Chain
<1>2. \A b : Chain(T, S, << >>, a, b) => a = b
  BY DEF Chain
<1> QED BY <1>1, <1>2

LEMMA ChainOne ==
  ASSUME NEW T, NEW S, NEW x \in Words, NEW a \in S, NEW b \in S,
         <<x, a, b>> \in T
  PROVE  Chain(T, S, <<x>>, a, b)
<1> DEFINE h == [i \in 1 .. 2 |-> IF i = 1 THEN a ELSE b]
<1>1. /\ <<x>> \in Seq(Words) /\ Len(<<x>>) = 1 /\ <<x>>[1] = x
      /\ h \in [1 .. Len(<<x>>) + 1 -> S] /\ h[1] = a /\ h[2] = b
  OBVIOUS
<1> HIDE DEF h
<1> QED BY <1>1 DEF Chain

LEMMA ChainHead ==
  ASSUME NEW T, NEW S, NEW s, NEW a, NEW b, Chain(T, S, s, a, b), s # << >>
  PROVE  /\ a \in S /\ Head(s) = s[1] /\ Head(s) \in Words
         /\ \E m \in S : <<Head(s), a, m>> \in T /\ Chain(T, S, Tail(s), m, b)
<1>1. PICK h \in [1 .. Len(s) + 1 -> S] :
        /\ h[1] = a /\ h[Len(s) + 1] = b
        /\ \A i \in 1 .. Len(s) : <<s[i], h[i], h[i + 1]>> \in T
  BY DEF Chain
<1>2. /\ s \in Seq(Words) /\ Len(s) \in Nat \ {0} /\ Head(s) = s[1]
      /\ Head(s) \in Words
      /\ Tail(s) \in Seq(Words) /\ Len(Tail(s)) = Len(s) - 1
      /\ \A i \in 1 .. Len(Tail(s)) : Tail(s)[i] = s[i + 1]
  <2>1. s \in Seq(Words)
    BY DEF Chain
  <2> QED BY <2>1, HeadTailProperties, EmptySeq
<1> DEFINE g == [i \in 1 .. Len(s) |-> h[i + 1]]
<1>3. g \in [1 .. Len(Tail(s)) + 1 -> S]
  BY <1>2
<1>4. g[1] = h[2] /\ g[Len(s)] = b
  BY <1>1, <1>2
<1>5. ASSUME NEW i \in 1 .. Len(s) - 1
      PROVE  <<Tail(s)[i], g[i], g[i + 1]>> \in T
  <2>1. i + 1 \in 1 .. Len(s) /\ (i + 1) + 1 = i + 2
    BY <1>2
  <2>2. <<s[i + 1], h[i + 1], h[(i + 1) + 1]>> \in T
    BY <1>1, <2>1
  <2>3. Tail(s)[i] = s[i + 1] /\ g[i] = h[i + 1] /\ g[i + 1] = h[(i + 1) + 1]
    BY <1>2
  <2> QED BY <2>2, <2>3
<1> HIDE DEF g
<1>6. Chain(T, S, Tail(s), h[2], b)
  BY <1>2, <1>3, <1>4, <1>5 DEF Chain
<1>7. <<Head(s), a, h[2]>> \in T /\ h[2] \in S /\ a \in S
  BY <1>1, <1>2
<1> QED BY <1>2, <1>6, <1>7

LEMMA ChainJoin ==
  ASSUME NEW T, NEW S, NEW s, NEW t, NEW a, NEW m, NEW b,
         Chain(T, S, s, a, m), Chain(T, S, t, m, b)
  PROVE  Chain(T, S, s \o t, a, b)
<1>1. PICK h \in [1 .. Len(s) + 1 -> S] :
        /\ h[1] = a /\ h[Len(s) + 1] = m
        /\ \A i \in 1 .. Len(s) : <<s[i], h[i], h[i + 1]>> \in T
  BY DEF Chain
<1>2. PICK k \in [1 .. Len(t) + 1 -> S] :
        /\ k[1] = m /\ k[Len(t) + 1] = b
        /\ \A i \in 1 .. Len(t) : <<t[i], k[i], k[i + 1]>> \in T
  BY DEF Chain
<1> DEFINE l == s \o t
<1>3. /\ s \in Seq(Words) /\ t \in Seq(Words)
      /\ Len(s) \in Nat /\ Len(t) \in Nat
  BY DEF Chain
<1>4. /\ l \in Seq(Words) /\ Len(l) = Len(s) + Len(t)
      /\ \A i \in 1 .. Len(s) : l[i] = s[i]
      /\ \A i \in 1 .. Len(t) : l[i + Len(s)] = t[i]
  BY <1>3, ConcatProperties
<1> HIDE DEF l
<1> DEFINE g == [i \in 1 .. Len(l) + 1 |->
                   IF i <= Len(s) THEN h[i] ELSE k[i - Len(s)]]
<1>5. g \in [1 .. Len(l) + 1 -> S]
  BY <1>3, <1>4
<1>6. g[1] = a /\ g[Len(l) + 1] = b
  BY <1>1, <1>2, <1>3, <1>4
<1>7. ASSUME NEW i \in 1 .. Len(l)
      PROVE  <<l[i], g[i], g[i + 1]>> \in T
  <2>1. CASE i <= Len(s)
    <3>1. i \in 1 .. Len(s) /\ l[i] = s[i] /\ g[i] = h[i]
      BY <1>3, <1>4, <2>1
    <3>2. g[i + 1] = h[i + 1]
      BY <1>1, <1>2, <1>3, <1>4, <2>1
    <3> QED BY <1>1, <3>1, <3>2
  <2>2. CASE i > Len(s)
    <3> DEFINE j == i - Len(s)
    <3>1. j \in 1 .. Len(t) /\ i = j + Len(s)
      BY <1>3, <1>4, <2>2
    <3>2. l[i] = t[j]
      BY <1>4, <3>1
    <3>3. g[i] = k[j] /\ g[i + 1] = k[j + 1]
      <4>1. /\ i \in 1 .. Len(l) + 1 /\ i + 1 \in 1 .. Len(l) + 1
            /\ ~ i <= Len(s) /\ ~ i + 1 <= Len(s)
            /\ (i + 1) - Len(s) = j + 1
        BY <1>3, <1>4, <2>2
      <4>2. g[i] = k[i - Len(s)] /\ g[i + 1] = k[(i + 1) - Len(s)]
        BY <4>1
      <4> QED BY <4>1, <4>2
    <3>4. <<t[j], k[j], k[j + 1]>> \in T
      BY <1>2, <3>1
    <3> QED BY <3>2, <3>3, <3>4
  <2> QED BY <1>3, <1>4, <2>1, <2>2
<1> HIDE DEF g
<1>9. Chain(T, S, l, a, b)
  BY <1>4, <1>5, <1>6, <1>7 DEF Chain
<1> QED BY <1>9 DEF l

(* Walks through the points of the lock.                                   *)

Steps == {r \in Words \X Points \X Points : Step(r[1], r[2], r[3])}

LEMMA StepsAre ==
  \A x \in Words : \A a, b \in Points : <<x, a, b>> \in Steps <=> Step(x, a, b)
  BY DEF Steps

LEMMA PathIs ==
  ASSUME NEW s, NEW a, NEW b
  PROVE  Path(s, a, b) <=> Chain(Steps, Points, s, a, b)
<1>1. ASSUME s \in Seq(Words), NEW h \in [1 .. Len(s) + 1 -> Points]
      PROVE  Walk(s, h) <=>
               \A i \in 1 .. Len(s) : <<s[i], h[i], h[i + 1]>> \in Steps
  <2>1. Len(s) \in Nat
    BY <1>1
  <2>2. \A i \in 1 .. Len(s) :
          s[i] \in Words /\ h[i] \in Points /\ h[i + 1] \in Points
    BY <1>1, <2>1
  <2>3. \A i \in 1 .. Len(s) :
          <<s[i], h[i], h[i + 1]>> \in Steps <=> Step(s[i], h[i], h[i + 1])
    BY <2>2, StepsAre
  <2> QED BY <2>3 DEF Walk
<1> QED BY <1>1 DEF Path, Chain

LEMMA PathNothing ==
  ASSUME NEW a \in Points
  PROVE  /\ Path(<< >>, a, a)
         /\ \A b : Path(<< >>, a, b) => a = b
  BY ChainNothing, PathIs

LEMMA PathOne ==
  ASSUME NEW x \in Words, NEW a \in Points, NEW b \in Points, Step(x, a, b)
  PROVE  Path(<<x>>, a, b)
<1>1. <<x, a, b>> \in Steps
  BY StepsAre
<1> QED BY <1>1, ChainOne, PathIs

LEMMA PathHead ==
  ASSUME NEW s, NEW a, NEW b, Path(s, a, b), s # << >>
  PROVE  /\ a \in Points /\ Head(s) = s[1] /\ Head(s) \in Words
         /\ \E m \in Points : Step(Head(s), a, m) /\ Path(Tail(s), m, b)
<1>1. Chain(Steps, Points, s, a, b)
  BY PathIs
<1>2. a \in Points /\ Head(s) = s[1] /\ Head(s) \in Words
  BY <1>1, ChainHead
<1>3. PICK m \in Points :
        <<Head(s), a, m>> \in Steps /\ Chain(Steps, Points, Tail(s), m, b)
  BY <1>1, ChainHead
<1>4. Step(Head(s), a, m) /\ Path(Tail(s), m, b)
  BY <1>2, <1>3, StepsAre, PathIs
<1> QED BY <1>2, <1>4

LEMMA PathJoin ==
  ASSUME NEW s, NEW t, NEW a, NEW m, NEW b, Path(s, a, m), Path(t, m, b)
  PROVE  Path(s \o t, a, b)
  BY ChainJoin, PathIs

\* Statements that have nothing to do with the lock.
LEMMA PathInner ==
  ASSUME NEW s \in Seq(Inner), NEW a \in {"held", "on", "off"}
  PROVE  Path(s, a, a)
<1> DEFINE h == [i \in 1 .. Len(s) + 1 |-> a]
<1>1. s \in Seq(Words)
  BY DEF Words, Parting
<1>2. /\ Len(s) \in Nat
      /\ h \in [1 .. Len(s) + 1 -> Points]
      /\ h[1] = a /\ h[Len(s) + 1] = a
      /\ \A i \in 1 .. Len(s) : h[i] = a /\ h[i + 1] = a /\ s[i] \in Inner
  BY DEF Points
<1> HIDE DEF h
<1>3. Walk(s, h)
  BY <1>2 DEF Walk, Step
<1> QED BY <1>1, <1>2, <1>3 DEF Path

LEMMA Least ==
  ASSUME NEW L \in SUBSET Nat, L # {}
  PROVE  \E m \in L : \A k \in L : ~ k < m
<1>1. \E m \in L : \A k \in L : <<k, m>> \notin OpToRel(<, Nat)
  BY WFMin, NatLessThanWellFounded
<1>2. \A j, k \in Nat : <<j, k>> \in OpToRel(<, Nat) <=> j < k
  BY DEF OpToRel
<1> QED BY <1>1, <1>2

\* A walk that leaves a point does so somewhere.
LEMMA PathLeaves ==
  ASSUME NEW s, NEW a, NEW b, Path(s, a, b), a # b
  PROVE  \E i \in DOMAIN s : \E h \in [1 .. Len(s) + 1 -> Points] :
           /\ \A j \in 1 .. i : h[j] = a
           /\ h[i + 1] # a /\ Walk(s, h)
<1>1. PICK h \in [1 .. Len(s) + 1 -> Points] :
        h[1] = a /\ h[Len(s) + 1] = b /\ Walk(s, h)
  BY DEF Path
<1>2. Len(s) \in Nat /\ DOMAIN s = 1 .. Len(s)
  BY DEF Path
<1> DEFINE L == {i \in 1 .. Len(s) + 1 : h[i] # a}
<1>3. L \subseteq Nat /\ L # {}
  BY <1>1, <1>2
<1>4. PICK m \in L : \A k \in L : ~ k < m
  BY <1>3, Least
<1>5. /\ m - 1 \in DOMAIN s /\ (m - 1) + 1 = m /\ h[m] # a
      /\ \A j \in 1 .. m - 1 : h[j] = a
  BY <1>1, <1>2, <1>4
<1> QED BY <1>1, <1>5

Giving == {"unlock", "length", "transmit"}

\* A context that has to give the lock back before it takes it holds it.
LEMMA PathHolds ==
  ASSUME NEW s, NEW a, Path(s, a, "free")
  PROVE  a # "free" <=>
           \E i \in DOMAIN s :
             s[i] \in Giving /\ \A j \in 1 .. i : s[j] # "lock"
<1>1. PICK h \in [1 .. Len(s) + 1 -> Points] :
        h[1] = a /\ h[Len(s) + 1] = "free" /\ Walk(s, h)
  BY DEF Path
<1>2. Len(s) \in Nat /\ DOMAIN s = 1 .. Len(s)
  BY DEF Path
<1>3. \A i \in 1 .. Len(s) :
        /\ s[i] = "lock" => h[i] = "free"
        /\ s[i] \in Giving => h[i] # "free"
        /\ h[i] = "free" /\ h[i + 1] # "free" => s[i] = "lock"
        /\ h[i] # "free" /\ h[i + 1] = "free" => s[i] \in Giving
  <2> SUFFICES ASSUME NEW i \in 1 .. Len(s)
               PROVE  /\ s[i] = "lock" => h[i] = "free"
                      /\ s[i] \in Giving => h[i] # "free"
                      /\ h[i] = "free" /\ h[i + 1] # "free" => s[i] = "lock"
                      /\ h[i] # "free" /\ h[i + 1] = "free"
                           => s[i] \in Giving
    OBVIOUS
  <2>1. Step(s[i], h[i], h[i + 1])
    BY <1>1 DEF Walk
  <2> QED BY <2>1 DEF Step, Calls, Inner, Parting, Giving
<1>4. ASSUME a # "free"
      PROVE  \E i \in DOMAIN s :
               s[i] \in Giving /\ \A j \in 1 .. i : s[j] # "lock"
  <2> DEFINE L == {i \in 1 .. Len(s) + 1 : h[i] = "free"}
  <2>1. L \in SUBSET Nat /\ L # {}
    BY <1>1, <1>2
  <2>2. PICK m \in L : \A k \in L : ~ k < m
    BY <2>1, Least
  <2>3. /\ m - 1 \in 1 .. Len(s) /\ h[m - 1] # "free"
        /\ h[(m - 1) + 1] = "free"
        /\ \A j \in 1 .. m - 1 : h[j] # "free"
    BY <1>1, <1>2, <1>4, <2>2
  <2> HIDE DEF L
  <2>4. \A j \in 1 .. m - 1 : j \in 1 .. Len(s)
    BY <1>2, <2>3
  <2>5. s[m - 1] \in Giving /\ \A j \in 1 .. m - 1 : s[j] # "lock"
    BY <1>3, <2>3, <2>4
  <2> QED BY <1>2, <2>3, <2>5
<1>5. ASSUME NEW i \in DOMAIN s, s[i] \in Giving,
             \A j \in 1 .. i : s[j] # "lock", a = "free"
      PROVE  FALSE
  <2> DEFINE L == {j \in 1 .. i : h[j] # "free"}
  <2>1. L \in SUBSET Nat /\ i \in L
    BY <1>2, <1>3, <1>5
  <2>2. PICK m \in L : \A k \in L : ~ k < m
    BY <2>1, Least
  <2>3. /\ m - 1 \in 1 .. Len(s) /\ m - 1 \in 1 .. i
        /\ h[m - 1] = "free" /\ h[(m - 1) + 1] # "free"
    BY <1>1, <1>2, <1>5, <2>2
  <2> HIDE DEF L
  <2>4. s[m - 1] = "lock"
    BY <1>3, <2>3
  <2> QED BY <1>5, <2>3, <2>4
<1> QED BY <1>4, <1>5

-----------------------------------------------------------------------------
(* The bodies of the driver's functions as walks.                          *)

LEMMA Joined ==
  ASSUME NEW a, NEW b, NEW c
  PROVE  /\ <<a>> \o <<b>> = <<a, b>>
         /\ <<a>> \o <<b, c>> = <<a, b, c>>
         /\ <<a, b>> \o <<c>> = <<a, b, c>>
         /\ (<<a>> \o <<b>>) \o <<c>> = <<a, b, c>>
<1> DEFINE S == {a, b, c}
           k == <<a>> \o <<b>>
           l == <<a>> \o <<b, c>>
           m == <<a, b>> \o <<c>>
<1>1. /\ <<a>> \in Seq(S) /\ <<b>> \in Seq(S) /\ <<c>> \in Seq(S)
      /\ <<a, b>> \in Seq(S) /\ <<b, c>> \in Seq(S) /\ <<a, b, c>> \in Seq(S)
      /\ Len(<<a>>) = 1 /\ Len(<<b>>) = 1 /\ Len(<<c>>) = 1
      /\ Len(<<a, b>>) = 2 /\ Len(<<b, c>>) = 2 /\ Len(<<a, b, c>>) = 3
  OBVIOUS
<1>2. k \in Seq(S) /\ Len(k) = 2 /\ k[1] = a /\ k[2] = b
  BY <1>1, ConcatProperties
<1>3. l \in Seq(S) /\ Len(l) = 3 /\ l[1] = a /\ l[2] = b /\ l[3] = c
  BY <1>1, ConcatProperties
<1>4. m \in Seq(S) /\ Len(m) = 3 /\ m[1] = a /\ m[2] = b /\ m[3] = c
  BY <1>1, ConcatProperties
<1> HIDE DEF k, l, m
<1>5. /\ \A i \in 1 .. 2 : k[i] = <<a, b>>[i]
      /\ \A i \in 1 .. 3 : l[i] = <<a, b, c>>[i] /\ m[i] = <<a, b, c>>[i]
  BY <1>2, <1>3, <1>4
<1>6. k = <<a, b>>
  BY <1>1, <1>2, <1>5, SeqEqual
<1>7. l = <<a, b, c>>
  BY <1>1, <1>3, <1>5, SeqEqual
<1>8. m = <<a, b, c>>
  BY <1>1, <1>4, <1>5, SeqEqual
<1>9. /\ <<a>> \o <<b>> = <<a, b>> /\ <<a>> \o <<b, c>> = <<a, b, c>>
      /\ <<a, b>> \o <<c>> = <<a, b, c>>
  BY <1>6, <1>7, <1>8 DEF k, l, m
<1>10. (<<a>> \o <<b>>) \o <<c>> = <<a, b, c>>
  BY <1>9, Zenon
<1> QED BY <1>9, <1>10, Zenon

LEMMA OnPath ==
  ASSUME NEW a \in {"held", "on", "off"}
  PROVE  Path(On, a, a) /\ Path(Off, a, a)
<1>1. On \in Seq(Inner) /\ Off \in Seq(Inner)
  BY DEF On, Off, Inner
<1> QED BY <1>1, PathInner

LEMMA ReleasePath ==
  /\ Path(Release, "held", "free") /\ Path(Deferred, "on?", "rest")
<1>1. /\ Path(<<"release">>, "held", "rest")
      /\ Path(<<"unlock">>, "rest", "free")
      /\ Path(<<"lock_on?">>, "on?", "off?")
      /\ Path(<<"lock_off?">>, "off?", "rest")
  BY PathOne DEF Points, Words, Parting, Locking, Step
<1>2. Path(<<"release">> \o <<"unlock">>, "held", "free")
  BY <1>1, PathJoin
<1>3. Path(<<"lock_on?">> \o <<"lock_off?">>, "on?", "rest")
  BY <1>1, PathJoin
<1>4. /\ <<"release">> \o <<"unlock">> = Release
      /\ <<"lock_on?">> \o <<"lock_off?">> = Deferred
  BY Joined DEF Release, Deferred
<1> QED BY <1>2, <1>3, <1>4

LEMMA DeferredPath ==
  /\ Path(Append(On, "lock_on=0"), "on", "off?")
  /\ Path(Append(Off, "lock_off=0"), "off", "rest")
<1>1. /\ Path(<<"lock_on=0">>, "on", "off?")
      /\ Path(<<"lock_off=0">>, "off", "rest")
  BY PathOne DEF Points, Words, Parting, Locking, Step
<1>2. /\ On \in Seq(Words) /\ Off \in Seq(Words)
      /\ "lock_on=0" \in Words /\ "lock_off=0" \in Words
  BY DEF On, Off, Words, Parting, Inner, Locking
<1>3. /\ Append(On, "lock_on=0") = On \o <<"lock_on=0">>
      /\ Append(Off, "lock_off=0") = Off \o <<"lock_off=0">>
  BY <1>2, AppendIsConcat
<1>4. /\ Path(On \o <<"lock_on=0">>, "on", "off?")
      /\ Path(Off \o <<"lock_off=0">>, "off", "rest")
  BY <1>1, OnPath, PathJoin
<1> QED BY <1>3, <1>4

LEMMA BodyPath ==
  /\ Path((<<"lock">> \o On) \o Release, "free", "free")
  /\ Path((<<"lock">> \o Off) \o Release, "free", "free")
  /\ Path(<<"lock", "select", "length">>, "free", "free")
  /\ Path(Send, "free", "free")
<1>1. Path(<<"lock">>, "free", "held")
  BY PathOne DEF Points, Words, Locking, Step
<1>2. \A s \in Seq(Inner) :
        Path((<<"lock">> \o s) \o Release, "free", "free")
  BY <1>1, PathInner, PathJoin, ReleasePath
<1>3. /\ On \in Seq(Inner) /\ Off \in Seq(Inner)
      /\ <<"select">> \in Seq(Inner) /\ <<"write">> \in Seq(Inner)
  BY DEF On, Off, Inner
<1>4. /\ <<"lock">> \o <<"write">> = <<"lock", "write">>
      /\ <<"lock">> \o <<"transmit">> = <<"lock", "transmit">>
      /\ (<<"lock">> \o <<"select">>) \o <<"length">>
           = <<"lock", "select", "length">>
  <2>1. /\ <<"lock">> \o <<"write">> = <<"lock", "write">>
        /\ <<"lock">> \o <<"transmit">> = <<"lock", "transmit">>
    BY Joined
  <2>2. (<<"lock">> \o <<"select">>) \o <<"length">>
          = <<"lock", "select", "length">>
    BY Joined, Zenon
  <2> QED BY <2>1, <2>2
<1>5. /\ Path(<<"length">>, "held", "free")
      /\ Path(<<"transmit">>, "held", "free")
  BY PathOne DEF Points, Words, Parting, Step
<1>6. Path(<<"lock", "select", "length">>, "free", "free")
  <2>1. Path(<<"select">>, "held", "held")
    BY <1>3, PathInner
  <2>2. Path((<<"lock">> \o <<"select">>) \o <<"length">>, "free", "free")
    BY <1>1, <1>5, <2>1, PathJoin
  <2> QED BY <1>4, <2>2
<1>7. /\ Path(<<"lock", "write">> \o Release, "free", "free")
      /\ Path(<<"lock", "transmit">>, "free", "free")
  BY <1>1, <1>2, <1>3, <1>4, <1>5, PathJoin
<1>8. Path((<<"lock", "write">> \o Release) \o <<"lock", "transmit">>,
           "free", "free")
  BY <1>7, PathJoin
<1> QED BY <1>2, <1>3, <1>6, <1>8 DEF Send

LEMMA Leading ==
  ASSUME NEW s \in Seq(Words), NEW t \in Seq(Words), NEW i \in 1 .. Len(s)
  PROVE  i \in 1 .. Len(s \o t) /\ (s \o t)[i] = s[i]
<1> DEFINE l == s \o t
<1>1. /\ Len(s) \in Nat /\ Len(t) \in Nat /\ Len(l) = Len(s) + Len(t)
      /\ \A k \in 1 .. Len(s) : l[k] = s[k]
  BY ConcatProperties
<1> HIDE DEF l
<1>2. i \in 1 .. Len(l) /\ l[i] = s[i]
  BY <1>1
<1> QED BY <1>2 DEF l

\* Whatever return is taken gives the lock back.
LEMMA ExitPath ==
  /\ \A way : Path(Exit(way), "held", "free")
  /\ \A way : Path(Off \o Exit(way), "held", "free")
  /\ Path(ReadBody, "held", "free")
  /\ 3 \in 1 .. Len(ReadBody) /\ ReadBody[3] = "again"
<1>1. \A way : Path(Exit(way), "held", "free")
  BY ReleasePath DEF Exit
<1> DEFINE s == <<"select", "body", "again">>
<1>2. /\ s \in Seq(Inner) /\ s \in Seq(Words) /\ Len(s) = 3
      /\ s[3] = "again" /\ Off \in Seq(Inner)
      /\ Release \in Seq(Words)
  BY DEF Off, Release, Inner, Words, Parting, Locking
<1>3. ReadBody = s \o Release
  BY DEF ReadBody, Exit
<1> HIDE DEF s
<1>4. /\ Path(Off, "held", "held") /\ Path(s, "held", "held")
  BY <1>2, PathInner
<1>5. /\ \A way : Path(Off \o Exit(way), "held", "free")
      /\ Path(ReadBody, "held", "free")
  BY <1>1, <1>3, <1>4, PathJoin, ReleasePath
<1>6. 3 \in 1 .. Len(ReadBody) /\ ReadBody[3] = "again"
  <2>1. 3 \in 1 .. Len(s)
    BY <1>2
  <2>2. 3 \in 1 .. Len(s \o Release) /\ (s \o Release)[3] = s[3]
    BY <1>2, <2>1, Leading
  <2> QED BY <1>2, <1>3, <2>2
<1> QED BY <1>1, <1>5, <1>6

LEMMA CallPath ==
  /\ \A call \in SlotCalls : Path(call, "free", "free")
  /\ Path(<<"clear", "read", "input">>, "free", "free")
  /\ \A x \in Calls : Path(<<x>>, "free", "free")
<1>1. \A x \in Calls : Path(<<x>>, "free", "free")
  BY PathOne DEF Points, Words, Parting, Step
<1>2. /\ Path(<<"clear">>, "free", "free") /\ Path(<<"read">>, "free", "free")
      /\ Path(<<"input">>, "free", "free") /\ Path(<<"copy">>, "free", "free")
      /\ Path(<<"cc2420_on">>, "free", "free")
      /\ Path(<<"cc2420_off">>, "free", "free")
  BY <1>1 DEF Calls
<1>3. Path((<<"clear">> \o <<"read">>) \o <<"input">>, "free", "free")
  BY <1>2, PathJoin
<1>4. /\ (<<"clear">> \o <<"read">>) \o <<"input">>
           = <<"clear", "read", "input">>
      /\ <<"copy">> \o <<"cc2420_on">> = <<"copy", "cc2420_on">>
  <2>1. (<<"clear">> \o <<"read">>) \o <<"input">>
          = <<"clear", "read", "input">>
    BY Joined, Zenon
  <2>2. <<"copy">> \o <<"cc2420_on">> = <<"copy", "cc2420_on">>
    BY Joined, Zenon
  <2> QED BY <2>1, <2>2
<1>5. Path(<<"copy", "cc2420_on">>, "free", "free")
  BY <1>2, <1>4, PathJoin
<1>6. Path((<<"copy", "cc2420_on">> \o Send) \o <<"cc2420_off">>,
           "free", "free")
  BY <1>2, <1>5, BodyPath, PathJoin
<1> QED BY <1>1, <1>2, <1>3, <1>4, <1>6 DEF SlotCalls

-----------------------------------------------------------------------------
(* The invariant.                                                          *)

Drivers ==
  [receive_on : BOOLEAN, locked : 0 .. 2, lock_on : BOOLEAN,
   lock_off : BOOLEAN, start : 0 .. MaxFrames, last : 0 .. MaxFrames,
   polled : BOOLEAN]

Chips ==
  [rx : BOOLEAN, air : 0 .. MaxFrames, fifo : Seq(1 .. Rest),
   over : BOOLEAN, ie : BOOLEAN, ifg : BOOLEAN, capture : BOOLEAN,
   csn : BOOLEAN]

Chip == {k \in Chips : Len(k.fifo) <= Room}

Bufs == [frame : 0 .. Noise, stamp : 0 .. MaxFrames, len : 0 .. MaxFrames]

Mets ==
  [slots : 0 .. MaxMet, release : BOOLEAN, again : BOOLEAN, queue : BOOLEAN]

Took(a) == IF a = "free" THEN 0 ELSE 1

\* What was left behind is still going to be seen; an interrupt is served.
LeftBehind(a) ==
  /\ drv.lock_on => a \in {"held", "on?", "on"}
  /\ drv.lock_off => a \in {"held", "on?", "on", "off?", "off"}
  /\ todo["isr"] # << >> => a \in {"free", "held", "on?"}

\* Each context c stands at p[c].
Sound(p) ==
  /\ p \in [Contexts -> Points]
  /\ \A c \in Contexts : Path(todo[c], p[c], "free")
  /\ drv.locked = Took(p["main"]) + Took(p["isr"])
  /\ ~ met.release => LeftBehind(p["main"])

\* A frame has been noticed, or is about to be.
Reading == {"read", "length", "again"}

Notice ==
  FIFOP(chip) => chip.ifg \/ drv.polled \/ Before("main", Reading)

LockInv == TypeOK /\ Notice /\ \E p : Sound(p)

LEMMA Types ==
  TypeOK <=> /\ drv \in Drivers /\ chip \in Chip /\ DOMAIN todo = Contexts
             /\ buf \in Bufs /\ heard \in 0 .. MaxFrames
             /\ want \in {"on", "off"} /\ met \in Mets
  BY DEF TypeOK, Drivers, Chips, Chip, Contexts, Bufs, Mets

LEMMA TypesNext ==
  TypeOK' <=> /\ drv' \in Drivers /\ chip' \in Chip /\ DOMAIN todo' = Contexts
              /\ buf' \in Bufs /\ heard' \in 0 .. MaxFrames
              /\ want' \in {"on", "off"} /\ met' \in Mets
  BY DEF TypeOK, Drivers, Chips, Chip, Contexts, Bufs, Mets

-----------------------------------------------------------------------------
(* What the operations of the chip do.                                     *)

LEMMA ChipOperations ==
  ASSUME NEW k \in Chip
  PROVE  /\ Deselected(k) \in Chip /\ CutOff(k) \in Chip /\ flushrx(k) \in Chip
         /\ FIFOP(Deselected(k)) = FIFOP(k)
         /\ FIFOP(CutOff(k)) => FIFOP(k)
         /\ ~ FIFOP(flushrx(k))
         /\ Deselected(k).ifg = k.ifg /\ CutOff(k).ifg = k.ifg
         /\ flushrx(k).ifg = k.ifg
<1>1. /\ Deselected(k) \in Chip /\ Deselected(k).ifg = k.ifg
      /\ FIFOP(Deselected(k)) = FIFOP(k)
  BY DEF Deselected, Chip, Chips, FIFOP
<1>2. /\ flushrx(k) \in Chip /\ flushrx(k).ifg = k.ifg
      /\ ~ FIFOP(flushrx(k))
  <2> DEFINE e == << >>
  <2>1. e \in Seq(1 .. Rest) /\ Len(e) = 0 /\ DOMAIN e = {}
    OBVIOUS
  <2> HIDE DEF e
  <2>2. flushrx(k) = [k EXCEPT !.fifo = e, !.over = FALSE, !.air = None]
    BY DEF flushrx, e
  <2>3. /\ flushrx(k) \in Chips /\ flushrx(k).fifo = e
        /\ flushrx(k).over = FALSE /\ flushrx(k).ifg = k.ifg
    <3>1. k \in Chips /\ None \in 0 .. MaxFrames
      BY DEF Chip, None
    <3> QED BY <2>1, <2>2, <3>1 DEF Chips
  <2> QED BY <2>1, <2>3 DEF Chip, FIFOP
<1>3. /\ CutOff(k) \in Chip /\ CutOff(k).ifg = k.ifg
      /\ FIFOP(CutOff(k)) => FIFOP(k)
  <2>1. CASE k.air = None \/ Len(k.fifo) >= Room
    <3>1. CutOff(k) = [k EXCEPT !.air = None]
      BY <2>1 DEF CutOff
    <3> QED BY <3>1 DEF Chip, Chips, FIFOP, None
  <2>2. CASE ~ (k.air = None \/ Len(k.fifo) >= Room)
    <3>1. /\ k.fifo \in Seq(1 .. Rest) /\ Rest \in 1 .. Rest
          /\ Len(k.fifo) \in Nat
      BY DEF Chip, Chips, Rest
    <3> DEFINE q == Append(k.fifo, Rest)
    <3>2. /\ q \in Seq(1 .. Rest) /\ Len(q) = Len(k.fifo) + 1
          /\ \A i \in 1 .. Len(k.fifo) : q[i] = k.fifo[i]
          /\ q[Len(k.fifo) + 1] = Rest
      BY <3>1, AppendProperties
    <3> HIDE DEF q
    <3>3. Len(q) <= Room
      BY <2>2, <3>1, <3>2
    <3>4. \A i \in DOMAIN q :
            q[i] # Rest => i \in DOMAIN k.fifo /\ k.fifo[i] # Rest
      <4>1. DOMAIN q = 1 .. Len(k.fifo) + 1 /\ DOMAIN k.fifo = 1 .. Len(k.fifo)
        BY <3>1, <3>2
      <4>2. \A i \in DOMAIN q : i \in DOMAIN k.fifo \/ i = Len(k.fifo) + 1
        BY <3>1, <4>1
      <4> QED BY <3>2, <4>1, <4>2
    <3>5. CutOff(k) = [k EXCEPT !.air = None, !.fifo = q]
      BY <2>2 DEF CutOff, q
    <3>6. /\ CutOff(k) \in Chip /\ CutOff(k).ifg = k.ifg
          /\ CutOff(k).over = k.over /\ CutOff(k).fifo = q
      <4>1. /\ k \in Chips /\ q \in Seq(1 .. Rest)
            /\ None \in 0 .. MaxFrames
        BY <3>2 DEF Chip, None
      <4>2. /\ CutOff(k) \in Chips /\ CutOff(k).ifg = k.ifg
            /\ CutOff(k).over = k.over /\ CutOff(k).fifo = q
        BY <3>5, <4>1 DEF Chips
      <4> QED BY <3>3, <4>2 DEF Chip
    <3>7. FIFOP(CutOff(k)) => FIFOP(k)
      BY <3>4, <3>6 DEF FIFOP
    <3> QED BY <3>6, <3>7
  <2> QED BY <2>1, <2>2
<1> QED BY <1>1, <1>2, <1>3

-----------------------------------------------------------------------------
(* What it means to execute a statement.                                   *)

LEMMA Moves ==
  ASSUME NEW p, TypeOK, Sound(p), NEW c \in Contexts, NEW s, NEW more,
         Do(c, s, more)
  PROVE  /\ \E m \in Points :
              /\ Step(s, p[c], m)
              /\ \A x \in Points : Path(more, x, m) =>
                   \A d \in Contexts :
                     Path(todo'[d], [p EXCEPT ![c] = x][d], "free")
         /\ c = "main" => todo["isr"] = << >> /\ p["isr"] = "free"
         /\ \A d \in Contexts \ {c} : todo'[d] = todo[d]
         /\ DOMAIN todo' = Contexts
<1>1. /\ DOMAIN todo = Contexts /\ p \in [Contexts -> Points]
      /\ \A d \in Contexts : Path(todo[d], p[d], "free")
      /\ todo[c] # << >> /\ Head(todo[c]) = s
      /\ todo' = [todo EXCEPT ![c] = more \o Tail(todo[c])]
  BY DEF TypeOK, Sound, Do, Contexts
<1>2. PICK m \in Points : Step(s, p[c], m) /\ Path(Tail(todo[c]), m, "free")
  BY <1>1, PathHead
<1>3. /\ \A d \in Contexts \ {c} : todo'[d] = todo[d]
      /\ DOMAIN todo' = Contexts /\ todo'[c] = more \o Tail(todo[c])
  BY <1>1
<1>4. ASSUME NEW x \in Points, Path(more, x, m), NEW d \in Contexts
      PROVE  Path(todo'[d], [p EXCEPT ![c] = x][d], "free")
  <2>1. CASE d = c
    <3>1. Path(more \o Tail(todo[c]), x, "free")
      BY <1>2, <1>4, PathJoin
    <3>2. [p EXCEPT ![c] = x][d] = x
      BY <1>1, <2>1
    <3> QED BY <1>3, <2>1, <3>1, <3>2
  <2>2. CASE d # c
    <3>1. [p EXCEPT ![c] = x][d] = p[d] /\ todo'[d] = todo[d]
      BY <1>1, <1>3, <2>2
    <3> QED BY <1>1, <3>1
  <2> QED BY <2>1, <2>2
<1>5. ASSUME c = "main" PROVE todo["isr"] = << >> /\ p["isr"] = "free"
  <2>1. todo["isr"] = << >> /\ "isr" \in Contexts
    BY <1>5 DEF Do, Contexts
  <2>2. Path(<< >>, p["isr"], "free") /\ p["isr"] \in Points
    BY <1>1, <2>1
  <2> QED BY <2>1, <2>2, PathNothing
<1> QED BY <1>2, <1>3, <1>4, <1>5

\* The body of a call goes from where the call is to where it ends.
Body_(s, more) == \A x, m \in Points : Step(s, x, m) => Path(more, x, m)

LEMMA Goes ==
  ASSUME NEW p, TypeOK, Sound(p), NEW c \in Contexts, NEW s, NEW more,
         Do(c, s, more), Body_(s, more),
         drv'.locked = drv.locked, drv'.lock_on = drv.lock_on,
         drv'.lock_off = drv.lock_off, met'.release = met.release
  PROVE  Sound(p)'
<1>1. PICK m \in Points :
        /\ Step(s, p[c], m)
        /\ \A x \in Points : Path(more, x, m) =>
             \A d \in Contexts :
               Path(todo'[d], [p EXCEPT ![c] = x][d], "free")
  BY Moves
<1>2. p \in [Contexts -> Points]
  BY DEF Sound
<1>3. Path(more, p[c], m)
  BY <1>1, <1>2 DEF Body_
<1>4. [p EXCEPT ![c] = p[c]] = p
  BY <1>2
<1>5. \A d \in Contexts : Path(todo'[d], p[d], "free")
  BY <1>1, <1>2, <1>3, <1>4
<1>6. ~ met'.release => LeftBehind(p["main"])'
  <2>1. CASE c = "main"
    <3>1. todo'["isr"] = << >>
      BY <2>1, Moves DEF Contexts
    <3> QED BY <3>1 DEF Sound, LeftBehind
  <2>2. CASE c = "isr"
    <3>1. todo["isr"] # << >>
      BY <2>2 DEF Do
    <3> QED BY <3>1 DEF Sound, LeftBehind
  <2> QED BY <2>1, <2>2 DEF Contexts
<1> QED BY <1>2, <1>5, <1>6 DEF Sound

\* What is still to be read stays to be read.
LEMMA BeforeStays ==
  ASSUME NEW p, TypeOK, Sound(p), NEW c \in Contexts, NEW s, NEW more,
         Do(c, s, more), more \in Seq(Words), NEW W, s \notin W,
         Before("main", W)
  PROVE  Before("main", W)'
<1>1. CASE c = "main"
  <2>1. PICK i \in 1 .. Len(todo["main"]) : todo["main"][i] \in W
    BY DEF Before
  <2>2. /\ todo["main"] \in Seq(Words) /\ todo["main"] # << >>
        /\ Head(todo["main"]) = s
        /\ todo'["main"] = more \o Tail(todo["main"])
    BY <1>1 DEF Sound, Path, Do, Contexts, TypeOK
  <2> DEFINE t == Tail(todo["main"])
             l == more \o t
  <2>3. /\ Len(todo["main"]) \in Nat /\ todo["main"][1] = s
        /\ t \in Seq(Words) /\ Len(t) = Len(todo["main"]) - 1
        /\ \A j \in 1 .. Len(t) : t[j] = todo["main"][j + 1]
    BY <2>2, HeadTailProperties
  <2> HIDE DEF t
  <2>4. i - 1 \in 1 .. Len(t) /\ t[i - 1] = todo["main"][i]
    <3>1. i # 1
      BY <2>1, <2>3
    <3>2. i - 1 \in 1 .. Len(t) /\ (i - 1) + 1 = i
      BY <2>3, <3>1
    <3> QED BY <2>3, <3>2
  <2>5. /\ Len(more) \in Nat /\ Len(l) = Len(more) + Len(t)
        /\ \A j \in 1 .. Len(t) : l[j + Len(more)] = t[j]
    <3>1. more \in Seq(Words) /\ t \in Seq(Words)
      BY <2>3
    <3> QED BY <3>1, ConcatProperties
  <2> HIDE DEF l
  <2>6. /\ (i - 1) + Len(more) \in 1 .. Len(l)
        /\ l[(i - 1) + Len(more)] = todo["main"][i]
    BY <2>3, <2>4, <2>5
  <2>7. todo'["main"] = l
    BY <2>2 DEF l, t
  <2> QED BY <2>1, <2>6, <2>7 DEF Before
<1>2. CASE c = "isr"
  <2>1. todo'["main"] = todo["main"]
    BY <1>2, Moves DEF Contexts
  <2> QED BY <2>1 DEF Before
<1> QED BY <1>1, <1>2 DEF Contexts

LEMMA Notices ==
  ASSUME NEW p, TypeOK, Sound(p), Notice, NEW c \in Contexts, NEW s, NEW more,
         Do(c, s, more), more \in Seq(Words), s \notin Reading,
         FIFOP(chip') => FIFOP(chip),
         chip.ifg => chip'.ifg, drv.polled => drv'.polled
  PROVE  Notice'
<1>1. Before("main", Reading) => Before("main", Reading)'
  BY BeforeStays
<1> QED BY <1>1 DEF Notice

\* A statement that has nothing to do with the lock, or with what is read.
LEMMA Keeps ==
  ASSUME NEW p, TypeOK, Sound(p), Notice, NEW c \in Contexts,
         NEW s, s \notin Reading, NEW more, more \in Seq(Words),
         Do(c, s, more), Body_(s, more),
         drv'.locked = drv.locked, drv'.lock_on = drv.lock_on,
         drv'.lock_off = drv.lock_off, met'.release = met.release,
         FIFOP(chip') => FIFOP(chip),
         chip.ifg => chip'.ifg, drv.polled => drv'.polled,
         drv' \in Drivers, chip' \in Chip, buf' \in Bufs,
         heard' \in 0 .. MaxFrames, want' \in {"on", "off"}, met' \in Mets
  PROVE  LockInv'
<1>1. Sound(p)' /\ Notice'
  BY Goes, Notices
<1>2. DOMAIN todo' = Contexts
  BY Moves
<1> QED BY <1>1, <1>2, TypesNext DEF LockInv

LEMMA Bodies ==
  /\ \A x \in Calls : \A more :
       Path(more, "free", "free") => Body_(x, more) /\ more \in Seq(Words)
  /\ \A x \in Inner : \A more \in Seq(Inner) :
       Body_(x, more) /\ more \in Seq(Words)
  /\ \A x \in Parting : \A more :
       Path(more, "held", "free") => Body_(x, more) /\ more \in Seq(Words)
  /\ \A x \in Calls : Body_(x, << >>)
  /\ << >> \in Seq(Words) /\ << >> \in Seq(Inner)
<1>1. /\ \A x \in Calls : \A a, b : Step(x, a, b) => a = "free" /\ b = "free"
      /\ \A x \in Inner : \A a, b :
           Step(x, a, b) => a \in {"held", "on", "off"} /\ b = a
      /\ \A x \in Parting : \A a, b :
           Step(x, a, b) => a = "held" /\ b = "free"
  BY DEF Step, Calls, Inner, Parting
<1>2. \A x \in Calls : \A more :
        Path(more, "free", "free") => Body_(x, more) /\ more \in Seq(Words)
  BY <1>1 DEF Body_, Path
<1>3. \A x \in Inner : \A more \in Seq(Inner) : Body_(x, more)
  BY <1>1, PathInner DEF Body_
<1>4. \A more \in Seq(Inner) : more \in Seq(Words)
  BY DEF Words, Parting
<1>5. Path(<< >>, "free", "free")
  BY PathNothing DEF Points
<1>6. \A x \in Parting : \A more :
        Path(more, "held", "free") => Body_(x, more) /\ more \in Seq(Words)
  BY <1>1 DEF Body_, Path
<1> QED BY <1>2, <1>3, <1>4, <1>5, <1>6

\* A statement that only assigns.
LEMMA Assigns ==
  ASSUME NEW p, TypeOK, Sound(p), Notice, NEW c \in Contexts,
         NEW s \in Inner \ Reading, NEW d \in Drivers, NEW k \in Chip,
         Plain(c, s, d, k),
         d.locked = drv.locked, d.lock_on = drv.lock_on,
         d.lock_off = drv.lock_off, drv.polled => d.polled,
         FIFOP(k) => FIFOP(chip), chip.ifg => k.ifg
  PROVE  LockInv'
<1>1. /\ Do(c, s, << >>) /\ drv' = d /\ chip' = k
      /\ UNCHANGED <<buf, heard, want, met>>
  BY DEF Plain
<1>2. Body_(s, << >>) /\ << >> \in Seq(Words)
  BY Bodies
<1> HIDE DEF Plain
<1> QED BY <1>1, <1>2, Keeps, Types

-----------------------------------------------------------------------------
(* on() and off(). *)

LEMMA ChipStatements ==
  ASSUME NEW p, TypeOK, Sound(p), Notice, NEW c \in Contexts,
         \/ Select(c) \/ Enable(c) \/ StrobeOn(c) \/ SetOn(c)
         \/ SetOff(c) \/ StrobeOff(c) \/ Disable(c) \/ Flush(c)
  PROVE  LockInv'
<1>1. drv \in Drivers /\ chip \in Chip
  BY Types
<1>2. {"enable", "select", "SRXON", "receive_on", "receive_off", "SRFOFF",
       "disable", "flush"} \subseteq Inner \ Reading
  BY DEF Inner, Reading
<1>3. CASE Select(c)
  <2> DEFINE k == [chip EXCEPT !.csn = TRUE]
  <2>1. k \in Chip /\ (FIFOP(k) => FIFOP(chip)) /\ (chip.ifg => k.ifg)
    BY <1>1 DEF Chip, Chips, FIFOP
  <2>2. Plain(c, "select", drv, k)
    BY <1>3 DEF Select
  <2> HIDE DEF k
  <2> QED BY <1>1, <1>2, <2>1, <2>2, Assigns
<1>4. CASE Enable(c)
  <2> DEFINE k == [chip EXCEPT !.ie = TRUE]
  <2>1. k \in Chip /\ (FIFOP(k) => FIFOP(chip)) /\ (chip.ifg => k.ifg)
    BY <1>1 DEF Chip, Chips, FIFOP
  <2>2. Plain(c, "enable", drv, k)
    BY <1>4 DEF Enable
  <2> HIDE DEF k
  <2> QED BY <1>1, <1>2, <2>1, <2>2, Assigns
<1>5. CASE StrobeOn(c)
  <2> DEFINE j == Deselected(chip)
             k == [j EXCEPT !.rx = @ \/ chip.csn]
  <2>1. j \in Chip /\ FIFOP(j) = FIFOP(chip) /\ j.ifg = chip.ifg
    BY <1>1, ChipOperations
  <2>2. Plain(c, "SRXON", drv, k)
    BY <1>5 DEF StrobeOn
  <2> HIDE DEF j
  <2>3. k \in Chip /\ (FIFOP(k) => FIFOP(chip)) /\ (chip.ifg => k.ifg)
    BY <1>1, <2>1 DEF Chip, Chips, FIFOP
  <2> HIDE DEF k
  <2> QED BY <1>1, <1>2, <2>2, <2>3, Assigns
<1>6. CASE SetOn(c)
  <2> DEFINE d == [drv EXCEPT !.receive_on = TRUE]
  <2>1. /\ d \in Drivers /\ d.locked = drv.locked /\ d.lock_on = drv.lock_on
        /\ d.lock_off = drv.lock_off /\ d.polled = drv.polled
    BY <1>1 DEF Drivers
  <2>2. Plain(c, "receive_on", d, chip)
    BY <1>6 DEF SetOn
  <2> HIDE DEF d
  <2> QED BY <1>1, <1>2, <2>1, <2>2, Assigns
<1>7. CASE SetOff(c)
  <2> DEFINE d == [drv EXCEPT !.receive_on = FALSE]
  <2>1. /\ d \in Drivers /\ d.locked = drv.locked /\ d.lock_on = drv.lock_on
        /\ d.lock_off = drv.lock_off /\ d.polled = drv.polled
    BY <1>1 DEF Drivers
  <2>2. Plain(c, "receive_off", d, chip)
    BY <1>7 DEF SetOff
  <2> HIDE DEF d
  <2> QED BY <1>1, <1>2, <2>1, <2>2, Assigns
<1>8. CASE StrobeOff(c)
  <2> DEFINE i == CutOff(chip)
             j == Deselected(i)
             k == IF chip.csn THEN [j EXCEPT !.rx = FALSE] ELSE chip
  <2>1. /\ i \in Chip /\ (FIFOP(i) => FIFOP(chip)) /\ i.ifg = chip.ifg
    BY <1>1, ChipOperations
  <2>2. Plain(c, "SRFOFF", drv, k)
    BY <1>8 DEF StrobeOff
  <2> HIDE DEF i
  <2>3. /\ j \in Chip /\ FIFOP(j) = FIFOP(i) /\ j.ifg = i.ifg
    BY <2>1, ChipOperations
  <2> HIDE DEF j
  <2>4. k \in Chip /\ (FIFOP(k) => FIFOP(chip)) /\ (chip.ifg => k.ifg)
    <3>1. CASE chip.csn
      <4>1. k = [j EXCEPT !.rx = FALSE]
        BY <3>1
      <4>2. k \in Chip /\ FIFOP(k) = FIFOP(j) /\ k.ifg = j.ifg
        BY <2>3, <4>1 DEF Chip, Chips, FIFOP
      <4> QED BY <2>1, <2>3, <4>2
    <3>2. CASE ~ chip.csn
      BY <1>1, <3>2
    <3> QED BY <3>1, <3>2
  <2> HIDE DEF k
  <2> QED BY <1>1, <1>2, <2>2, <2>4, Assigns
<1>9. CASE Disable(c)
  <2> DEFINE k == [chip EXCEPT !.ie = FALSE]
  <2>1. k \in Chip /\ (FIFOP(k) => FIFOP(chip)) /\ (chip.ifg => k.ifg)
    BY <1>1 DEF Chip, Chips, FIFOP
  <2>2. Plain(c, "disable", drv, k)
    BY <1>9 DEF Disable
  <2> HIDE DEF k
  <2> QED BY <1>1, <1>2, <2>1, <2>2, Assigns
<1>10. CASE Flush(c)
  <2> DEFINE j == flushrx(chip)
             k == IF FIFOP(chip) THEN chip ELSE Deselected(j)
  <2>1. j \in Chip /\ ~ FIFOP(j) /\ j.ifg = chip.ifg
    BY <1>1, ChipOperations
  <2>2. Plain(c, "flush", drv, k)
    BY <1>10 DEF Flush
  <2> HIDE DEF j
  <2>3. k \in Chip /\ (FIFOP(k) => FIFOP(chip)) /\ (chip.ifg => k.ifg)
    BY <1>1, <2>1, ChipOperations
  <2> HIDE DEF k
  <2> QED BY <1>1, <1>2, <2>2, <2>3, Assigns
<1> QED BY <1>3, <1>4, <1>5, <1>6, <1>7, <1>8, <1>9, <1>10

-----------------------------------------------------------------------------
(* The lock.                                                               *)

\* Where a context gets to that goes on with more.
Onto(p, c, more, m) ==
  \A x \in Points : Path(more, x, m) =>
    \A d \in Contexts : Path(todo'[d], [p EXCEPT ![c] = x][d], "free")

LEMMA Shifts ==
  ASSUME NEW p, TypeOK, Sound(p), Notice, NEW c \in Contexts,
         NEW s, s \notin Reading, NEW more, Do(c, s, more),
         NEW m, Onto(p, c, more, m), NEW x \in Points, Path(more, x, m),
         NEW a, a = (IF c = "main" THEN x ELSE p["main"]),
         NEW b, b = (IF c = "isr" THEN x ELSE p["isr"]),
         drv' \in Drivers, drv'.locked = Took(a) + Took(b),
         drv'.polled = drv.polled,
         ~ met.release => LeftBehind(a)',
         UNCHANGED <<chip, buf, heard, met>>, want' \in {"on", "off"}
  PROVE  LockInv'
<1> DEFINE q == [p EXCEPT ![c] = x]
<1>1. p \in [Contexts -> Points]
  BY DEF Sound
<1>2. q \in [Contexts -> Points] /\ q["main"] = a /\ q["isr"] = b
  BY <1>1 DEF Contexts
<1>3. \A d \in Contexts : Path(todo'[d], q[d], "free")
  BY DEF Onto
<1> HIDE DEF q
<1>4. Sound(q)'
  BY <1>2, <1>3 DEF Sound
<1>5. more \in Seq(Words)
  BY DEF Path
<1>6. Notice'
  <2>1. chip' = chip
    OBVIOUS
  <2> QED BY <1>5, <2>1, Notices
<1>7. TypeOK'
  <2>1. DOMAIN todo' = Contexts
    BY Moves
  <2> QED BY <2>1, Types, TypesNext
<1> QED BY <1>4, <1>6, <1>7 DEF LockInv

\* What is known before a statement of the lock.
LEMMA Before_ ==
  ASSUME NEW p, TypeOK, Sound(p), NEW c \in Contexts, NEW s, NEW more,
         Do(c, s, more)
  PROVE  /\ \E m \in Points : Step(s, p[c], m) /\ Onto(p, c, more, m)
         /\ p["main"] \in Points /\ p["isr"] \in Points
         /\ drv \in Drivers /\ drv.locked = Took(p["main"]) + Took(p["isr"])
         /\ ~ met.release => LeftBehind(p["main"])
         /\ c = "main" =>
              /\ todo["isr"] = << >> /\ p["isr"] = "free"
              /\ todo'["isr"] = << >>
         /\ c = "isr" => todo["isr"] # << >>
<1>1. \E m \in Points : Step(s, p[c], m) /\ Onto(p, c, more, m)
  BY Moves DEF Onto
<1>2. /\ p["main"] \in Points /\ p["isr"] \in Points
      /\ drv \in Drivers /\ drv.locked = Took(p["main"]) + Took(p["isr"])
      /\ ~ met.release => LeftBehind(p["main"])
  BY Types DEF Sound, Contexts
<1>3. c = "main" => /\ todo["isr"] = << >> /\ p["isr"] = "free"
                    /\ todo'["isr"] = << >>
  <2> SUFFICES ASSUME c = "main"
               PROVE  /\ todo["isr"] = << >> /\ p["isr"] = "free"
                      /\ todo'["isr"] = << >>
    OBVIOUS
  <2>1. "isr" \in Contexts \ {c}
    BY DEF Contexts
  <2> QED BY <2>1, Moves
<1>4. c = "isr" => todo["isr"] # << >>
  BY DEF Do
<1> QED BY <1>1, <1>2, <1>3, <1>4

LEMMA LockStep ==
  ASSUME NEW p, TypeOK, Sound(p), Notice, NEW c \in Contexts, Lock(c)
  PROVE  LockInv'
<1>1. /\ Do(c, "lock", << >>) /\ drv' = [drv EXCEPT !.locked = @ + 1]
      /\ UNCHANGED <<chip, buf, heard, want, met>>
  BY DEF Lock, Plain
<1>2. PICK m \in Points : Step("lock", p[c], m) /\ Onto(p, c, << >>, m)
  BY <1>1, Before_
<1>3. p[c] = "free" /\ m = "held"
  BY <1>2 DEF Step, Calls, Inner, Parting
<1> DEFINE a == IF c = "main" THEN m ELSE p["main"]
           b == IF c = "isr" THEN m ELSE p["isr"]
<1>4. /\ drv \in Drivers /\ drv.locked = Took(p["main"]) + Took(p["isr"])
      /\ ~ met.release => LeftBehind(p["main"])
      /\ c = "main" => p["isr"] = "free" /\ todo'["isr"] = << >>
      /\ c = "isr" => todo["isr"] # << >>
      /\ p["main"] \in Points /\ p["isr"] \in Points
  BY <1>1, Before_
<1>5. drv.locked + 1 = Took(a) + Took(b) /\ drv.locked + 1 \in 0 .. 2
  BY <1>3, <1>4 DEF Took, Contexts
<1>6. /\ drv' \in Drivers /\ drv'.locked = Took(a) + Took(b)
      /\ drv'.polled = drv.polled /\ drv'.lock_on = drv.lock_on
      /\ drv'.lock_off = drv.lock_off
  BY <1>1, <1>4, <1>5 DEF Drivers
<1>7. ~ met.release => LeftBehind(a)'
  <2>1. CASE c = "main"
    BY <1>3, <1>4, <1>6, <2>1 DEF LeftBehind
  <2>2. CASE c = "isr"
    BY <1>3, <1>4, <1>6, <2>2 DEF LeftBehind
  <2> QED BY <2>1, <2>2 DEF Contexts
<1>8. Path(<< >>, m, m) /\ "lock" \notin Reading /\ want' \in {"on", "off"}
  BY <1>1, PathNothing, Types DEF Reading
<1>9. /\ a = (IF c = "main" THEN m ELSE p["main"])
      /\ b = (IF c = "isr" THEN m ELSE p["isr"])
  OBVIOUS
<1>10. Do(c, "lock", << >>) /\ Onto(p, c, << >>, m)
  BY <1>1, <1>2
<1>11. UNCHANGED <<chip, buf, heard, met>>
  BY <1>1
<1> HIDE DEF a, b
<1> QED BY <1>6, <1>7, <1>8, <1>9, <1>10, <1>11, Shifts

LEMMA TestLockStep ==
  ASSUME NEW p, TypeOK, Sound(p), Notice, NEW c \in Contexts, TestLock(c)
  PROVE  LockInv'
<1> DEFINE more == IF drv.locked = 1 THEN Deferred ELSE << >>
<1>1. /\ Do(c, "release", more)
      /\ UNCHANGED <<drv, chip, buf, heard, want, met>>
  BY DEF TestLock, Branch
<1>2. PICK m \in Points : Step("release", p[c], m) /\ Onto(p, c, more, m)
  BY <1>1, Before_
<1>3. p[c] = "held" /\ m = "rest"
  BY <1>2 DEF Step, Calls, Inner, Parting
<1>5. PICK x \in Points :
        Path(more, x, m) /\ x = IF drv.locked = 1 THEN "on?" ELSE "rest"
  BY <1>3, ReleasePath, PathNothing DEF Points
<1> DEFINE a == IF c = "main" THEN x ELSE p["main"]
           b == IF c = "isr" THEN x ELSE p["isr"]
<1>4. /\ drv \in Drivers /\ drv.locked = Took(p["main"]) + Took(p["isr"])
      /\ ~ met.release => LeftBehind(p["main"])
      /\ c = "main" => p["isr"] = "free" /\ todo'["isr"] = << >>
      /\ c = "isr" => todo["isr"] # << >>
      /\ p["main"] \in Points /\ p["isr"] \in Points
  BY <1>1, Before_
<1>6. drv.locked = Took(a) + Took(b)
  BY <1>3, <1>4, <1>5 DEF Took, Contexts
<1>7. ~ met.release => LeftBehind(a)'
  <2>1. CASE c = "main"
    <3>1. drv.locked = 1
      BY <1>3, <1>4, <2>1 DEF Took
    <3> QED BY <1>1, <1>3, <1>4, <1>5, <2>1, <3>1 DEF LeftBehind
  <2>2. CASE c = "isr"
    BY <1>1, <1>3, <1>4, <1>5, <2>2 DEF LeftBehind
  <2> QED BY <2>1, <2>2 DEF Contexts
<1>8. /\ "release" \notin Reading /\ want' \in {"on", "off"}
      /\ drv' \in Drivers /\ drv'.locked = Took(a) + Took(b)
      /\ drv'.polled = drv.polled
  BY <1>1, <1>4, <1>6, Types DEF Reading
<1>9. /\ a = (IF c = "main" THEN x ELSE p["main"])
      /\ b = (IF c = "isr" THEN x ELSE p["isr"])
  OBVIOUS
<1>10. Do(c, "release", more) /\ Onto(p, c, more, m)
  BY <1>1, <1>2
<1>11. UNCHANGED <<chip, buf, heard, met>>
  BY <1>1
<1> HIDE DEF a, b, more
<1> QED BY <1>5, <1>7, <1>8, <1>9, <1>10, <1>11, Shifts

LEMMA DeferredOnStep ==
  ASSUME NEW p, TypeOK, Sound(p), Notice, NEW c \in Contexts, DeferredOn(c)
  PROVE  LockInv'
<1> DEFINE more == IF drv.lock_on THEN Append(On, "lock_on=0") ELSE << >>
<1>1. /\ Do(c, "lock_on?", more)
      /\ UNCHANGED <<drv, chip, buf, heard, want, met>>
  BY DEF DeferredOn, Branch
<1>2. PICK m \in Points : Step("lock_on?", p[c], m) /\ Onto(p, c, more, m)
  BY <1>1, Before_
<1>3. p[c] = "on?" /\ m = "off?"
  BY <1>2 DEF Step, Calls, Inner, Parting
<1>5. PICK x \in Points :
        Path(more, x, m) /\ x = IF drv.lock_on THEN "on" ELSE "off?"
  BY <1>3, DeferredPath, PathNothing DEF Points
<1> DEFINE a == IF c = "main" THEN x ELSE p["main"]
           b == IF c = "isr" THEN x ELSE p["isr"]
<1>4. /\ drv \in Drivers /\ drv.locked = Took(p["main"]) + Took(p["isr"])
      /\ ~ met.release => LeftBehind(p["main"])
      /\ c = "main" => p["isr"] = "free" /\ todo'["isr"] = << >>
      /\ c = "isr" => todo["isr"] # << >>
      /\ p["main"] \in Points /\ p["isr"] \in Points
  BY <1>1, Before_
<1>6. drv.locked = Took(a) + Took(b)
  BY <1>3, <1>4, <1>5 DEF Took, Contexts
<1>7. ~ met.release => LeftBehind(a)'
  <2>1. CASE c = "main"
    BY <1>1, <1>3, <1>4, <1>5, <2>1 DEF LeftBehind
  <2>2. CASE c = "isr"
    BY <1>1, <1>3, <1>4, <1>5, <2>2 DEF LeftBehind
  <2> QED BY <2>1, <2>2 DEF Contexts
<1>8. /\ "lock_on?" \notin Reading /\ want' \in {"on", "off"}
      /\ drv' \in Drivers /\ drv'.locked = Took(a) + Took(b)
      /\ drv'.polled = drv.polled
  BY <1>1, <1>4, <1>6, Types DEF Reading
<1>9. /\ a = (IF c = "main" THEN x ELSE p["main"])
      /\ b = (IF c = "isr" THEN x ELSE p["isr"])
  OBVIOUS
<1>10. Do(c, "lock_on?", more) /\ Onto(p, c, more, m)
  BY <1>1, <1>2
<1>11. UNCHANGED <<chip, buf, heard, met>>
  BY <1>1
<1> HIDE DEF a, b, more
<1> QED BY <1>5, <1>7, <1>8, <1>9, <1>10, <1>11, Shifts

LEMMA DeferredOffStep ==
  ASSUME NEW p, TypeOK, Sound(p), Notice, NEW c \in Contexts, DeferredOff(c)
  PROVE  LockInv'
<1> DEFINE more == IF drv.lock_off THEN Append(Off, "lock_off=0") ELSE << >>
<1>1. /\ Do(c, "lock_off?", more)
      /\ UNCHANGED <<drv, chip, buf, heard, want, met>>
  BY DEF DeferredOff, Branch
<1>2. PICK m \in Points : Step("lock_off?", p[c], m) /\ Onto(p, c, more, m)
  BY <1>1, Before_
<1>3. p[c] = "off?" /\ m = "rest"
  BY <1>2 DEF Step, Calls, Inner, Parting
<1>5. PICK x \in Points :
        Path(more, x, m) /\ x = IF drv.lock_off THEN "off" ELSE "rest"
  BY <1>3, DeferredPath, PathNothing DEF Points
<1> DEFINE a == IF c = "main" THEN x ELSE p["main"]
           b == IF c = "isr" THEN x ELSE p["isr"]
<1>4. /\ drv \in Drivers /\ drv.locked = Took(p["main"]) + Took(p["isr"])
      /\ ~ met.release => LeftBehind(p["main"])
      /\ c = "main" => p["isr"] = "free" /\ todo'["isr"] = << >>
      /\ c = "isr" => todo["isr"] # << >>
      /\ p["main"] \in Points /\ p["isr"] \in Points
  BY <1>1, Before_
<1>6. drv.locked = Took(a) + Took(b)
  BY <1>3, <1>4, <1>5 DEF Took, Contexts
<1>7. ~ met.release => LeftBehind(a)'
  <2>1. CASE c = "main"
    BY <1>1, <1>3, <1>4, <1>5, <2>1 DEF LeftBehind
  <2>2. CASE c = "isr"
    BY <1>1, <1>3, <1>4, <1>5, <2>2 DEF LeftBehind
  <2> QED BY <2>1, <2>2 DEF Contexts
<1>8. /\ "lock_off?" \notin Reading /\ want' \in {"on", "off"}
      /\ drv' \in Drivers /\ drv'.locked = Took(a) + Took(b)
      /\ drv'.polled = drv.polled
  BY <1>1, <1>4, <1>6, Types DEF Reading
<1>9. /\ a = (IF c = "main" THEN x ELSE p["main"])
      /\ b = (IF c = "isr" THEN x ELSE p["isr"])
  OBVIOUS
<1>10. Do(c, "lock_off?", more) /\ Onto(p, c, more, m)
  BY <1>1, <1>2
<1>11. UNCHANGED <<chip, buf, heard, met>>
  BY <1>1
<1> HIDE DEF a, b, more
<1> QED BY <1>5, <1>7, <1>8, <1>9, <1>10, <1>11, Shifts

LEMMA ClearOnStep ==
  ASSUME NEW p, TypeOK, Sound(p), Notice, NEW c \in Contexts, ClearOn(c)
  PROVE  LockInv'
<1>1. /\ Do(c, "lock_on=0", << >>) /\ drv' = [drv EXCEPT !.lock_on = FALSE]
      /\ UNCHANGED <<chip, buf, heard, want, met>>
  BY DEF ClearOn, Plain
<1>2. PICK m \in Points : Step("lock_on=0", p[c], m) /\ Onto(p, c, << >>, m)
  BY <1>1, Before_
<1>3. p[c] = "on" /\ m = "off?"
  BY <1>2 DEF Step, Calls, Inner, Parting
<1> DEFINE a == IF c = "main" THEN m ELSE p["main"]
           b == IF c = "isr" THEN m ELSE p["isr"]
<1>4. /\ drv \in Drivers /\ drv.locked = Took(p["main"]) + Took(p["isr"])
      /\ ~ met.release => LeftBehind(p["main"])
      /\ c = "main" => p["isr"] = "free" /\ todo'["isr"] = << >>
      /\ c = "isr" => todo["isr"] # << >>
      /\ p["main"] \in Points /\ p["isr"] \in Points
  BY <1>1, Before_
<1>5. drv.locked = Took(a) + Took(b)
  BY <1>3, <1>4 DEF Took, Contexts
<1>6. /\ drv' \in Drivers /\ drv'.locked = Took(a) + Took(b)
      /\ drv'.polled = drv.polled
      /\ drv'.lock_on = FALSE /\ drv'.lock_off = drv.lock_off
  BY <1>1, <1>3, <1>4, <1>5 DEF Drivers
<1>7. ~ met.release => LeftBehind(a)'
  <2>1. CASE c = "main"
    BY <1>1, <1>3, <1>4, <1>6, <2>1 DEF LeftBehind
  <2>2. CASE c = "isr"
    BY <1>1, <1>3, <1>4, <1>6, <2>2 DEF LeftBehind
  <2> QED BY <2>1, <2>2 DEF Contexts
<1>8. /\ Path(<< >>, m, m) /\ "lock_on=0" \notin Reading
      /\ want' \in {"on", "off"}
  BY <1>1, PathNothing, Types DEF Reading
<1>9. /\ a = (IF c = "main" THEN m ELSE p["main"])
      /\ b = (IF c = "isr" THEN m ELSE p["isr"])
  OBVIOUS
<1>10. Do(c, "lock_on=0", << >>) /\ Onto(p, c, << >>, m)
  BY <1>1, <1>2
<1>11. UNCHANGED <<chip, buf, heard, met>>
  BY <1>1
<1> HIDE DEF a, b
<1> QED BY <1>6, <1>7, <1>8, <1>9, <1>10, <1>11, Shifts

LEMMA ClearOffStep ==
  ASSUME NEW p, TypeOK, Sound(p), Notice, NEW c \in Contexts, ClearOff(c)
  PROVE  LockInv'
<1>1. /\ Do(c, "lock_off=0", << >>) /\ drv' = [drv EXCEPT !.lock_off = FALSE]
      /\ UNCHANGED <<chip, buf, heard, want, met>>
  BY DEF ClearOff, Plain
<1>2. PICK m \in Points : Step("lock_off=0", p[c], m) /\ Onto(p, c, << >>, m)
  BY <1>1, Before_
<1>3. p[c] = "off" /\ m = "rest"
  BY <1>2 DEF Step, Calls, Inner, Parting
<1> DEFINE a == IF c = "main" THEN m ELSE p["main"]
           b == IF c = "isr" THEN m ELSE p["isr"]
<1>4. /\ drv \in Drivers /\ drv.locked = Took(p["main"]) + Took(p["isr"])
      /\ ~ met.release => LeftBehind(p["main"])
      /\ c = "main" => p["isr"] = "free" /\ todo'["isr"] = << >>
      /\ c = "isr" => todo["isr"] # << >>
      /\ p["main"] \in Points /\ p["isr"] \in Points
  BY <1>1, Before_
<1>5. drv.locked = Took(a) + Took(b)
  BY <1>3, <1>4 DEF Took, Contexts
<1>6. /\ drv' \in Drivers /\ drv'.locked = Took(a) + Took(b)
      /\ drv'.polled = drv.polled
      /\ drv'.lock_on = drv.lock_on /\ drv'.lock_off = FALSE
  BY <1>1, <1>3, <1>4, <1>5 DEF Drivers
<1>7. ~ met.release => LeftBehind(a)'
  <2>1. CASE c = "main"
    BY <1>1, <1>3, <1>4, <1>6, <2>1 DEF LeftBehind
  <2>2. CASE c = "isr"
    BY <1>1, <1>3, <1>4, <1>6, <2>2 DEF LeftBehind
  <2> QED BY <2>1, <2>2 DEF Contexts
<1>8. /\ Path(<< >>, m, m) /\ "lock_off=0" \notin Reading
      /\ want' \in {"on", "off"}
  BY <1>1, PathNothing, Types DEF Reading
<1>9. /\ a = (IF c = "main" THEN m ELSE p["main"])
      /\ b = (IF c = "isr" THEN m ELSE p["isr"])
  OBVIOUS
<1>10. Do(c, "lock_off=0", << >>) /\ Onto(p, c, << >>, m)
  BY <1>1, <1>2
<1>11. UNCHANGED <<chip, buf, heard, met>>
  BY <1>1
<1> HIDE DEF a, b
<1> QED BY <1>6, <1>7, <1>8, <1>9, <1>10, <1>11, Shifts

LEMMA UnlockStep ==
  ASSUME NEW p, TypeOK, Sound(p), Notice, NEW c \in Contexts, Unlock(c)
  PROVE  LockInv'
<1>1. /\ Do(c, "unlock", << >>) /\ drv' = [drv EXCEPT !.locked = @ - 1]
      /\ UNCHANGED <<chip, buf, heard, want, met>>
  BY DEF Unlock, Plain
<1>2. PICK m \in Points : Step("unlock", p[c], m) /\ Onto(p, c, << >>, m)
  BY <1>1, Before_
<1>3. p[c] = "rest" /\ m = "free"
  BY <1>2 DEF Step, Calls, Inner, Parting
<1> DEFINE a == IF c = "main" THEN m ELSE p["main"]
           b == IF c = "isr" THEN m ELSE p["isr"]
<1>4. /\ drv \in Drivers /\ drv.locked = Took(p["main"]) + Took(p["isr"])
      /\ ~ met.release => LeftBehind(p["main"])
      /\ c = "main" => p["isr"] = "free" /\ todo'["isr"] = << >>
      /\ c = "isr" => todo["isr"] # << >>
      /\ p["main"] \in Points /\ p["isr"] \in Points
  BY <1>1, Before_
<1>5. drv.locked - 1 = Took(a) + Took(b) /\ drv.locked - 1 \in 0 .. 2
  BY <1>3, <1>4 DEF Took, Contexts
<1>6. /\ drv' \in Drivers /\ drv'.locked = Took(a) + Took(b)
      /\ drv'.polled = drv.polled
      /\ drv'.lock_on = drv.lock_on /\ drv'.lock_off = drv.lock_off
  BY <1>1, <1>3, <1>4, <1>5 DEF Drivers
<1>7. ~ met.release => LeftBehind(a)'
  <2>1. CASE c = "main"
    BY <1>1, <1>3, <1>4, <1>6, <2>1 DEF LeftBehind
  <2>2. CASE c = "isr"
    BY <1>1, <1>3, <1>4, <1>6, <2>2 DEF LeftBehind
  <2> QED BY <2>1, <2>2 DEF Contexts
<1>8. Path(<< >>, m, m) /\ "unlock" \notin Reading /\ want' \in {"on", "off"}
  BY <1>1, PathNothing, Types DEF Reading
<1>9. /\ a = (IF c = "main" THEN m ELSE p["main"])
      /\ b = (IF c = "isr" THEN m ELSE p["isr"])
  OBVIOUS
<1>10. Do(c, "unlock", << >>) /\ Onto(p, c, << >>, m)
  BY <1>1, <1>2
<1>11. UNCHANGED <<chip, buf, heard, met>>
  BY <1>1
<1> HIDE DEF a, b
<1> QED BY <1>6, <1>7, <1>8, <1>9, <1>10, <1>11, Shifts

LEMMA OnLockedStep ==
  ASSUME NEW p, TypeOK, Sound(p), Notice, NEW c \in Contexts, OnLocked(c)
  PROVE  LockInv'
<1> DEFINE more == IF drv.locked > 0 THEN << >>
                   ELSE <<"lock">> \o On \o Release
<1>1. /\ Do(c, "on_locked?", more)
      /\ drv' = [drv EXCEPT !.lock_on = @ \/ drv.locked > 0]
      /\ UNCHANGED <<chip, buf, heard, want, met>>
  BY DEF OnLocked
<1>2. PICK m \in Points : Step("on_locked?", p[c], m) /\ Onto(p, c, more, m)
  BY <1>1, Before_
<1>3. p[c] = "free" /\ m = "free"
  BY <1>2 DEF Step, Calls, Inner, Parting
<1> DEFINE a == IF c = "main" THEN m ELSE p["main"]
           b == IF c = "isr" THEN m ELSE p["isr"]
<1>4. /\ drv \in Drivers /\ drv.locked = Took(p["main"]) + Took(p["isr"])
      /\ ~ met.release => LeftBehind(p["main"])
      /\ c = "main" => p["isr"] = "free" /\ todo'["isr"] = << >>
      /\ c = "isr" => todo["isr"] # << >>
      /\ p["main"] \in Points /\ p["isr"] \in Points
  BY <1>1, Before_
<1>5. drv.locked = Took(a) + Took(b)
  BY <1>3, <1>4 DEF Took, Contexts
<1>6. /\ drv' \in Drivers /\ drv'.locked = Took(a) + Took(b)
      /\ drv'.polled = drv.polled /\ drv'.lock_off = drv.lock_off
      /\ drv'.lock_on => drv.lock_on \/ drv.locked > 0
  BY <1>1, <1>4, <1>5 DEF Drivers
<1>7. ~ met.release => LeftBehind(a)'
  <2>1. CASE c = "main"
    <3>1. ~ drv.locked > 0
      BY <1>3, <1>4, <2>1 DEF Took
    <3> QED BY <1>3, <1>4, <1>6, <2>1, <3>1 DEF LeftBehind
  <2>2. CASE c = "isr"
    <3>1. drv.locked > 0 => p["main"] # "free"
      BY <1>3, <1>4, <2>2 DEF Took
    <3> QED BY <1>3, <1>4, <1>6, <2>2, <3>1 DEF LeftBehind
  <2> QED BY <2>1, <2>2 DEF Contexts
<1>8. /\ Path(more, m, m) /\ "on_locked?" \notin Reading
      /\ want' \in {"on", "off"}
  BY <1>1, <1>3, BodyPath, PathNothing, Types DEF Reading
<1>9. /\ a = (IF c = "main" THEN m ELSE p["main"])
      /\ b = (IF c = "isr" THEN m ELSE p["isr"])
  OBVIOUS
<1>10. Do(c, "on_locked?", more) /\ Onto(p, c, more, m)
  BY <1>1, <1>2
<1>11. UNCHANGED <<chip, buf, heard, met>>
  BY <1>1
<1> HIDE DEF a, b, more
<1> QED BY <1>6, <1>7, <1>8, <1>9, <1>10, <1>11, Shifts

LEMMA OffLockedStep ==
  ASSUME NEW p, TypeOK, Sound(p), Notice, NEW c \in Contexts, OffLocked(c)
  PROVE  LockInv'
<1> DEFINE more == IF drv.locked > 0 THEN << >>
                   ELSE <<"lock">> \o Off \o Release
<1>1. /\ Do(c, "off_locked?", more)
      /\ drv' = [drv EXCEPT !.lock_off = @ \/ drv.locked > 0]
      /\ UNCHANGED <<chip, buf, heard, want, met>>
  BY DEF OffLocked
<1>2. PICK m \in Points : Step("off_locked?", p[c], m) /\ Onto(p, c, more, m)
  BY <1>1, Before_
<1>3. p[c] = "free" /\ m = "free"
  BY <1>2 DEF Step, Calls, Inner, Parting
<1> DEFINE a == IF c = "main" THEN m ELSE p["main"]
           b == IF c = "isr" THEN m ELSE p["isr"]
<1>4. /\ drv \in Drivers /\ drv.locked = Took(p["main"]) + Took(p["isr"])
      /\ ~ met.release => LeftBehind(p["main"])
      /\ c = "main" => p["isr"] = "free" /\ todo'["isr"] = << >>
      /\ c = "isr" => todo["isr"] # << >>
      /\ p["main"] \in Points /\ p["isr"] \in Points
  BY <1>1, Before_
<1>5. drv.locked = Took(a) + Took(b)
  BY <1>3, <1>4 DEF Took, Contexts
<1>6. /\ drv' \in Drivers /\ drv'.locked = Took(a) + Took(b)
      /\ drv'.polled = drv.polled /\ drv'.lock_on = drv.lock_on
      /\ drv'.lock_off => drv.lock_off \/ drv.locked > 0
  BY <1>1, <1>4, <1>5 DEF Drivers
<1>7. ~ met.release => LeftBehind(a)'
  <2>1. CASE c = "main"
    <3>1. ~ drv.locked > 0
      BY <1>3, <1>4, <2>1 DEF Took
    <3> QED BY <1>3, <1>4, <1>6, <2>1, <3>1 DEF LeftBehind
  <2>2. CASE c = "isr"
    <3>1. drv.locked > 0 => p["main"] # "free"
      BY <1>3, <1>4, <2>2 DEF Took
    <3> QED BY <1>3, <1>4, <1>6, <2>2, <3>1 DEF LeftBehind
  <2> QED BY <2>1, <2>2 DEF Contexts
<1>8. /\ Path(more, m, m) /\ "off_locked?" \notin Reading
      /\ want' \in {"on", "off"}
  BY <1>1, <1>3, BodyPath, PathNothing, Types DEF Reading
<1>9. /\ a = (IF c = "main" THEN m ELSE p["main"])
      /\ b = (IF c = "isr" THEN m ELSE p["isr"])
  OBVIOUS
<1>10. Do(c, "off_locked?", more) /\ Onto(p, c, more, m)
  BY <1>1, <1>2
<1>11. UNCHANGED <<chip, buf, heard, met>>
  BY <1>1
<1> HIDE DEF a, b, more
<1> QED BY <1>6, <1>7, <1>8, <1>9, <1>10, <1>11, Shifts

LEMMA CallStep ==
  ASSUME NEW p, TypeOK, Sound(p), Notice, NEW c \in Contexts,
         CallOn(c) \/ CallOff(c)
  PROVE  LockInv'
<1>1. /\ \E s \in {"cc2420_on", "cc2420_off"} :
           \E more \in {<< >>, <<"on_locked?">>, <<"off_locked?">>} :
             Do(c, s, more)
      /\ want' \in {"on", "off"}
      /\ UNCHANGED <<drv, chip, buf, heard, met>>
  BY DEF CallOn, CallOff
<1>2. PICK s \in {"cc2420_on", "cc2420_off"},
           more \in {<< >>, <<"on_locked?">>, <<"off_locked?">>} :
        Do(c, s, more)
  BY <1>1
<1>3. s \in Calls /\ s \notin Reading
  BY DEF Calls, Reading
<1>4. Path(more, "free", "free")
  BY CallPath, PathNothing DEF Calls, Points
<1>5. Body_(s, more) /\ more \in Seq(Words)
  BY <1>3, <1>4, Bodies
<1>6. /\ drv' = drv /\ chip' = chip /\ buf' = buf /\ heard' = heard
      /\ met' = met
  BY <1>1
<1> QED BY <1>1, <1>2, <1>3, <1>5, <1>6, Keeps, Types

\* All statements that either context may execute.
LEMMA StatementStep ==
  ASSUME NEW p, TypeOK, Sound(p), Notice, NEW c \in Contexts, Statement(c)
  PROVE  LockInv'
<1>1. CASE CallOn(c) \/ CallOff(c)
  BY <1>1, CallStep
<1>2. CASE OnLocked(c) \/ OffLocked(c)
  BY <1>2, OnLockedStep, OffLockedStep
<1>3. CASE \/ Lock(c) \/ TestLock(c) \/ DeferredOn(c) \/ DeferredOff(c)
           \/ ClearOn(c) \/ ClearOff(c) \/ Unlock(c)
  BY <1>3, LockStep, TestLockStep, DeferredOnStep, DeferredOffStep,
     ClearOnStep, ClearOffStep, UnlockStep
<1>4. CASE \/ Select(c) \/ Enable(c) \/ StrobeOn(c) \/ SetOn(c)
           \/ SetOff(c) \/ StrobeOff(c) \/ Disable(c) \/ Flush(c)
  BY <1>4, ChipStatements
<1> QED BY <1>1, <1>2, <1>3, <1>4 DEF Statement

-----------------------------------------------------------------------------
(* cc2420_prepare, cc2420_transmit.                                        *)

LEMMA SendStep ==
  ASSUME NEW p, TypeOK, Sound(p), Notice,
         Copy \/ Write \/ Transmit \/ Collide \/ NeverStarts
  PROVE  LockInv'
<1>1. /\ drv \in Drivers /\ chip \in Chip /\ "isr" \in Contexts
      /\ buf \in Bufs /\ heard \in 0 .. MaxFrames /\ want \in {"on", "off"}
      /\ met \in Mets
  BY Types DEF Contexts
<1>2. /\ "write" \in Inner \ Reading /\ "transmit" \in Parting \ Reading
      /\ "copy" \in Calls \ Reading
  BY DEF Inner, Parting, Reading, Calls
<1>3. CASE Copy
  <2>1. /\ Do("isr", "copy", << >>)
        /\ buf' = [buf EXCEPT !.frame = Own, !.stamp = None]
        /\ UNCHANGED <<drv, chip, heard, want, met>>
    BY <1>3 DEF Copy
  <2>2. Own \in 0 .. Noise /\ None \in 0 .. MaxFrames
    BY DEF Own, Noise, None
  <2>3. buf' \in Bufs
    BY <1>1, <2>1, <2>2 DEF Bufs
  <2>4. Body_("copy", << >>) /\ << >> \in Seq(Words)
    BY <1>2, Bodies
  <2>5. /\ Do("isr", "copy", << >>) /\ drv' = drv /\ chip' = chip
        /\ heard' = heard /\ want' = want /\ met' = met
    BY <2>1
  <2> QED BY <1>1, <1>2, <2>3, <2>4, <2>5, Keeps
<1>4. CASE Write
  <2>1. Plain("isr", "write", drv, Deselected(chip))
    BY <1>4 DEF Write
  <2>2. /\ Deselected(chip) \in Chip /\ FIFOP(Deselected(chip)) = FIFOP(chip)
        /\ Deselected(chip).ifg = chip.ifg
    BY <1>1, ChipOperations
  <2> QED BY <1>1, <1>2, <2>1, <2>2, Assigns
<1>5. CASE Transmit
  <2> DEFINE more == (IF drv.receive_on THEN << >> ELSE Off) \o Exit("sent")
             i == CutOff(chip)
             j == Deselected(i)
  <2>1. /\ Do("isr", "transmit", more)
        /\ chip' = [j EXCEPT !.rx = TRUE]
        /\ UNCHANGED <<drv, buf, heard, want, met>>
    BY <1>5 DEF Transmit
  <2>2. /\ i \in Chip /\ (FIFOP(i) => FIFOP(chip)) /\ i.ifg = chip.ifg
    BY <1>1, ChipOperations
  <2> HIDE DEF i
  <2>3. /\ j \in Chip /\ FIFOP(j) = FIFOP(i) /\ j.ifg = i.ifg
    BY <2>2, ChipOperations
  <2> HIDE DEF j
  <2>4. chip' \in Chip /\ FIFOP(chip') = FIFOP(j) /\ chip'.ifg = j.ifg
    BY <2>1, <2>3 DEF Chip, Chips, FIFOP
  <2>5. Path(more, "held", "free")
    <3>1. Path(<< >>, "held", "held")
      BY PathNothing DEF Points
    <3>2. Path(<< >> \o Exit("sent"), "held", "free")
      BY <3>1, ExitPath, PathJoin
    <3> QED BY <3>2, ExitPath
  <2> HIDE DEF more
  <2>6. Body_("transmit", more) /\ more \in Seq(Words)
    BY <1>2, <2>5, Bodies
  <2>7. /\ Do("isr", "transmit", more) /\ drv' = drv /\ buf' = buf
        /\ heard' = heard /\ want' = want /\ met' = met
    BY <2>1
  <2> QED BY <1>1, <1>2, <2>2, <2>3, <2>4, <2>6, <2>7, Keeps
<1>6. CASE Collide \/ NeverStarts
  <2>1. PICK way : Do("isr", "transmit", Exit(way))
    BY <1>6 DEF Collide, NeverStarts
  <2>2. /\ chip' = Deselected(chip) /\ drv' = drv /\ buf' = buf
        /\ heard' = heard /\ want' = want /\ met' = met
    BY <1>6 DEF Collide, NeverStarts
  <2>3. /\ Deselected(chip) \in Chip /\ FIFOP(Deselected(chip)) = FIFOP(chip)
        /\ Deselected(chip).ifg = chip.ifg
    BY <1>1, ChipOperations
  <2>4. Body_("transmit", Exit(way)) /\ Exit(way) \in Seq(Words)
    BY <1>2, ExitPath, Bodies
  <2> QED BY <1>1, <1>2, <2>1, <2>2, <2>3, <2>4, Keeps
<1> QED BY <1>3, <1>4, <1>5, <1>6

-----------------------------------------------------------------------------
(* cc2420_process and cc2420_read.                                         *)

\* What a statement puts in front is to be done next.
LEMMA Ahead ==
  ASSUME NEW p, TypeOK, Sound(p), NEW s, NEW more, Do("main", s, more),
         more \in Seq(Words), NEW i \in 1 .. Len(more), NEW W, more[i] \in W
  PROVE  Before("main", W)'
<1>1. /\ todo["main"] \in Seq(Words) /\ todo["main"] # << >>
      /\ todo'["main"] = more \o Tail(todo["main"])
  BY DEF Sound, Path, Do, Contexts, TypeOK
<1> DEFINE t == Tail(todo["main"])
           l == more \o t
<1>2. t \in Seq(Words)
  BY <1>1, HeadTailProperties
<1> HIDE DEF t
<1>3. /\ Len(l) = Len(more) + Len(t) /\ Len(more) \in Nat /\ Len(t) \in Nat
      /\ l[i] = more[i]
  <2>1. more \in Seq(Words) /\ t \in Seq(Words)
    BY <1>2
  <2> QED BY <2>1, ConcatProperties
<1> HIDE DEF l
<1>4. todo'["main"] = l
  BY <1>1 DEF l, t
<1>5. i \in 1 .. Len(l)
  BY <1>3
<1> QED BY <1>3, <1>4, <1>5 DEF Before

LEMMA ClearStep ==
  ASSUME NEW p, TypeOK, Sound(p), Notice, Clear
  PROVE  LockInv'
<1>1. /\ Do("main", "clear", << >>)
      /\ buf' = [frame |-> None, stamp |-> drv.last, len |-> None]
      /\ UNCHANGED <<drv, chip, heard, want, met>>
  BY DEF Clear
<1>2. /\ drv \in Drivers /\ chip \in Chip /\ "main" \in Contexts
      /\ heard \in 0 .. MaxFrames /\ want \in {"on", "off"} /\ met \in Mets
  BY Types DEF Contexts
<1>3. buf' \in Bufs
  BY <1>1, <1>2 DEF Bufs, Drivers, None, Noise
<1>4. "clear" \in Calls \ Reading
  BY DEF Calls, Reading
<1>5. Body_("clear", << >>) /\ << >> \in Seq(Words)
  BY <1>4, Bodies
<1>6. /\ Do("main", "clear", << >>) /\ drv' = drv /\ chip' = chip
      /\ heard' = heard /\ want' = want /\ met' = met
  BY <1>1
<1> QED BY <1>2, <1>3, <1>4, <1>5, <1>6, Keeps

LEMMA InputStep ==
  ASSUME NEW p, TypeOK, Sound(p), Notice, Input
  PROVE  LockInv'
<1>1. PICK more \in {<< >>, <<"cc2420_off">>} : Do("main", "input", more)
  BY DEF Input
<1>2. UNCHANGED <<drv, chip, buf, heard, want, met>>
  BY DEF Input
<1>3. "input" \in Calls \ Reading /\ "main" \in Contexts
  BY DEF Calls, Reading, Contexts
<1>4. Path(more, "free", "free")
  BY CallPath, PathNothing DEF Calls, Points
<1>5. Body_("input", more) /\ more \in Seq(Words)
  BY <1>3, <1>4, Bodies
<1>6. /\ drv' = drv /\ chip' = chip /\ buf' = buf /\ heard' = heard
      /\ want' = want /\ met' = met
  BY <1>2
<1> QED BY <1>1, <1>3, <1>5, <1>6, Keeps, Types

LEMMA ReadStep ==
  ASSUME NEW p, TypeOK, Sound(p), Notice, Read
  PROVE  LockInv'
<1> DEFINE t == <<"lock", "select", "length">>
           more == IF FIFOP(chip) THEN t ELSE << >>
<1>1. /\ Do("main", "read", more)
      /\ UNCHANGED <<drv, chip, buf, heard, want, met>>
  BY DEF Read, Branch
<1>2. "read" \in Calls /\ "main" \in Contexts
  BY DEF Calls, Contexts
<1>3. Path(more, "free", "free")
  BY BodyPath, PathNothing DEF Points
<1>4. Body_("read", more) /\ more \in Seq(Words)
  BY <1>2, <1>3, Bodies
<1>5. FIFOP(chip) => /\ 3 \in 1 .. Len(more) /\ more[3] \in Reading
  <2>1. Len(t) = 3 /\ t[3] = "length"
    OBVIOUS
  <2> HIDE DEF t
  <2>2. FIFOP(chip) => more = t
    OBVIOUS
  <2> QED BY <2>1, <2>2 DEF Reading
<1> HIDE DEF more, t
<1>6. Sound(p)'
  BY <1>1, <1>2, <1>4, Goes
<1>7. Notice'
  <2>1. CASE FIFOP(chip)
    <3>1. Before("main", Reading)'
      BY <1>1, <1>4, <1>5, <2>1, Ahead
    <3> QED BY <3>1 DEF Notice
  <2>2. CASE ~ FIFOP(chip)
    BY <1>1, <2>2 DEF Notice
  <2> QED BY <2>1, <2>2
<1>8. TypeOK'
  <2>1. DOMAIN todo' = Contexts
    BY <1>1, <1>2, Moves
  <2> QED BY <1>1, <2>1, Types, TypesNext
<1> QED BY <1>6, <1>7, <1>8 DEF LockInv

LEMMA LengthStep ==
  ASSUME NEW p, TypeOK, Sound(p), Notice, Length \/ BadLength
  PROVE  LockInv'
<1>1. /\ drv \in Drivers /\ chip \in Chip /\ buf \in Bufs
      /\ heard \in 0 .. MaxFrames /\ want \in {"on", "off"} /\ met \in Mets
      /\ "main" \in Contexts /\ "length" \in Parting
  BY Types DEF Contexts, Parting
<1>2. 3 \in 1 .. Len(ReadBody) /\ ReadBody[3] \in Reading
  BY ExitPath DEF Reading
<1>3. /\ Body_("length", ReadBody) /\ ReadBody \in Seq(Words)
      /\ \A way : Body_("length", Exit(way))
  BY <1>1, ExitPath, Bodies
<1>4. UNCHANGED <<drv, heard, want, met>>
  BY DEF Length, BadLength
<1>5. /\ Deselected(chip) \in Chip /\ Deselected(flushrx(chip)) \in Chip
      /\ ~ FIFOP(Deselected(flushrx(chip)))
  BY <1>1, ChipOperations
<1>6. /\ \/ Do("main", "length", ReadBody)
         \/ /\ \E way : Do("main", "length", Exit(way))
            /\ ~ FIFOP(chip')
      /\ chip' \in Chip
  <2>1. CASE Length
    BY <1>5, <2>1 DEF Length
  <2>2. CASE BadLength
    BY <1>5, <2>2 DEF BadLength
  <2> QED BY <2>1, <2>2
<1>7. buf' \in Bufs
  <2>1. CASE Length
    <3>1. chip.fifo \in Seq(1 .. Rest) /\ chip.fifo # << >>
      BY <1>1, <2>1 DEF Length, InStep, Chip, Chips
    <3>2. Head(chip.fifo) \in 1 .. Rest /\ Head(chip.fifo) # Rest
      BY <2>1, <3>1, HeadTailProperties DEF Length, InStep
    <3>3. Head(chip.fifo) \in 0 .. MaxFrames
      BY <3>2 DEF Rest
    <3>4. buf' = [buf EXCEPT !.len = Head(chip.fifo)]
      BY <2>1 DEF Length
    <3> QED BY <1>1, <3>3, <3>4 DEF Bufs
  <2>2. CASE BadLength
    BY <1>1, <2>2 DEF BadLength
  <2> QED BY <2>1, <2>2
<1>8. Sound(p)'
  <2>1. /\ drv'.locked = drv.locked /\ drv'.lock_on = drv.lock_on
        /\ drv'.lock_off = drv.lock_off /\ met'.release = met.release
    BY <1>4
  <2> QED BY <1>1, <1>3, <1>6, <2>1, Goes
<1>9. Notice'
  <2>1. CASE Do("main", "length", ReadBody)
    <3>1. Before("main", Reading)'
      BY <1>2, <1>3, <2>1, Ahead
    <3> QED BY <3>1 DEF Notice
  <2>2. CASE ~ FIFOP(chip')
    BY <2>2 DEF Notice
  <2> QED BY <1>6, <2>1, <2>2
<1>10. TypeOK'
  <2>1. DOMAIN todo' = Contexts
    BY <1>1, <1>6, Moves
  <2> QED BY <1>1, <1>4, <1>6, <1>7, <2>1, TypesNext
<1> QED BY <1>8, <1>9, <1>10 DEF LockInv

\* A frame is taken from the FIFO, or as many bytes as one.
LEMMA BodyStep ==
  ASSUME NEW p, TypeOK, Sound(p), Notice, Body \/ BadBody
  PROVE  LockInv'
<1>1. /\ drv \in Drivers /\ chip \in Chip /\ buf \in Bufs
      /\ heard \in 0 .. MaxFrames /\ want \in {"on", "off"} /\ met \in Mets
      /\ "main" \in Contexts /\ "body" \in Inner \ Reading
  BY Types DEF Contexts, Inner, Reading
<1>2. Do("main", "body", << >>) /\ UNCHANGED <<drv, heard, want, met>>
  BY DEF Body, BadBody
<1>3. Body_("body", << >>) /\ << >> \in Seq(Words)
  BY <1>1, Bodies
<1>4. buf' \in Bufs
  <2>1. PICK f \in {buf.len, Noise, None} : buf' = [buf EXCEPT !.frame = f]
    BY DEF Body, BadBody
  <2>2. buf.len \in 0 .. Noise /\ Noise \in 0 .. Noise /\ None \in 0 .. Noise
    BY <1>1 DEF Bufs, Noise, None
  <2> QED BY <1>1, <2>1, <2>2 DEF Bufs
<1> DEFINE q == chip.fifo
<1>5. q \in Seq(1 .. Rest) /\ Len(q) <= Room /\ Rest \in 1 .. Rest
  BY <1>1 DEF Chip, Chips, Rest
<1>6. PICK fifo : /\ \/ fifo = q /\ q = << >>
                     \/ q # << >> /\ fifo = Tail(q)
                     \/ q # << >> /\ fifo = <<Rest>> \o Tail(q)
                  /\ chip' \in Raised([Deselected(chip) EXCEPT !.fifo = fifo])
  <2>1. CASE Body
    <3>1. chip' \in Raised([Deselected(chip) EXCEPT
                              !.fifo = Tail(Deselected(chip).fifo)])
          /\ q # << >>
      BY <2>1 DEF Body, InStep
    <3>2. Deselected(chip).fifo = q
      BY <1>1 DEF Deselected, Chip, Chips
    <3> QED BY <3>1, <3>2
  <2>2. CASE BadBody
    BY <2>2 DEF BadBody
  <2> QED BY <2>1, <2>2
<1>7. /\ fifo \in Seq(1 .. Rest) /\ Len(fifo) <= Room
      /\ (\E i \in DOMAIN fifo : fifo[i] # Rest)
           => \E i \in DOMAIN q : q[i] # Rest
  <2>1. CASE fifo = q
    BY <1>5, <2>1
  <2>2. CASE q # << >> /\ fifo = Tail(q)
    <3>1. /\ fifo \in Seq(1 .. Rest) /\ Len(fifo) = Len(q) - 1
          /\ \A i \in 1 .. Len(fifo) : fifo[i] = q[i + 1]
      BY <1>5, <2>2, HeadTailProperties
    <3>2. Len(q) \in Nat /\ DOMAIN fifo = 1 .. Len(q) - 1
          /\ DOMAIN q = 1 .. Len(q)
      BY <1>5, <3>1
    <3>3. \A i \in DOMAIN fifo : i + 1 \in DOMAIN q /\ fifo[i] = q[i + 1]
      BY <3>1, <3>2
    <3>4. Len(fifo) <= Room
      BY <1>5, <3>1, <3>2
    <3>5. (\E i \in DOMAIN fifo : fifo[i] # Rest)
            => \E i \in DOMAIN q : q[i] # Rest
      <4> SUFFICES ASSUME NEW i \in DOMAIN fifo, fifo[i] # Rest
                   PROVE  \E j \in DOMAIN q : q[j] # Rest
        OBVIOUS
      <4>1. i + 1 \in DOMAIN q /\ q[i + 1] # Rest
        BY <3>3
      <4> QED BY <4>1
    <3> QED BY <3>1, <3>4, <3>5
  <2>3. CASE q # << >> /\ fifo = <<Rest>> \o Tail(q)
    <3> DEFINE t == Tail(q)
    <3>1. /\ t \in Seq(1 .. Rest) /\ Len(t) = Len(q) - 1
          /\ \A i \in 1 .. Len(t) : t[i] = q[i + 1]
      BY <1>5, <2>3, HeadTailProperties
    <3>2. /\ <<Rest>> \in Seq(1 .. Rest) /\ Len(<<Rest>>) = 1
          /\ <<Rest>>[1] = Rest
      BY <1>5
    <3> HIDE DEF t
    <3>3. fifo = <<Rest>> \o t
      BY <2>3 DEF t
    <3>4. /\ fifo \in Seq(1 .. Rest) /\ Len(fifo) = 1 + Len(t)
          /\ fifo[1] = Rest
          /\ \A i \in 1 .. Len(t) : fifo[i + 1] = t[i]
      BY <3>1, <3>2, <3>3, ConcatProperties
    <3>5. Len(q) \in Nat /\ DOMAIN fifo = 1 .. Len(q) /\ DOMAIN q = 1 .. Len(q)
      BY <1>5, <3>1, <3>4
    <3>6. \A i \in DOMAIN fifo : i # 1 => fifo[i] = q[i]
      <4> SUFFICES ASSUME NEW i \in DOMAIN fifo, i # 1 PROVE fifo[i] = q[i]
        OBVIOUS
      <4>1. i - 1 \in 1 .. Len(t) /\ (i - 1) + 1 = i
        BY <3>1, <3>5
      <4>2. fifo[(i - 1) + 1] = t[i - 1] /\ t[i - 1] = q[(i - 1) + 1]
        BY <3>1, <3>4, <4>1
      <4> QED BY <4>1, <4>2
    <3>7. \A i \in DOMAIN fifo :
            fifo[i] # Rest => i \in DOMAIN q /\ q[i] # Rest
      BY <3>4, <3>5, <3>6
    <3> QED BY <1>5, <3>1, <3>4, <3>5, <3>7
  <2> QED BY <1>6, <2>1, <2>2, <2>3
<1>8. /\ chip' \in Chip /\ (FIFOP(chip') => FIFOP(chip))
      /\ chip.ifg => chip'.ifg
  <2>1. Deselected(chip) \in Chip /\ Deselected(chip).ifg = chip.ifg
        /\ Deselected(chip).over = chip.over
    BY <1>1, ChipOperations DEF Deselected, Chip, Chips
  <2> DEFINE j == Deselected(chip)
             k == [j EXCEPT !.fifo = fifo]
  <2> HIDE DEF j
  <2>2. /\ k \in Chips /\ k.fifo = fifo /\ k.ifg = chip.ifg
        /\ k.over = chip.over
    BY <1>7, <2>1 DEF j, Chip, Chips
  <2>3. chip' \in Raised(k)
    BY <1>6 DEF j
  <2> HIDE DEF k
  <2>4. PICK edge \in Edges :
          chip' = [k EXCEPT !.ifg = @ \/ (edge /\ FIFOP(k))]
    BY <2>3 DEF Raised
  <2>5. edge \in BOOLEAN /\ FIFOP(k) \in BOOLEAN
    BY DEF FIFOP
  <2>6. /\ chip' \in Chips /\ chip'.fifo = fifo /\ chip'.over = chip.over
        /\ chip.ifg => chip'.ifg
    BY <2>2, <2>4, <2>5 DEF Chips
  <2> QED BY <1>7, <2>6 DEF Chip, FIFOP
<1>9. drv' = drv /\ heard' = heard /\ want' = want /\ met' = met
  BY <1>2
<1> QED BY <1>1, <1>2, <1>3, <1>4, <1>8, <1>9, Keeps

LEMMA AgainStep ==
  ASSUME NEW p, TypeOK, Sound(p), Notice, Again
  PROVE  LockInv'
<1>1. /\ drv \in Drivers /\ chip \in Chip
      /\ "main" \in Contexts /\ "again" \in Inner
  BY Types DEF Contexts, Inner
<1>2. /\ Do("main", "again", << >>)
      /\ drv' = [drv EXCEPT !.polled = @ \/ (FIFOP(chip) /\ ~chip.over)]
      /\ chip' = IF chip.over THEN Deselected(flushrx(chip)) ELSE chip
      /\ UNCHANGED <<buf, heard, want, met>>
  BY DEF Again, Plain
<1>3. /\ drv' \in Drivers /\ drv'.locked = drv.locked
      /\ drv'.lock_on = drv.lock_on /\ drv'.lock_off = drv.lock_off
      /\ FIFOP(chip) /\ ~chip.over => drv'.polled
  <2>1. FIFOP(chip) \in BOOLEAN /\ chip.over \in BOOLEAN
    BY <1>1 DEF FIFOP, Chip, Chips
  <2> QED BY <1>1, <1>2, <2>1 DEF Drivers
<1>4. chip' \in Chip /\ (chip.over => ~ FIFOP(chip'))
  BY <1>1, <1>2, ChipOperations
<1>5. Notice'
  BY <1>2, <1>3, <1>4 DEF Notice
<1>6. Body_("again", << >>)
  BY <1>1, Bodies
<1>7. Do("main", "again", << >>) /\ met' = met
  BY <1>2
<1>8. Sound(p)'
  BY <1>1, <1>3, <1>6, <1>7, Goes
<1>9. TypeOK'
  <2>1. DOMAIN todo' = Contexts
    BY <1>1, <1>7, Moves
  <2> QED BY <1>2, <1>3, <1>4, <2>1, Types, TypesNext
<1> QED BY <1>5, <1>8, <1>9 DEF LockInv

-----------------------------------------------------------------------------
(* Calls of the main loop, and interrupts.                                 *)

\* The lock is left alone.
LEMMA Quiet ==
  ASSUME NEW p, Sound(p), todo' = todo,
         drv'.locked = drv.locked, drv'.lock_on = drv.lock_on,
         drv'.lock_off = drv.lock_off, met'.release = met.release
  PROVE  Sound(p)'
  BY DEF Sound, LeftBehind

\* A call begins in a context that has nothing else to do.
LEMMA Begins ==
  ASSUME NEW p, TypeOK, Sound(p), NEW c \in Contexts, todo[c] = << >>,
         NEW call, Path(call, "free", "free"),
         todo' = [todo EXCEPT ![c] = call],
         drv'.locked = drv.locked, drv'.lock_on = drv.lock_on,
         drv'.lock_off = drv.lock_off,
         c = "main" => todo["isr"] = << >>,
         ~ met'.release =>
           /\ ~ met.release
           /\ c = "isr" => p["main"] \in {"free", "held", "on?"}
  PROVE  /\ Sound(p)' /\ DOMAIN todo' = Contexts /\ todo'[c] = call
         /\ \A d \in Contexts \ {c} : todo'[d] = todo[d]
<1>1. /\ DOMAIN todo = Contexts /\ p \in [Contexts -> Points]
      /\ \A d \in Contexts : Path(todo[d], p[d], "free")
      /\ drv.locked = Took(p["main"]) + Took(p["isr"])
      /\ ~ met.release => LeftBehind(p["main"])
  BY DEF TypeOK, Sound, Contexts
<1>2. /\ DOMAIN todo' = Contexts /\ todo'[c] = call
      /\ \A d \in Contexts \ {c} : todo'[d] = todo[d]
  BY <1>1
<1>3. p[c] = "free"
  <2>1. Path(<< >>, p[c], "free") /\ p[c] \in Points
    BY <1>1
  <2> QED BY <2>1, PathNothing
<1>4. \A d \in Contexts : Path(todo'[d], p[d], "free")
  BY <1>1, <1>2, <1>3
<1>5. ~ met'.release => LeftBehind(p["main"])'
  <2>1. CASE c = "main"
    <3>1. todo'["isr"] = << >>
      BY <1>2, <2>1 DEF Contexts
    <3> QED BY <1>1, <3>1 DEF LeftBehind
  <2>2. CASE c = "isr"
    BY <1>1, <2>2 DEF LeftBehind
  <2> QED BY <2>1, <2>2 DEF Contexts
<1>6. Sound(p)'
  BY <1>1, <1>4, <1>5 DEF Sound
<1> QED BY <1>2, <1>6

LEMMA PollStep ==
  ASSUME NEW p, TypeOK, Sound(p), Notice, Poll
  PROVE  LockInv'
<1> DEFINE call == <<"clear", "read", "input">>
<1>1. /\ drv \in Drivers /\ chip \in Chip /\ buf \in Bufs
      /\ heard \in 0 .. MaxFrames /\ want \in {"on", "off"} /\ met \in Mets
      /\ "main" \in Contexts
  BY Types DEF Contexts
<1>2. /\ todo["main"] = << >> /\ todo["isr"] = << >>
      /\ drv' = [drv EXCEPT !.polled = FALSE]
      /\ todo' = [todo EXCEPT !["main"] = call]
      /\ met' = [met EXCEPT !.again = FALSE]
      /\ UNCHANGED <<chip, buf, heard, want>>
  BY DEF Poll
<1>3. /\ drv' \in Drivers /\ drv'.locked = drv.locked
      /\ drv'.lock_on = drv.lock_on /\ drv'.lock_off = drv.lock_off
      /\ met' \in Mets /\ met'.release = met.release
  BY <1>1, <1>2 DEF Drivers, Mets
<1>4. Path(call, "free", "free")
  BY CallPath
<1>5. Len(call) = 3 /\ call[2] \in Reading
  BY DEF Reading
<1> HIDE DEF call
<1>6. Sound(p)' /\ DOMAIN todo' = Contexts /\ todo'["main"] = call
  <2>1. /\ todo["main"] = << >> /\ todo["isr"] = << >>
        /\ todo' = [todo EXCEPT !["main"] = call]
    BY <1>2
  <2> QED BY <1>1, <1>3, <1>4, <2>1, Begins
<1>7. Notice'
  BY <1>5, <1>6 DEF Notice, Before
<1>8. TypeOK'
  BY <1>1, <1>2, <1>3, <1>6, TypesNext
<1> QED BY <1>6, <1>7, <1>8 DEF LockInv

LEMMA CallbackStep ==
  ASSUME NEW p, TypeOK, Sound(p), Notice, Callback
  PROVE  LockInv'
<1>1. /\ drv \in Drivers /\ chip \in Chip /\ buf \in Bufs
      /\ heard \in 0 .. MaxFrames /\ want \in {"on", "off"} /\ met \in Mets
      /\ "main" \in Contexts
  BY Types DEF Contexts
<1>2. PICK x \in {"cc2420_on", "cc2420_off"} :
        todo' = [todo EXCEPT !["main"] = <<x>>]
  BY DEF Callback
<1>3. /\ todo["main"] = << >> /\ todo["isr"] = << >>
      /\ met' = [met EXCEPT !.again = FALSE]
      /\ UNCHANGED <<drv, chip, buf, heard, want>>
  BY DEF Callback
<1>4. met' \in Mets /\ met'.release = met.release
  BY <1>1, <1>3 DEF Mets
<1> DEFINE call == <<x>>
<1>5. Path(call, "free", "free")
  BY CallPath DEF Calls
<1> HIDE DEF call
<1>6. Sound(p)' /\ DOMAIN todo' = Contexts
  <2>1. /\ todo["main"] = << >> /\ todo["isr"] = << >>
        /\ todo' = [todo EXCEPT !["main"] = call]
    BY <1>2, <1>3 DEF call
  <2>2. /\ drv'.locked = drv.locked /\ drv'.lock_on = drv.lock_on
        /\ drv'.lock_off = drv.lock_off
    BY <1>3
  <2> QED BY <1>1, <1>4, <1>5, <2>1, <2>2, Begins
<1>7. Notice'
  <2>1. ~ Before("main", Reading)
    BY <1>3 DEF Before
  <2> QED BY <1>3, <2>1 DEF Notice
<1>8. TypeOK'
  BY <1>1, <1>3, <1>4, <1>6, TypesNext
<1> QED BY <1>6, <1>7, <1>8 DEF LockInv

\* A context behind the test of a flag is releasing the lock.
LEMMA Behind ==
  ASSUME NEW p, TypeOK, Sound(p), ~ Releasing
  PROVE  p["main"] \in {"free", "held", "on?"}
<1> DEFINE s == todo["main"]
           a == p["main"]
<1>1. Path(s, a, "free") /\ a \in Points
  BY DEF Sound, Contexts
<1>2. s \in Seq(Words) /\ DOMAIN s = 1 .. Len(s) /\ Len(s) \in Nat
  BY <1>1 DEF Path
<1>3. ~ /\ s # << >>
        /\ \/ Head(s) \in {"lock_off?", "lock_on=0", "lock_off=0", "unlock"}
           \/ \E i \in 1 .. Len(s) : s[i] \in {"lock_on=0", "lock_off=0"}
  BY DEF Releasing, Before
<1> HIDE DEF s, a
<1>4. CASE a \in {"off?", "rest"}
  <2>1. s # << >>
    <3>1. a # "free"
      BY <1>4
    <3> QED BY <1>1, <3>1, PathNothing
  <2>2. PICK m \in Points : Step(Head(s), a, m)
    BY <1>1, <2>1, PathHead
  <2>3. Head(s) \in {"lock_off?", "unlock"}
    BY <1>4, <2>2 DEF Step, Calls, Inner, Parting
  <2> QED BY <1>3, <2>1, <2>3
<1>5. CASE a \in {"on", "off"}
  <2>1. a # "free"
    BY <1>5
  <2>2. PICK i \in DOMAIN s : \E h \in [1 .. Len(s) + 1 -> Points] :
          (\A j \in 1 .. i : h[j] = a) /\ h[i + 1] # a /\ Walk(s, h)
    BY <1>1, <2>1, PathLeaves
  <2>3. PICK h \in [1 .. Len(s) + 1 -> Points] :
          (\A j \in 1 .. i : h[j] = a) /\ h[i + 1] # a /\ Walk(s, h)
    BY <2>2
  <2>4. i \in 1 .. Len(s) /\ h[i] = a /\ Step(s[i], h[i], h[i + 1])
    BY <1>2, <2>3 DEF Walk
  <2>5. s[i] \in {"lock_on=0", "lock_off=0"}
    BY <1>5, <2>3, <2>4 DEF Step, Calls, Inner, Parting
  <2>6. s # << >>
    BY <1>2, <2>4
  <2> QED BY <1>3, <2>4, <2>5, <2>6
<1>6. a \in {"free", "held", "on?"}
  BY <1>1, <1>4, <1>5 DEF Points, a
<1> QED BY <1>6 DEF a

LEMMA SlotStep ==
  ASSUME NEW p, TypeOK, Sound(p), Notice, SlotInterrupt
  PROVE  LockInv'
<1>1. /\ drv \in Drivers /\ chip \in Chip /\ buf \in Bufs
      /\ heard \in 0 .. MaxFrames /\ want \in {"on", "off"} /\ met \in Mets
      /\ "isr" \in Contexts
  BY Types DEF Contexts
<1>2. PICK call \in SlotCalls : todo' = [todo EXCEPT !["isr"] = call]
  BY DEF SlotInterrupt
<1>3. /\ todo["isr"] = << >> /\ UNCHANGED <<drv, chip, buf, heard, want>>
      /\ AllClear \/ met.slots < MaxMet
      /\ met' = [met EXCEPT !.slots = IF AllClear THEN @ ELSE @ + 1,
                            !.release = @ \/ Releasing,
                            !.again = todo["main"] # << >>]
  BY DEF SlotInterrupt
<1>4. met' \in Mets /\ (~ met'.release => ~ met.release /\ ~ Releasing)
  <2>1. Releasing \in BOOLEAN /\ (todo["main"] # << >>) \in BOOLEAN
    BY DEF Releasing
  <2>2. /\ met.slots \in 0 .. MaxMet /\ met.release \in BOOLEAN
        /\ AllClear \/ met.slots + 1 \in 0 .. MaxMet
    BY <1>1, <1>3 DEF Mets
  <2>3. met'.release = (met.release \/ Releasing)
    BY <1>1, <1>3 DEF Mets
  <2>4. met' \in Mets
    BY <1>1, <1>3, <2>1, <2>2 DEF Mets
  <2> QED BY <2>1, <2>2, <2>3, <2>4
<1>5. Path(call, "free", "free")
  BY CallPath
<1>6. /\ Sound(p)' /\ DOMAIN todo' = Contexts
      /\ \A d \in Contexts \ {"isr"} : todo'[d] = todo[d]
  <2>1. /\ drv'.locked = drv.locked /\ drv'.lock_on = drv.lock_on
        /\ drv'.lock_off = drv.lock_off /\ todo["isr"] = << >>
    BY <1>3
  <2>2. ~ met'.release =>
          ~ met.release /\ p["main"] \in {"free", "held", "on?"}
    BY <1>4, Behind
  <2> QED BY <1>1, <1>2, <1>5, <2>1, <2>2, Begins
<1>7. Notice'
  <2>1. todo'["main"] = todo["main"]
    BY <1>6 DEF Contexts
  <2> QED BY <1>3, <2>1 DEF Notice, Before
<1>8. TypeOK'
  BY <1>1, <1>3, <1>4, <1>6, TypesNext
<1> QED BY <1>6, <1>7, <1>8 DEF LockInv

LEMMA InterruptStep ==
  ASSUME NEW p, TypeOK, Sound(p), Notice, CaptureInterrupt \/ FifopInterrupt
  PROVE  LockInv'
<1>1. /\ drv \in Drivers /\ chip \in Chip /\ buf \in Bufs
      /\ heard \in 0 .. MaxFrames /\ want \in {"on", "off"} /\ met \in Mets
      /\ DOMAIN todo = Contexts
  BY Types
<1>2. UNCHANGED <<todo, buf, heard, want, met>>
  BY DEF CaptureInterrupt, FifopInterrupt
<1>3. /\ drv' \in Drivers /\ drv'.locked = drv.locked
      /\ drv'.lock_on = drv.lock_on /\ drv'.lock_off = drv.lock_off
      /\ chip' \in Chip /\ FIFOP(chip') = FIFOP(chip)
      /\ \/ drv'.polled = drv.polled /\ chip'.ifg = chip.ifg
         \/ drv'.polled
  <2>1. CASE CaptureInterrupt
    <3> DEFINE f == IF chip.air # None THEN chip.air ELSE drv.start
    <3>1. f \in 0 .. MaxFrames
      BY <1>1 DEF Drivers, Chip, Chips
    <3>2. /\ chip' = [chip EXCEPT !.capture = FALSE]
          /\ drv' = [drv EXCEPT !.start = f]
      BY <2>1 DEF CaptureInterrupt
    <3> HIDE DEF f
    <3>3. /\ drv' \in Drivers /\ drv'.locked = drv.locked
          /\ drv'.lock_on = drv.lock_on /\ drv'.lock_off = drv.lock_off
          /\ drv'.polled = drv.polled
      BY <1>1, <3>1, <3>2 DEF Drivers
    <3>4. chip' \in Chip /\ FIFOP(chip') = FIFOP(chip) /\ chip'.ifg = chip.ifg
      BY <1>1, <3>2 DEF Chip, Chips, FIFOP
    <3> QED BY <3>3, <3>4
  <2>2. CASE FifopInterrupt
    <3>1. /\ chip' = [chip EXCEPT !.ifg = FALSE]
          /\ drv' = [drv EXCEPT !.polled = TRUE, !.last = drv.start]
      BY <2>2 DEF FifopInterrupt
    <3>2. /\ drv' \in Drivers /\ drv'.locked = drv.locked
          /\ drv'.lock_on = drv.lock_on /\ drv'.lock_off = drv.lock_off
          /\ drv'.polled
      BY <1>1, <3>1 DEF Drivers
    <3>3. chip' \in Chip /\ FIFOP(chip') = FIFOP(chip)
      BY <1>1, <3>1 DEF Chip, Chips, FIFOP
    <3> QED BY <3>2, <3>3
  <2> QED BY <2>1, <2>2
<1>4. Sound(p)'
  <2>1. todo' = todo /\ met'.release = met.release
    BY <1>2
  <2> QED BY <1>3, <2>1, Quiet
<1>5. Notice'
  BY <1>2, <1>3 DEF Notice, Before
<1>6. TypeOK'
  BY <1>1, <1>2, <1>3, TypesNext
<1> QED BY <1>4, <1>5, <1>6 DEF LockInv

LEMMA FrameStep ==
  ASSUME NEW p, TypeOK, Sound(p), Notice, StartFrame \/ EndFrame
  PROVE  LockInv'
<1>1. /\ drv \in Drivers /\ chip \in Chip /\ buf \in Bufs
      /\ heard \in 0 .. MaxFrames /\ want \in {"on", "off"} /\ met \in Mets
      /\ DOMAIN todo = Contexts
  BY Types
<1>2. UNCHANGED <<drv, todo, buf, want>>
  BY DEF StartFrame, EndFrame
<1>3. heard' \in 0 .. MaxFrames /\ met' \in Mets /\ met'.release = met.release
  <2>1. CASE StartFrame
    <3>1. /\ heard < MaxFrames /\ heard' = heard + 1
          /\ todo["isr"] = << >> \/ met.slots < MaxMet
          /\ met' = [met EXCEPT
                       !.slots = IF todo["isr"] = << >> THEN @ ELSE @ + 1,
                       !.queue = @ \/ FIFOP(chip)]
      BY <2>1 DEF StartFrame
    <3>2. /\ met.slots \in 0 .. MaxMet /\ met.queue \in BOOLEAN
          /\ FIFOP(chip) \in BOOLEAN
          /\ todo["isr"] = << >> \/ met.slots + 1 \in 0 .. MaxMet
      BY <1>1, <3>1 DEF Mets, FIFOP
    <3>3. met' \in Mets /\ met'.release = met.release
      BY <1>1, <3>1, <3>2 DEF Mets
    <3> QED BY <1>1, <3>1, <3>3
  <2>2. CASE EndFrame
    BY <1>1, <2>2 DEF EndFrame
  <2> QED BY <2>1, <2>2
<1>4. /\ chip' \in Chip /\ (chip.ifg => chip'.ifg)
      /\ FIFOP(chip') => FIFOP(chip) \/ chip'.ifg
  <2>1. CASE StartFrame
    <3>1. heard + 1 \in 0 .. MaxFrames
      BY <1>1, <2>1 DEF StartFrame
    <3>2. chip' = [chip EXCEPT !.air = heard + 1, !.capture = TRUE]
      BY <2>1 DEF StartFrame
    <3>3. chip' \in Chip /\ FIFOP(chip') = FIFOP(chip) /\ chip'.ifg = chip.ifg
      BY <1>1, <3>1, <3>2 DEF Chip, Chips, FIFOP
    <3> QED BY <3>3
  <2>2. CASE EndFrame
    <3> DEFINE fits == Len(chip.fifo) < Room
               q == IF fits THEN Append(chip.fifo, chip.air) ELSE chip.fifo
               flag == chip.ifg \/ ~ FIFOP(chip)
    <3>1. /\ chip.air # None
          /\ chip' = [chip EXCEPT !.air = None, !.capture = TRUE,
                                  !.ifg = flag, !.over = ~ fits, !.fifo = q]
      BY <2>2 DEF EndFrame
    <3>2. /\ chip.fifo \in Seq(1 .. Rest) /\ Len(chip.fifo) <= Room
          /\ chip.air \in 1 .. Rest /\ Len(chip.fifo) \in Nat
      BY <1>1, <3>1 DEF Chip, Chips, None, Rest
    <3>3. q \in Seq(1 .. Rest) /\ Len(q) <= Room
      <4>1. CASE fits
        <5>1. q = Append(chip.fifo, chip.air)
          BY <4>1
        <5>2. /\ Append(chip.fifo, chip.air) \in Seq(1 .. Rest)
              /\ Len(Append(chip.fifo, chip.air)) = Len(chip.fifo) + 1
          BY <3>2, AppendProperties
        <5>3. Len(chip.fifo) + 1 <= Room
          BY <3>2, <4>1
        <5> QED BY <5>1, <5>2, <5>3
      <4>2. CASE ~ fits
        BY <3>2, <4>2
      <4> QED BY <4>1, <4>2
    <3>4. /\ flag \in BOOLEAN /\ (~ fits) \in BOOLEAN
          /\ None \in 0 .. MaxFrames
          /\ (chip.ifg => flag) /\ (FIFOP(chip) \/ flag)
      BY DEF None
    <3> HIDE DEF q, flag, fits
    <3>5. chip' \in Chips /\ chip'.fifo = q /\ chip'.ifg = flag
      <4>1. chip \in Chips
        BY <1>1 DEF Chip
      <4> QED BY <3>1, <3>3, <3>4, <4>1 DEF Chips
    <3> QED BY <3>3, <3>4, <3>5 DEF Chip
  <2> QED BY <2>1, <2>2
<1>5. Sound(p)'
  <2>1. /\ todo' = todo /\ drv'.locked = drv.locked
        /\ drv'.lock_on = drv.lock_on /\ drv'.lock_off = drv.lock_off
    BY <1>2
  <2> QED BY <1>3, <2>1, Quiet
<1>6. Notice'
  BY <1>2, <1>4 DEF Notice, Before
<1>7. TypeOK'
  BY <1>1, <1>2, <1>3, <1>4, TypesNext
<1> QED BY <1>5, <1>6, <1>7 DEF LockInv

-----------------------------------------------------------------------------
LEMMA LockInit == Init => LockInv
<1> SUFFICES ASSUME Init PROVE LockInv
  OBVIOUS
<1>1. TypeOK
  <2> DEFINE e == << >>
  <2>1. e \in Seq(1 .. Rest) /\ Len(e) = 0
    OBVIOUS
  <2> HIDE DEF e
  <2>2. chip = [rx |-> FALSE, air |-> None, fifo |-> e, over |-> FALSE,
                ie |-> FALSE, ifg |-> FALSE, capture |-> FALSE, csn |-> FALSE]
    BY DEF Init, e
  <2>3. chip \in Chip
    BY <2>1, <2>2 DEF Chip, Chips, None
  <2>4. /\ drv \in Drivers /\ DOMAIN todo = Contexts /\ buf \in Bufs
        /\ heard \in 0 .. MaxFrames /\ want \in {"on", "off"} /\ met \in Mets
    BY DEF Init, Drivers, Contexts, Bufs, Mets, None, Noise
  <2> QED BY <2>3, <2>4, Types
<1>2. Notice
  BY DEF Init, Notice, FIFOP
<1> DEFINE p == [c \in Contexts |-> "free"]
<1>3. p \in [Contexts -> Points] /\ p["main"] = "free" /\ p["isr"] = "free"
  BY DEF Contexts, Points
<1>4. \A c \in Contexts : todo[c] = << >> /\ p[c] = "free"
  BY DEF Init, Contexts
<1> HIDE DEF p
<1>5. \A c \in Contexts : Path(todo[c], p[c], "free")
  BY <1>4, PathNothing DEF Points
<1>6. /\ drv.locked = 0 /\ drv.lock_on = FALSE /\ drv.lock_off = FALSE
      /\ todo["isr"] = << >>
  BY DEF Init
<1>7. drv.locked = Took(p["main"]) + Took(p["isr"]) /\ LeftBehind(p["main"])
  BY <1>3, <1>6 DEF Took, LeftBehind
<1>8. Sound(p)
  BY <1>3, <1>5, <1>7 DEF Sound
<1> QED BY <1>1, <1>2, <1>8 DEF LockInv

LEMMA LockNext == LockInv /\ [Next]_vars => LockInv'
<1> SUFFICES ASSUME LockInv, [Next]_vars PROVE LockInv'
  OBVIOUS
<1>1. PICK p : TypeOK /\ Notice /\ Sound(p)
  BY DEF LockInv
<1>2. "main" \in Contexts /\ "isr" \in Contexts
  BY DEF Contexts
<1>3. CASE Statement("main") \/ Statement("isr")
  BY <1>1, <1>2, <1>3, StatementStep
<1>4. CASE Clear \/ Read \/ Input \/ Again
  BY <1>1, <1>4, ClearStep, ReadStep, InputStep, AgainStep
<1>5. CASE Length \/ BadLength \/ Body \/ BadBody
  BY <1>1, <1>5, LengthStep, BodyStep
<1>6. CASE Copy \/ Write \/ Transmit \/ Collide \/ NeverStarts
  BY <1>1, <1>6, SendStep
<1>7. CASE Poll \/ Callback \/ SlotInterrupt
  BY <1>1, <1>7, PollStep, CallbackStep, SlotStep
<1>8. CASE CaptureInterrupt \/ FifopInterrupt \/ StartFrame \/ EndFrame
  BY <1>1, <1>8, InterruptStep, FrameStep
<1>9. CASE UNCHANGED vars
  <2>1. /\ drv' = drv /\ chip' = chip /\ todo' = todo /\ buf' = buf
        /\ heard' = heard /\ want' = want /\ met' = met
    BY <1>9 DEF vars
  <2>2. Sound(p)'
    BY <1>1, <2>1, Quiet
  <2>3. TypeOK' /\ Notice'
    BY <1>1, <2>1, Types, TypesNext DEF Notice, Before
  <2> QED BY <2>2, <2>3 DEF LockInv
<1> QED
  BY <1>3, <1>4, <1>5, <1>6, <1>7, <1>8, <1>9 DEF Next, Main, Isr

LEMMA LockAlways == Spec => []LockInv
<1>1. Init => LockInv
  BY LockInit
<1>2. LockInv /\ [Next]_vars => LockInv'
  BY LockNext
<1> QED BY <1>1, <1>2, PTL DEF Spec

\* The contexts that hold the lock are those that stand inside of it.
LEMMA Holders ==
  ASSUME NEW p, TypeOK, Sound(p)
  PROVE  Cardinality({c \in DOMAIN todo : Holds(c)})
           = Took(p["main"]) + Took(p["isr"])
<1> DEFINE S == {c \in DOMAIN todo : Holds(c)}
<1>1. \A c \in Contexts : Holds(c) <=> p[c] # "free"
  <2> SUFFICES ASSUME NEW c \in Contexts PROVE Holds(c) <=> p[c] # "free"
    OBVIOUS
  <2>1. Path(todo[c], p[c], "free")
    BY DEF Sound
  <2> QED BY <2>1, PathHolds DEF Holds, Giving
<1>2. DOMAIN todo = Contexts
  BY Types
<1>3. /\ Cardinality({}) = 0
      /\ Cardinality({"main"}) = 1 /\ Cardinality({"isr"}) = 1
      /\ Cardinality({"main", "isr"}) = 2
  <2>1. Cardinality({}) = 0 /\ Cardinality({"main"}) = 1
        /\ Cardinality({"isr"}) = 1 /\ IsFiniteSet({"main"})
    BY FS_EmptySet, FS_Singleton
  <2>2. Cardinality({"main"} \cup {"isr"}) = 2
    <3>1. "isr" \notin {"main"}
      OBVIOUS
    <3>2. Cardinality({"main"} \cup {"isr"}) = Cardinality({"main"}) + 1
      BY <2>1, <3>1, FS_AddElement
    <3> QED BY <2>1, <3>2
  <2>3. {"main"} \cup {"isr"} = {"main", "isr"}
    OBVIOUS
  <2> QED BY <2>1, <2>2, <2>3
<1>4. CASE p["main"] = "free" /\ p["isr"] = "free"
  <2>1. S = {}
    BY <1>1, <1>2, <1>4 DEF Contexts
  <2> QED BY <1>3, <1>4, <2>1 DEF Took
<1>5. CASE p["main"] # "free" /\ p["isr"] = "free"
  <2>1. S = {"main"}
    BY <1>1, <1>2, <1>5 DEF Contexts
  <2> QED BY <1>3, <1>5, <2>1 DEF Took
<1>6. CASE p["main"] = "free" /\ p["isr"] # "free"
  <2>1. S = {"isr"}
    BY <1>1, <1>2, <1>6 DEF Contexts
  <2> QED BY <1>3, <1>6, <2>1 DEF Took
<1>7. CASE p["main"] # "free" /\ p["isr"] # "free"
  <2>1. S = {"main", "isr"}
    BY <1>1, <1>2, <1>7 DEF Contexts
  <2> QED BY <1>3, <1>7, <2>1 DEF Took
<1> QED BY <1>4, <1>5, <1>6, <1>7

-----------------------------------------------------------------------------
(* The radio.                                                              *)
(*                                                                         *)
(* What a context has in hand is a stage: "on0" to "on5" and "off0" to     *)
(* "off6" are in front of the statements of cc2420_on and cc2420_off,      *)
(* "read" to "read6" in front of those of cc2420_read, "poll" and          *)
(* "handing" before and after it, "slot" and "slot on" in the interrupt    *)
(* that sends.  A place is a point of the lock with a stage.               *)

Bases == {"none", "handing"}

Outside ==
  {"slot", "slot on", "on0", "on1", "off0", "off1", "poll", "read", "read1"}

Inside == {"read2", "read3", "read4", "read5", "read6"}
Oning == {"on2", "on3", "on4", "on5"}
Offing == {"off2", "off3", "off4", "off5", "off6"}

Stages == Bases \cup Outside \cup Inside \cup Oning \cup Offing

Fits(a, t) ==
  /\ t \in Outside => a = "free"
  /\ t \in Inside => a = "held"
  /\ t \in Oning => a \in {"held", "on"}
  /\ t \in Offing => a \in {"held", "off"}

Places == {z \in Points \X Stages : Fits(z[1], z[2])}

\* A statement at point a leads from stage t to stage n.
Turn(x, a, t, n) ==
  \/ x = "copy" /\ t = "slot" /\ n = "slot on"
  \/ x = "cc2420_on" /\ t \in {"slot on", "none"} /\ n = "none"
  \/ x = "cc2420_off" /\ t = "none" /\ n = "none"
  \/ x = "on_locked?" /\ t = "on0" /\ n = "none"
  \/ x = "off_locked?" /\ t = "off0" /\ n = "none"
  \/ x = "lock" /\ t = "on1" /\ n = "on2"
  \/ x = "lock" /\ t = "off1" /\ n = "off2"
  \/ x = "lock" /\ t = "read1" /\ n = "read2"
  \/ x \in Locking /\ t \in Bases /\ n = t
  \/ x = "enable" /\ t = "on2" /\ n = "on3"
  \/ x = "select" /\ t = "on3" /\ n = "on4"
  \/ x = "SRXON" /\ t = "on4" /\ n = "on5"
  \/ x = "receive_on" /\ t = "on5" /\ n \in Bases /\ (a = "held" => n = "none")
  \/ x = "receive_off" /\ t = "off2" /\ n = "off3"
  \/ x = "select" /\ t = "off3" /\ n = "off4"
  \/ x = "SRFOFF" /\ t = "off4" /\ n = "off5"
  \/ x = "disable" /\ t = "off5" /\ n = "off6"
  \/ x = "flush" /\ t = "off6" /\ n \in Bases /\ (a = "held" => n = "none")
  \/ x \in {"write", "transmit"} /\ a = "held" /\ t = "none" /\ n = "none"
  \/ x = "clear" /\ t = "poll" /\ n = "read"
  \/ x = "read" /\ t = "read" /\ n = "handing"
  \/ x = "select" /\ t = "read2" /\ n = "read3"
  \/ x = "length" /\ t = "read3" /\ n = "handing"
  \/ x = "select" /\ t = "read4" /\ n = "read5"
  \/ x = "body" /\ t = "read5" /\ n = "read6"
  \/ x = "again" /\ t = "read6" /\ n = "handing"
  \/ x = "input" /\ t = "handing" /\ n = "none"

Legs(x, y, z) == Step(x, y[1], z[1]) /\ Turn(x, y[1], y[2], z[2])

Turns == {r \in Words \X Places \X Places : Legs(r[1], r[2], r[3])}

Way(s, y, z) == Chain(Turns, Places, s, y, z)

Rested == <<"free", "none">>

LEMMA PlaceIs ==
  \A a, t : <<a, t>> \in Places <=> a \in Points /\ t \in Stages /\ Fits(a, t)
  BY DEF Places

LEMMA TurnsAre ==
  \A x \in Words : \A a, t, m, n :
    <<a, t>> \in Places /\ <<m, n>> \in Places =>
      (<<x, <<a, t>>, <<m, n>>>> \in Turns
         <=> Step(x, a, m) /\ Turn(x, a, t, n))
  BY DEF Turns, Legs

LEMMA WayOne ==
  ASSUME NEW x \in Words, NEW a, NEW t, NEW m, NEW n,
         <<a, t>> \in Places, <<m, n>> \in Places,
         Step(x, a, m), Turn(x, a, t, n)
  PROVE  Way(<<x>>, <<a, t>>, <<m, n>>)
<1>1. <<x, <<a, t>>, <<m, n>>>> \in Turns
  BY TurnsAre
<1> QED BY <1>1, ChainOne DEF Way

LEMMA WayNothing ==
  ASSUME NEW y \in Places
  PROVE  /\ Way(<< >>, y, y)
         /\ \A z : Way(<< >>, y, z) => y = z
  BY ChainNothing DEF Way

LEMMA WayJoin ==
  ASSUME NEW s, NEW t, NEW x, NEW y, NEW z, Way(s, x, y), Way(t, y, z)
  PROVE  Way(s \o t, x, z)
  BY ChainJoin DEF Way

\* A way is a walk through the points of the lock.
LEMMA WayPath ==
  ASSUME NEW s, NEW a, NEW t, NEW m, NEW n, Way(s, <<a, t>>, <<m, n>>)
  PROVE  Path(s, a, m)
<1>1. PICK h \in [1 .. Len(s) + 1 -> Places] :
        /\ h[1] = <<a, t>> /\ h[Len(s) + 1] = <<m, n>>
        /\ \A i \in 1 .. Len(s) : <<s[i], h[i], h[i + 1]>> \in Turns
  BY DEF Way, Chain
<1>2. s \in Seq(Words) /\ Len(s) \in Nat
  BY DEF Way, Chain
<1> DEFINE g == [i \in 1 .. Len(s) + 1 |-> h[i][1]]
<1>3. \A i \in 1 .. Len(s) + 1 : h[i] \in Places /\ h[i][1] \in Points
  BY <1>1 DEF Places
<1>4. /\ g \in [1 .. Len(s) + 1 -> Points]
      /\ \A i \in 1 .. Len(s) + 1 : g[i] = h[i][1]
  BY <1>3
<1>5. g[1] = a /\ g[Len(s) + 1] = m
  BY <1>1, <1>2, <1>4
<1> HIDE DEF g
<1>6. ASSUME NEW i \in 1 .. Len(s)
      PROVE  Step(s[i], g[i], g[i + 1])
  <2>1. Legs(s[i], h[i], h[i + 1])
    BY <1>1 DEF Turns
  <2>2. g[i] = h[i][1] /\ g[i + 1] = h[i + 1][1]
    BY <1>2, <1>4
  <2> QED BY <2>1, <2>2 DEF Legs
<1> QED BY <1>2, <1>4, <1>5, <1>6 DEF Path, Walk

\* There is one point of the lock from which a text leads out of it.
LEMMA PathUnique ==
  ASSUME NEW s, NEW a, NEW b, Path(s, a, "free"), Path(s, b, "free")
  PROVE  a = b
<1>1. PICK h \in [1 .. Len(s) + 1 -> Points] :
        h[1] = a /\ h[Len(s) + 1] = "free" /\ Walk(s, h)
  BY DEF Path
<1>2. PICK k \in [1 .. Len(s) + 1 -> Points] :
        k[1] = b /\ k[Len(s) + 1] = "free" /\ Walk(s, k)
  BY DEF Path
<1>3. Len(s) \in Nat
  BY DEF Path
<1>4. \A x, c, d, e : Step(x, c, e) /\ Step(x, d, e) => c = d
  BY DEF Step, Calls, Inner, Parting
<1> DEFINE L == {i \in 1 .. Len(s) + 1 : h[i] = k[i]}
<1>5. L \in SUBSET Nat /\ L # {}
  BY <1>1, <1>2, <1>3
<1>6. PICK m \in L : \A i \in L : ~ i < m
  BY <1>5, Least
<1>7. m \in 1 .. Len(s) + 1 /\ h[m] = k[m]
  BY <1>6
<1>8. ASSUME m # 1 PROVE FALSE
  <2>1. m - 1 \in 1 .. Len(s) /\ (m - 1) + 1 = m /\ m - 1 < m
    BY <1>3, <1>7, <1>8
  <2>2. Step(s[m - 1], h[m - 1], h[m]) /\ Step(s[m - 1], k[m - 1], k[m])
    BY <1>1, <1>2, <2>1 DEF Walk
  <2>3. h[m - 1] = k[m - 1]
    BY <1>4, <1>7, <2>2
  <2>4. m - 1 \in L
    BY <1>3, <2>1, <2>3
  <2> QED BY <1>6, <2>1, <2>4
<1> QED BY <1>1, <1>2, <1>7, <1>8

-----------------------------------------------------------------------------
(* The bodies of the driver's functions as ways.                           *)

LEMMA OnWay ==
  ASSUME NEW a \in {"held", "on"}, NEW n \in Bases, a = "held" => n = "none"
  PROVE  Way(On, <<a, "on2">>, <<a, n>>)
<1> DEFINE h == <<<<a, "on2">>, <<a, "on3">>, <<a, "on4">>, <<a, "on5">>,
                  <<a, n>>>>
<1>1. /\ <<a, "on2">> \in Places /\ <<a, "on3">> \in Places
      /\ <<a, "on4">> \in Places /\ <<a, "on5">> \in Places
      /\ <<a, n>> \in Places
  BY PlaceIs DEF Points, Stages, Bases, Outside, Inside, Oning, Offing, Fits
<1>2. /\ <<"enable", <<a, "on2">>, <<a, "on3">>>> \in Turns
      /\ <<"select", <<a, "on3">>, <<a, "on4">>>> \in Turns
      /\ <<"SRXON", <<a, "on4">>, <<a, "on5">>>> \in Turns
      /\ <<"receive_on", <<a, "on5">>, <<a, n>>>> \in Turns
  <2>1. {"enable", "select", "SRXON", "receive_on"} \subseteq Words
    BY DEF Words, Parting, Inner
  <2>2. \A x \in {"enable", "select", "SRXON", "receive_on"} : Step(x, a, a)
    BY DEF Inner, Parting, Step
  <2>3. /\ Turn("enable", a, "on2", "on3") /\ Turn("select", a, "on3", "on4")
        /\ Turn("SRXON", a, "on4", "on5") /\ Turn("receive_on", a, "on5", n)
    BY DEF Turn
  <2> QED BY <1>1, <2>1, <2>2, <2>3, TurnsAre
<1>3. /\ On \in Seq(Words) /\ Len(On) = 4
      /\ On[1] = "enable" /\ On[2] = "select" /\ On[3] = "SRXON"
      /\ On[4] = "receive_on"
  BY DEF On, Words, Parting, Inner
<1>4. /\ h[1] = <<a, "on2">> /\ h[2] = <<a, "on3">> /\ h[3] = <<a, "on4">>
      /\ h[4] = <<a, "on5">> /\ h[5] = <<a, n>>
      /\ h \in [1 .. 5 -> Places]
  BY <1>1
<1> HIDE DEF h
<1>5. ASSUME NEW i \in 1 .. 4
      PROVE  <<On[i], h[i], h[i + 1]>> \in Turns
  <2>1. i = 1 \/ i = 2 \/ i = 3 \/ i = 4
    OBVIOUS
  <2>2. CASE i = 1
    <3>1. On[i] = "enable" /\ h[i] = <<a, "on2">> /\ h[i + 1] = <<a, "on3">>
      BY <1>3, <1>4, <2>2
    <3> QED BY <1>2, <3>1, Zenon
  <2>3. CASE i = 2
    <3>1. On[i] = "select" /\ h[i] = <<a, "on3">> /\ h[i + 1] = <<a, "on4">>
      BY <1>3, <1>4, <2>3
    <3> QED BY <1>2, <3>1, Zenon
  <2>4. CASE i = 3
    <3>1. On[i] = "SRXON" /\ h[i] = <<a, "on4">> /\ h[i + 1] = <<a, "on5">>
      BY <1>3, <1>4, <2>4
    <3> QED BY <1>2, <3>1, Zenon
  <2>5. CASE i = 4
    <3>1. On[i] = "receive_on" /\ h[i] = <<a, "on5">> /\ h[i + 1] = <<a, n>>
      BY <1>3, <1>4, <2>5
    <3> QED BY <1>2, <3>1, Zenon
  <2> QED BY <2>1, <2>2, <2>3, <2>4, <2>5
<1>6. Len(On) + 1 = 5
  BY <1>3
<1> QED BY <1>3, <1>4, <1>5, <1>6 DEF Way, Chain

LEMMA OffWay ==
  ASSUME NEW a \in {"held", "off"}, NEW n \in Bases, a = "held" => n = "none"
  PROVE  Way(Off, <<a, "off2">>, <<a, n>>)
<1> DEFINE h == <<<<a, "off2">>, <<a, "off3">>, <<a, "off4">>, <<a, "off5">>,
                  <<a, "off6">>, <<a, n>>>>
<1>1. /\ <<a, "off2">> \in Places /\ <<a, "off3">> \in Places
      /\ <<a, "off4">> \in Places /\ <<a, "off5">> \in Places
      /\ <<a, "off6">> \in Places /\ <<a, n>> \in Places
  BY PlaceIs DEF Points, Stages, Bases, Outside, Inside, Oning, Offing, Fits
<1>2. /\ <<"receive_off", <<a, "off2">>, <<a, "off3">>>> \in Turns
      /\ <<"select", <<a, "off3">>, <<a, "off4">>>> \in Turns
      /\ <<"SRFOFF", <<a, "off4">>, <<a, "off5">>>> \in Turns
      /\ <<"disable", <<a, "off5">>, <<a, "off6">>>> \in Turns
      /\ <<"flush", <<a, "off6">>, <<a, n>>>> \in Turns
  <2>1. {"receive_off", "select", "SRFOFF", "disable", "flush"} \subseteq Words
    BY DEF Words, Parting, Inner
  <2>2. \A x \in {"receive_off", "select", "SRFOFF", "disable", "flush"} :
          Step(x, a, a)
    BY DEF Inner, Parting, Step
  <2>3. /\ Turn("receive_off", a, "off2", "off3")
        /\ Turn("select", a, "off3", "off4")
        /\ Turn("SRFOFF", a, "off4", "off5")
        /\ Turn("disable", a, "off5", "off6") /\ Turn("flush", a, "off6", n)
    BY DEF Turn
  <2> QED BY <1>1, <2>1, <2>2, <2>3, TurnsAre
<1>3. /\ Off \in Seq(Words) /\ Len(Off) = 5
      /\ Off[1] = "receive_off" /\ Off[2] = "select" /\ Off[3] = "SRFOFF"
      /\ Off[4] = "disable" /\ Off[5] = "flush"
  BY DEF Off, Words, Parting, Inner
<1>4. /\ h[1] = <<a, "off2">> /\ h[2] = <<a, "off3">> /\ h[3] = <<a, "off4">>
      /\ h[4] = <<a, "off5">> /\ h[5] = <<a, "off6">> /\ h[6] = <<a, n>>
      /\ h \in [1 .. 6 -> Places]
  BY <1>1
<1> HIDE DEF h
<1>5. ASSUME NEW i \in 1 .. 5
      PROVE  <<Off[i], h[i], h[i + 1]>> \in Turns
  <2>1. i = 1 \/ i = 2 \/ i = 3 \/ i = 4 \/ i = 5
    OBVIOUS
  <2>2. CASE i = 1
    <3>1. /\ Off[i] = "receive_off"
          /\ h[i] = <<a, "off2">> /\ h[i + 1] = <<a, "off3">>
      BY <1>3, <1>4, <2>2
    <3> QED BY <1>2, <3>1, Zenon
  <2>3. CASE i = 2
    <3>1. Off[i] = "select" /\ h[i] = <<a, "off3">> /\ h[i + 1] = <<a, "off4">>
      BY <1>3, <1>4, <2>3
    <3> QED BY <1>2, <3>1, Zenon
  <2>4. CASE i = 3
    <3>1. Off[i] = "SRFOFF" /\ h[i] = <<a, "off4">> /\ h[i + 1] = <<a, "off5">>
      BY <1>3, <1>4, <2>4
    <3> QED BY <1>2, <3>1, Zenon
  <2>5. CASE i = 4
    <3>1. /\ Off[i] = "disable"
          /\ h[i] = <<a, "off5">> /\ h[i + 1] = <<a, "off6">>
      BY <1>3, <1>4, <2>5
    <3> QED BY <1>2, <3>1, Zenon
  <2>6. CASE i = 5
    <3>1. Off[i] = "flush" /\ h[i] = <<a, "off6">> /\ h[i + 1] = <<a, n>>
      BY <1>3, <1>4, <2>6
    <3> QED BY <1>2, <3>1, Zenon
  <2> QED BY <2>1, <2>2, <2>3, <2>4, <2>5, <2>6
<1>6. Len(Off) + 1 = 6
  BY <1>3
<1> QED BY <1>3, <1>4, <1>5, <1>6 DEF Way, Chain

\* The statements of RELEASE_LOCK go through the points of the lock.
LEMMA ReleaseWay ==
  ASSUME NEW n \in Bases
  PROVE  /\ Way(Release, <<"held", n>>, <<"free", n>>)
         /\ Way(Deferred, <<"on?", n>>, <<"rest", n>>)
         /\ Way(Append(On, "lock_on=0"), <<"on", "on2">>, <<"off?", n>>)
         /\ Way(Append(Off, "lock_off=0"), <<"off", "off2">>, <<"rest", n>>)
<1>1. \A a \in Points : <<a, n>> \in Places
  BY PlaceIs DEF Stages, Bases, Outside, Inside, Oning, Offing, Fits
<1>2. \A x \in Locking : \A a, m \in Points :
        Step(x, a, m) => Way(<<x>>, <<a, n>>, <<m, n>>)
  BY <1>1, WayOne DEF Turn, Words, Parting
<1>3. /\ Way(<<"release">>, <<"held", n>>, <<"rest", n>>)
      /\ Way(<<"unlock">>, <<"rest", n>>, <<"free", n>>)
      /\ Way(<<"lock_on?">>, <<"on?", n>>, <<"off?", n>>)
      /\ Way(<<"lock_off?">>, <<"off?", n>>, <<"rest", n>>)
      /\ Way(<<"lock_on=0">>, <<"on", n>>, <<"off?", n>>)
      /\ Way(<<"lock_off=0">>, <<"off", n>>, <<"rest", n>>)
  BY <1>2 DEF Step, Locking, Points
<1>4. /\ Way(<<"release">> \o <<"unlock">>, <<"held", n>>, <<"free", n>>)
      /\ Way(<<"lock_on?">> \o <<"lock_off?">>, <<"on?", n>>, <<"rest", n>>)
      /\ Way(On \o <<"lock_on=0">>, <<"on", "on2">>, <<"off?", n>>)
      /\ Way(Off \o <<"lock_off=0">>, <<"off", "off2">>, <<"rest", n>>)
  BY <1>3, OnWay, OffWay, WayJoin
<1>5. /\ <<"release">> \o <<"unlock">> = Release
      /\ <<"lock_on?">> \o <<"lock_off?">> = Deferred
  BY Joined DEF Release, Deferred
<1>6. /\ On \in Seq(Words) /\ Off \in Seq(Words)
      /\ "lock_on=0" \in Words /\ "lock_off=0" \in Words
  BY DEF On, Off, Words, Parting, Inner, Locking
<1>7. /\ Append(On, "lock_on=0") = On \o <<"lock_on=0">>
      /\ Append(Off, "lock_off=0") = Off \o <<"lock_off=0">>
  BY <1>6, AppendIsConcat
<1> QED BY <1>4, <1>5, <1>7

LEMMA OutsideWay ==
  /\ \A t \in Outside : <<"free", t>> \in Places
  /\ \A t \in Inside : <<"held", t>> \in Places
  /\ \A a \in Points, t \in Bases : <<a, t>> \in Places
  /\ <<"held", "on2">> \in Places /\ <<"held", "off2">> \in Places
<1>1. \A t \in Outside : Fits("free", t) /\ t \in Stages
  BY DEF Fits, Outside, Inside, Oning, Offing, Stages
<1>2. \A t \in Inside : Fits("held", t) /\ t \in Stages
  BY DEF Fits, Outside, Inside, Oning, Offing, Stages
<1>3. \A a \in Points, t \in Bases : Fits(a, t) /\ t \in Stages
  BY DEF Fits, Outside, Inside, Oning, Offing, Bases, Stages
<1>4. /\ Fits("held", "on2") /\ Fits("held", "off2")
      /\ "on2" \in Stages /\ "off2" \in Stages
  BY DEF Fits, Outside, Inside, Oning, Offing, Stages
<1>5. "free" \in Points /\ "held" \in Points
  BY DEF Points
<1> QED BY <1>1, <1>2, <1>3, <1>4, <1>5, PlaceIs

LEMMA BodyWay ==
  /\ Way((<<"lock">> \o On) \o Release, <<"free", "on1">>, Rested)
  /\ Way((<<"lock">> \o Off) \o Release, <<"free", "off1">>, Rested)
  /\ Way(<<"lock", "select", "length">>,
         <<"free", "read1">>, <<"free", "handing">>)
  /\ Way(ReadBody, <<"held", "read4">>, <<"free", "handing">>)
  /\ Way(Send, Rested, Rested)
  /\ \A way : /\ Way(Exit(way), <<"held", "none">>, Rested)
              /\ Way(Exit(way), <<"held", "handing">>, <<"free", "handing">>)
              /\ Way(Off \o Exit(way), <<"held", "off2">>, Rested)
<1>1. /\ Way(<<"lock">>, <<"free", "on1">>, <<"held", "on2">>)
      /\ Way(<<"lock">>, <<"free", "off1">>, <<"held", "off2">>)
      /\ Way(<<"lock">>, <<"free", "read1">>, <<"held", "read2">>)
      /\ Way(<<"lock">>, <<"free", "none">>, <<"held", "none">>)
  <2>1. Step("lock", "free", "held") /\ "lock" \in Words
    BY DEF Step, Words, Parting, Locking
  <2>2. /\ Turn("lock", "free", "on1", "on2")
        /\ Turn("lock", "free", "off1", "off2")
        /\ Turn("lock", "free", "read1", "read2")
        /\ Turn("lock", "free", "none", "none")
    BY DEF Turn, Locking, Bases
  <2>3. /\ <<"free", "on1">> \in Places /\ <<"free", "off1">> \in Places
        /\ <<"free", "read1">> \in Places /\ <<"held", "read2">> \in Places
        /\ <<"free", "none">> \in Places /\ <<"held", "none">> \in Places
    BY OutsideWay DEF Outside, Inside, Bases, Points
  <2> QED BY <2>1, <2>2, <2>3, OutsideWay, WayOne
<1>2. /\ Way(<<"select">>, <<"held", "read2">>, <<"held", "read3">>)
      /\ Way(<<"select">>, <<"held", "read4">>, <<"held", "read5">>)
      /\ Way(<<"body">>, <<"held", "read5">>, <<"held", "read6">>)
      /\ Way(<<"again">>, <<"held", "read6">>, <<"held", "handing">>)
      /\ Way(<<"write">>, <<"held", "none">>, <<"held", "none">>)
  <2>1. \A x \in Inner : x \in Words /\ Step(x, "held", "held")
    BY DEF Step, Words, Parting
  <2>2. /\ Turn("select", "held", "read2", "read3")
        /\ Turn("select", "held", "read4", "read5")
        /\ Turn("body", "held", "read5", "read6")
        /\ Turn("again", "held", "read6", "handing")
        /\ Turn("write", "held", "none", "none")
    BY DEF Turn
  <2>3. /\ <<"held", "read2">> \in Places /\ <<"held", "read3">> \in Places
        /\ <<"held", "read4">> \in Places /\ <<"held", "read5">> \in Places
        /\ <<"held", "read6">> \in Places /\ <<"held", "handing">> \in Places
        /\ <<"held", "none">> \in Places
    BY OutsideWay DEF Inside, Bases, Points
  <2>4. {"select", "body", "again", "write"} \subseteq Inner
    BY DEF Inner
  <2> QED BY <2>1, <2>2, <2>3, <2>4, WayOne
<1>3. /\ Way(<<"length">>, <<"held", "read3">>, <<"free", "handing">>)
      /\ Way(<<"transmit">>, <<"held", "none">>, Rested)
  <2>1. \A x \in Parting : x \in Words /\ Step(x, "held", "free")
    BY DEF Step, Words, Parting
  <2>2. /\ Turn("length", "held", "read3", "handing")
        /\ Turn("transmit", "held", "none", "none")
    BY DEF Turn
  <2>3. /\ <<"held", "read3">> \in Places /\ <<"free", "handing">> \in Places
        /\ <<"held", "none">> \in Places /\ <<"free", "none">> \in Places
    BY OutsideWay DEF Inside, Bases, Points
  <2>4. "length" \in Parting /\ "transmit" \in Parting
    BY DEF Parting
  <2> QED BY <2>1, <2>2, <2>3, <2>4, WayOne DEF Rested
<1>4. /\ Way(Release, <<"held", "none">>, Rested)
      /\ Way(Release, <<"held", "handing">>, <<"free", "handing">>)
      /\ Way(On, <<"held", "on2">>, <<"held", "none">>)
      /\ Way(Off, <<"held", "off2">>, <<"held", "none">>)
  BY ReleaseWay, OnWay, OffWay DEF Bases, Rested
<1>5. /\ (<<"lock">> \o <<"select">>) \o <<"length">>
           = <<"lock", "select", "length">>
      /\ (<<"select">> \o <<"body">>) \o <<"again">>
           = <<"select", "body", "again">>
      /\ <<"lock">> \o <<"write">> = <<"lock", "write">>
      /\ <<"lock">> \o <<"transmit">> = <<"lock", "transmit">>
  <2>1. (<<"lock">> \o <<"select">>) \o <<"length">>
          = <<"lock", "select", "length">>
    BY Joined, Zenon
  <2>2. (<<"select">> \o <<"body">>) \o <<"again">>
          = <<"select", "body", "again">>
    BY Joined, Zenon
  <2>3. /\ <<"lock">> \o <<"write">> = <<"lock", "write">>
        /\ <<"lock">> \o <<"transmit">> = <<"lock", "transmit">>
    BY Joined, Zenon
  <2> QED BY <2>1, <2>2, <2>3
<1>6. /\ Way((<<"lock">> \o On) \o Release, <<"free", "on1">>, Rested)
      /\ Way((<<"lock">> \o Off) \o Release, <<"free", "off1">>, Rested)
  BY <1>1, <1>4, WayJoin
<1>7. Way(<<"lock", "select", "length">>,
          <<"free", "read1">>, <<"free", "handing">>)
  <2>1. Way(<<"lock">> \o <<"select">>,
            <<"free", "read1">>, <<"held", "read3">>)
    BY <1>1, <1>2, WayJoin
  <2>2. Way((<<"lock">> \o <<"select">>) \o <<"length">>,
            <<"free", "read1">>, <<"free", "handing">>)
    BY <1>3, <2>1, WayJoin
  <2> QED BY <1>5, <2>2
<1>8. Way(ReadBody, <<"held", "read4">>, <<"free", "handing">>)
  <2>1. Way(<<"select">> \o <<"body">>,
            <<"held", "read4">>, <<"held", "read6">>)
    BY <1>2, WayJoin
  <2>2. Way((<<"select">> \o <<"body">>) \o <<"again">>,
            <<"held", "read4">>, <<"held", "handing">>)
    BY <1>2, <2>1, WayJoin
  <2>3. Way(<<"select", "body", "again">> \o Release,
            <<"held", "read4">>, <<"free", "handing">>)
    BY <1>4, <1>5, <2>2, WayJoin
  <2> QED BY <2>3 DEF ReadBody, Exit
<1>9. Way(Send, Rested, Rested)
  <2>1. /\ Way(<<"lock", "write">>, Rested, <<"held", "none">>)
        /\ Way(<<"lock", "transmit">>, Rested, Rested)
    <3>1. /\ Way(<<"lock">> \o <<"write">>, Rested, <<"held", "none">>)
          /\ Way(<<"lock">> \o <<"transmit">>, Rested, Rested)
      BY <1>1, <1>2, <1>3, WayJoin DEF Rested
    <3> QED BY <1>5, <3>1
  <2>2. Way(<<"lock", "write">> \o Release, Rested, Rested)
    BY <1>4, <2>1, WayJoin
  <2>3. Way((<<"lock", "write">> \o Release) \o <<"lock", "transmit">>,
            Rested, Rested)
    BY <2>1, <2>2, WayJoin
  <2> QED BY <2>3 DEF Send
<1>10. /\ Way(Off \o Release, <<"held", "off2">>, Rested)
       /\ \A way : Exit(way) = Release
  BY <1>4, WayJoin DEF Exit
<1> QED BY <1>4, <1>6, <1>7, <1>8, <1>9, <1>10

LEMMA CallWay ==
  /\ \A call \in SlotCalls :
       \E t \in {"slot", "slot on"} : Way(call, <<"free", t>>, Rested)
  /\ Way(<<"clear", "read", "input">>, <<"free", "poll">>, Rested)
  /\ Way(<<"cc2420_on">>, Rested, Rested)
  /\ Way(<<"cc2420_off">>, Rested, Rested)
  /\ Way(<<"on_locked?">>, <<"free", "on0">>, Rested)
  /\ Way(<<"off_locked?">>, <<"free", "off0">>, Rested)
<1>1. /\ Way(<<"copy">>, <<"free", "slot">>, <<"free", "slot on">>)
      /\ Way(<<"cc2420_on">>, <<"free", "slot on">>, Rested)
      /\ Way(<<"cc2420_on">>, Rested, Rested)
      /\ Way(<<"cc2420_off">>, Rested, Rested)
      /\ Way(<<"on_locked?">>, <<"free", "on0">>, Rested)
      /\ Way(<<"off_locked?">>, <<"free", "off0">>, Rested)
      /\ Way(<<"clear">>, <<"free", "poll">>, <<"free", "read">>)
      /\ Way(<<"read">>, <<"free", "read">>, <<"free", "handing">>)
      /\ Way(<<"input">>, <<"free", "handing">>, Rested)
  <2>1. \A x \in Calls : x \in Words /\ Step(x, "free", "free")
    BY DEF Step, Words, Parting
  <2>2. /\ Turn("copy", "free", "slot", "slot on")
        /\ Turn("cc2420_on", "free", "slot on", "none")
        /\ Turn("cc2420_on", "free", "none", "none")
        /\ Turn("cc2420_off", "free", "none", "none")
        /\ Turn("on_locked?", "free", "on0", "none")
        /\ Turn("off_locked?", "free", "off0", "none")
        /\ Turn("clear", "free", "poll", "read")
        /\ Turn("read", "free", "read", "handing")
        /\ Turn("input", "free", "handing", "none")
    BY DEF Turn
  <2>3. /\ <<"free", "slot">> \in Places /\ <<"free", "slot on">> \in Places
        /\ <<"free", "none">> \in Places /\ <<"free", "on0">> \in Places
        /\ <<"free", "off0">> \in Places /\ <<"free", "poll">> \in Places
        /\ <<"free", "read">> \in Places /\ <<"free", "handing">> \in Places
    BY OutsideWay DEF Outside, Bases, Points
  <2>4. Calls = {"cc2420_on", "on_locked?", "cc2420_off", "off_locked?",
                 "read", "input", "clear", "copy"}
    BY DEF Calls
  <2> QED BY <2>1, <2>2, <2>3, <2>4, WayOne DEF Rested
<1>2. /\ (<<"clear">> \o <<"read">>) \o <<"input">>
           = <<"clear", "read", "input">>
      /\ <<"copy">> \o <<"cc2420_on">> = <<"copy", "cc2420_on">>
  <2>1. (<<"clear">> \o <<"read">>) \o <<"input">>
          = <<"clear", "read", "input">>
    BY Joined, Zenon
  <2>2. <<"copy">> \o <<"cc2420_on">> = <<"copy", "cc2420_on">>
    BY Joined, Zenon
  <2> QED BY <2>1, <2>2
<1>3. Way(<<"clear", "read", "input">>, <<"free", "poll">>, Rested)
  <2>1. Way(<<"clear">> \o <<"read">>, <<"free", "poll">>,
            <<"free", "handing">>)
    BY <1>1, WayJoin
  <2>2. Way((<<"clear">> \o <<"read">>) \o <<"input">>, <<"free", "poll">>,
            Rested)
    BY <1>1, <2>1, WayJoin
  <2> QED BY <1>2, <2>2
<1>4. Way((<<"copy", "cc2420_on">> \o Send) \o <<"cc2420_off">>,
          <<"free", "slot">>, Rested)
  <2>1. Way(<<"copy">> \o <<"cc2420_on">>, <<"free", "slot">>, Rested)
    BY <1>1, WayJoin
  <2>2. Way(<<"copy", "cc2420_on">>, <<"free", "slot">>, Rested)
    BY <1>2, <2>1
  <2>3. Way(<<"copy", "cc2420_on">> \o Send, <<"free", "slot">>, Rested)
    BY <2>2, BodyWay, WayJoin
  <2> QED BY <1>1, <2>3, WayJoin
<1> QED BY <1>1, <1>3, <1>4 DEF SlotCalls

-----------------------------------------------------------------------------
(* Where the statements lead.                                              *)

LEMMA WayHead ==
  ASSUME NEW s, NEW a, NEW t, NEW z, Way(s, <<a, t>>, z), s # << >>
  PROVE  /\ <<a, t>> \in Places
         /\ \E m \in Points, n \in Stages :
              /\ Step(Head(s), a, m) /\ Turn(Head(s), a, t, n)
              /\ <<m, n>> \in Places /\ Way(Tail(s), <<m, n>>, z)
<1>1. /\ <<a, t>> \in Places /\ Head(s) \in Words
      /\ \E y \in Places :
           /\ <<Head(s), <<a, t>>, y>> \in Turns
           /\ Chain(Turns, Places, Tail(s), y, z)
  BY ChainHead DEF Way
<1>2. PICK y \in Places :
        /\ <<Head(s), <<a, t>>, y>> \in Turns
        /\ Chain(Turns, Places, Tail(s), y, z)
  BY <1>1
<1>3. PICK m \in Points, n \in Stages : y = <<m, n>>
  BY <1>2 DEF Places
<1>4. /\ <<Head(s), <<a, t>>, <<m, n>>>> \in Turns /\ <<m, n>> \in Places
      /\ Way(Tail(s), <<m, n>>, z)
  BY <1>2, <1>3 DEF Way
<1>5. Step(Head(s), a, m) /\ Turn(Head(s), a, t, n)
  BY <1>1, <1>4, TurnsAre
<1> QED BY <1>1, <1>4, <1>5

\* Context c gets on with more and is then at a place of its text.
Gets(c, more, m, n) ==
  \A x, y : Way(more, <<x, y>>, <<m, n>>) =>
              Way(todo'[c], <<x, y>>, Rested)

LEMMA Leads ==
  ASSUME TypeOK, NEW c \in Contexts, NEW s, NEW more, Do(c, s, more),
         NEW a, NEW t, Way(todo[c], <<a, t>>, Rested)
  PROVE  /\ <<a, t>> \in Places
         /\ \E m \in Points, n \in Stages :
              /\ Step(s, a, m) /\ Turn(s, a, t, n)
              /\ <<m, n>> \in Places /\ Gets(c, more, m, n)
<1>1. /\ DOMAIN todo = Contexts /\ todo[c] # << >> /\ Head(todo[c]) = s
      /\ todo' = [todo EXCEPT ![c] = more \o Tail(todo[c])]
  BY DEF TypeOK, Do, Contexts
<1>2. PICK m \in Points, n \in Stages :
        /\ Step(s, a, m) /\ Turn(s, a, t, n)
        /\ <<m, n>> \in Places /\ Way(Tail(todo[c]), <<m, n>>, Rested)
  BY <1>1, WayHead
<1>3. todo'[c] = more \o Tail(todo[c])
  BY <1>1
<1>4. Gets(c, more, m, n)
  BY <1>2, <1>3, WayJoin DEF Gets
<1> QED BY <1>1, <1>2, <1>4, WayHead

\* Nothing is put in front of the rest of the text.
LEMMA LeadsOn ==
  ASSUME NEW c, NEW m, NEW n, <<m, n>> \in Places, Gets(c, << >>, m, n)
  PROVE  Way(todo'[c], <<m, n>>, Rested)
  BY WayNothing DEF Gets

(* A statement leads context c from point a and stage t to x and y.        *)
MovedCall(c, a, t, x, y) ==
  /\ a = "free" /\ x = "free"
  /\ \/ /\ CallOn(c) /\ t \in {"slot on", "none"}
        /\ y = IF drv.receive_on THEN "none" ELSE "on0"
     \/ /\ OnLocked(c) /\ t = "on0"
        /\ y = IF drv.locked > 0 THEN "none" ELSE "on1"
     \/ /\ CallOff(c) /\ t = "none"
        /\ y = IF drv.receive_on THEN "off0" ELSE "none"
     \/ /\ OffLocked(c) /\ t = "off0"
        /\ y = IF drv.locked > 0 THEN "none" ELSE "off1"

MovedLock(c, a, t, x, y) ==
  \/ /\ Lock(c) /\ a = "free" /\ x = "held"
     /\ \/ t = "on1" /\ y = "on2"
        \/ t = "off1" /\ y = "off2"
        \/ t = "read1" /\ y = "read2"
        \/ t \in Bases /\ y = t
  \/ /\ TestLock(c) /\ a = "held" /\ t \in Bases /\ y = t
     /\ x = IF drv.locked = 1 THEN "on?" ELSE "rest"
  \/ /\ DeferredOn(c) /\ a = "on?" /\ t \in Bases
     /\ x = IF drv.lock_on THEN "on" ELSE "off?"
     /\ y = IF drv.lock_on THEN "on2" ELSE t
  \/ /\ DeferredOff(c) /\ a = "off?" /\ t \in Bases
     /\ x = IF drv.lock_off THEN "off" ELSE "rest"
     /\ y = IF drv.lock_off THEN "off2" ELSE t
  \/ ClearOn(c) /\ a = "on" /\ t \in Bases /\ x = "off?" /\ y = t
  \/ ClearOff(c) /\ a = "off" /\ t \in Bases /\ x = "rest" /\ y = t
  \/ Unlock(c) /\ a = "rest" /\ t \in Bases /\ x = "free" /\ y = t

MovedChip(c, a, t, x, y) ==
  /\ a \in {"held", "on", "off"} /\ x = a
  /\ \/ /\ Select(c)
        /\ \/ t = "on3" /\ y = "on4"
           \/ t = "off3" /\ y = "off4"
           \/ t = "read2" /\ y = "read3"
           \/ t = "read4" /\ y = "read5"
     \/ Enable(c) /\ t = "on2" /\ y = "on3"
     \/ StrobeOn(c) /\ t = "on4" /\ y = "on5"
     \/ SetOn(c) /\ t = "on5" /\ y \in Bases /\ (a = "held" => y = "none")
     \/ SetOff(c) /\ t = "off2" /\ y = "off3"
     \/ StrobeOff(c) /\ t = "off4" /\ y = "off5"
     \/ Disable(c) /\ t = "off5" /\ y = "off6"
     \/ Flush(c) /\ t = "off6" /\ y \in Bases /\ (a = "held" => y = "none")

MovedSend(a, t, x, y) ==
  \/ Copy /\ a = "free" /\ x = "free" /\ t = "slot" /\ y = "slot on"
  \/ /\ Write \/ Collide \/ NeverStarts
     /\ a = "held" /\ x = "held" /\ t = "none" /\ y = "none"
  \/ /\ Transmit /\ a = "held" /\ x = "held" /\ t = "none"
     /\ y = IF drv.receive_on THEN "none" ELSE "off2"

MovedRead(a, t, x, y) ==
  \/ Clear /\ a = "free" /\ x = "free" /\ t = "poll" /\ y = "read"
  \/ /\ Read /\ a = "free" /\ x = "free" /\ t = "read"
     /\ y = IF FIFOP(chip) THEN "read1" ELSE "handing"
  \/ Length /\ a = "held" /\ x = "held" /\ t = "read3" /\ y = "read4"
  \/ /\ BadLength /\ a = "held" /\ x = "held" /\ t = "read3"
     /\ y \in {"handing", "read4"}
  \/ /\ Body \/ BadBody
     /\ a = "held" /\ x = "held" /\ t = "read5" /\ y = "read6"
  \/ Again /\ a = "held" /\ x = "held" /\ t = "read6" /\ y = "handing"
  \/ Input /\ a = "free" /\ x = "free" /\ t = "handing" /\ y = "none"

LEMMA CallMoves ==
  ASSUME TypeOK, NEW c \in Contexts, NEW a, NEW t,
         Way(todo[c], <<a, t>>, Rested),
         CallOn(c) \/ OnLocked(c) \/ CallOff(c) \/ OffLocked(c)
  PROVE  \E x, y : MovedCall(c, a, t, x, y) /\ Way(todo'[c], <<x, y>>, Rested)
<1>1. CASE CallOn(c)
  <2> DEFINE more == IF drv.receive_on THEN << >> ELSE <<"on_locked?">>
  <2>1. Do(c, "cc2420_on", more)
    BY <1>1 DEF CallOn
  <2> HIDE DEF more
  <2>2. PICK m \in Points, n \in Stages :
          /\ Step("cc2420_on", a, m) /\ Turn("cc2420_on", a, t, n)
          /\ <<m, n>> \in Places /\ Gets(c, more, m, n)
    BY <2>1, Leads
  <2>3. /\ a = "free" /\ m = "free" /\ t \in {"slot on", "none"}
        /\ n = "none"
    BY <2>2 DEF Step, Turn, Calls, Inner, Parting, Locking
  <2>4. CASE drv.receive_on
    <3>1. Way(todo'[c], <<m, n>>, Rested)
      BY <2>2, <2>4, LeadsOn DEF more
    <3> QED BY <1>1, <2>3, <2>4, <3>1 DEF MovedCall
  <2>5. CASE ~ drv.receive_on
    <3>1. Way(todo'[c], <<"free", "on0">>, Rested)
      BY <2>2, <2>3, <2>5, CallWay DEF more, Gets, Rested
    <3> QED BY <1>1, <2>3, <2>5, <3>1 DEF MovedCall
  <2> QED BY <2>4, <2>5
<1>2. CASE OnLocked(c)
  <2> DEFINE more == IF drv.locked > 0 THEN << >>
                     ELSE (<<"lock">> \o On) \o Release
  <2>1. Do(c, "on_locked?", more)
    BY <1>2 DEF OnLocked
  <2> HIDE DEF more
  <2>2. PICK m \in Points, n \in Stages :
          /\ Step("on_locked?", a, m) /\ Turn("on_locked?", a, t, n)
          /\ <<m, n>> \in Places /\ Gets(c, more, m, n)
    BY <2>1, Leads
  <2>3. a = "free" /\ m = "free" /\ t = "on0" /\ n = "none"
    BY <2>2 DEF Step, Turn, Calls, Inner, Parting, Locking
  <2>4. CASE drv.locked > 0
    <3>1. Way(todo'[c], <<m, n>>, Rested)
      BY <2>2, <2>4, LeadsOn DEF more
    <3> QED BY <1>2, <2>3, <2>4, <3>1 DEF MovedCall
  <2>5. CASE ~ drv.locked > 0
    <3>1. Way(todo'[c], <<"free", "on1">>, Rested)
      BY <2>2, <2>3, <2>5, BodyWay DEF more, Gets, Rested
    <3> QED BY <1>2, <2>3, <2>5, <3>1 DEF MovedCall
  <2> QED BY <2>4, <2>5
<1>3. CASE CallOff(c)
  <2> DEFINE more == IF drv.receive_on THEN <<"off_locked?">> ELSE << >>
  <2>1. Do(c, "cc2420_off", more)
    BY <1>3 DEF CallOff
  <2> HIDE DEF more
  <2>2. PICK m \in Points, n \in Stages :
          /\ Step("cc2420_off", a, m) /\ Turn("cc2420_off", a, t, n)
          /\ <<m, n>> \in Places /\ Gets(c, more, m, n)
    BY <2>1, Leads
  <2>3. a = "free" /\ m = "free" /\ t = "none" /\ n = "none"
    BY <2>2 DEF Step, Turn, Calls, Inner, Parting, Locking
  <2>4. CASE ~ drv.receive_on
    <3>1. Way(todo'[c], <<m, n>>, Rested)
      BY <2>2, <2>4, LeadsOn DEF more
    <3> QED BY <1>3, <2>3, <2>4, <3>1 DEF MovedCall
  <2>5. CASE drv.receive_on
    <3>1. Way(todo'[c], <<"free", "off0">>, Rested)
      BY <2>2, <2>3, <2>5, CallWay DEF more, Gets, Rested
    <3> QED BY <1>3, <2>3, <2>5, <3>1 DEF MovedCall
  <2> QED BY <2>4, <2>5
<1>4. CASE OffLocked(c)
  <2> DEFINE more == IF drv.locked > 0 THEN << >>
                     ELSE (<<"lock">> \o Off) \o Release
  <2>1. Do(c, "off_locked?", more)
    BY <1>4 DEF OffLocked
  <2> HIDE DEF more
  <2>2. PICK m \in Points, n \in Stages :
          /\ Step("off_locked?", a, m) /\ Turn("off_locked?", a, t, n)
          /\ <<m, n>> \in Places /\ Gets(c, more, m, n)
    BY <2>1, Leads
  <2>3. a = "free" /\ m = "free" /\ t = "off0" /\ n = "none"
    BY <2>2 DEF Step, Turn, Calls, Inner, Parting, Locking
  <2>4. CASE drv.locked > 0
    <3>1. Way(todo'[c], <<m, n>>, Rested)
      BY <2>2, <2>4, LeadsOn DEF more
    <3> QED BY <1>4, <2>3, <2>4, <3>1 DEF MovedCall
  <2>5. CASE ~ drv.locked > 0
    <3>1. Way(todo'[c], <<"free", "off1">>, Rested)
      BY <2>2, <2>3, <2>5, BodyWay DEF more, Gets, Rested
    <3> QED BY <1>4, <2>3, <2>5, <3>1 DEF MovedCall
  <2> QED BY <2>4, <2>5
<1> QED BY <1>1, <1>2, <1>3, <1>4

\* A statement that is not a call leads to the next one.
LEMMA NextStatement ==
  ASSUME TypeOK, NEW c \in Contexts, NEW s, Do(c, s, << >>),
         NEW a, NEW t, Way(todo[c], <<a, t>>, Rested)
  PROVE  \E m, n : /\ Step(s, a, m) /\ Turn(s, a, t, n)
                   /\ <<a, t>> \in Places /\ Way(todo'[c], <<m, n>>, Rested)
  BY Leads, LeadsOn

LEMMA LockMoves ==
  ASSUME TypeOK, NEW c \in Contexts, NEW a, NEW t,
         Way(todo[c], <<a, t>>, Rested),
         \/ Lock(c) \/ TestLock(c) \/ DeferredOn(c) \/ DeferredOff(c)
         \/ ClearOn(c) \/ ClearOff(c) \/ Unlock(c)
  PROVE  \E x, y : MovedLock(c, a, t, x, y) /\ Way(todo'[c], <<x, y>>, Rested)
<1>1. CASE Lock(c)
  <2>1. Do(c, "lock", << >>)
    BY <1>1 DEF Lock, Plain
  <2>2. PICK m, n : /\ Step("lock", a, m) /\ Turn("lock", a, t, n)
                    /\ Way(todo'[c], <<m, n>>, Rested)
    BY <2>1, NextStatement
  <2>3. /\ a = "free" /\ m = "held"
        /\ \/ t = "on1" /\ n = "on2"
           \/ t = "off1" /\ n = "off2"
           \/ t = "read1" /\ n = "read2"
           \/ t \in Bases /\ n = t
    BY <2>2 DEF Step, Turn, Calls, Inner, Parting
  <2> QED BY <1>1, <2>2, <2>3 DEF MovedLock
<1>2. CASE TestLock(c)
  <2> DEFINE more == IF drv.locked = 1 THEN Deferred ELSE << >>
  <2>1. Do(c, "release", more)
    BY <1>2 DEF TestLock, Branch
  <2> HIDE DEF more
  <2>2. PICK m \in Points, n \in Stages :
          /\ Step("release", a, m) /\ Turn("release", a, t, n)
          /\ <<m, n>> \in Places /\ Gets(c, more, m, n)
    BY <2>1, Leads
  <2>3. a = "held" /\ m = "rest" /\ t \in Bases /\ n = t
    BY <2>2 DEF Step, Turn, Calls, Inner, Parting
  <2>4. CASE drv.locked = 1
    <3>1. Way(todo'[c], <<"on?", t>>, Rested)
      BY <2>2, <2>3, <2>4, ReleaseWay DEF more, Gets
    <3> QED BY <1>2, <2>3, <2>4, <3>1 DEF MovedLock
  <2>5. CASE drv.locked # 1
    <3>1. Way(todo'[c], <<m, n>>, Rested)
      BY <2>2, <2>5, LeadsOn DEF more
    <3> QED BY <1>2, <2>3, <2>5, <3>1 DEF MovedLock
  <2> QED BY <2>4, <2>5
<1>3. CASE DeferredOn(c)
  <2> DEFINE more == IF drv.lock_on THEN Append(On, "lock_on=0") ELSE << >>
  <2>1. Do(c, "lock_on?", more)
    BY <1>3 DEF DeferredOn, Branch
  <2> HIDE DEF more
  <2>2. PICK m \in Points, n \in Stages :
          /\ Step("lock_on?", a, m) /\ Turn("lock_on?", a, t, n)
          /\ <<m, n>> \in Places /\ Gets(c, more, m, n)
    BY <2>1, Leads
  <2>3. a = "on?" /\ m = "off?" /\ t \in Bases /\ n = t
    BY <2>2 DEF Step, Turn, Calls, Inner, Parting
  <2>4. CASE drv.lock_on
    <3>1. Way(todo'[c], <<"on", "on2">>, Rested)
      BY <2>2, <2>3, <2>4, ReleaseWay DEF more, Gets
    <3> QED BY <1>3, <2>3, <2>4, <3>1 DEF MovedLock
  <2>5. CASE ~ drv.lock_on
    <3>1. Way(todo'[c], <<m, n>>, Rested)
      BY <2>2, <2>5, LeadsOn DEF more
    <3> QED BY <1>3, <2>3, <2>5, <3>1 DEF MovedLock
  <2> QED BY <2>4, <2>5
<1>4. CASE DeferredOff(c)
  <2> DEFINE more == IF drv.lock_off THEN Append(Off, "lock_off=0") ELSE << >>
  <2>1. Do(c, "lock_off?", more)
    BY <1>4 DEF DeferredOff, Branch
  <2> HIDE DEF more
  <2>2. PICK m \in Points, n \in Stages :
          /\ Step("lock_off?", a, m) /\ Turn("lock_off?", a, t, n)
          /\ <<m, n>> \in Places /\ Gets(c, more, m, n)
    BY <2>1, Leads
  <2>3. a = "off?" /\ m = "rest" /\ t \in Bases /\ n = t
    BY <2>2 DEF Step, Turn, Calls, Inner, Parting
  <2>4. CASE drv.lock_off
    <3>1. Way(todo'[c], <<"off", "off2">>, Rested)
      BY <2>2, <2>3, <2>4, ReleaseWay DEF more, Gets
    <3> QED BY <1>4, <2>3, <2>4, <3>1 DEF MovedLock
  <2>5. CASE ~ drv.lock_off
    <3>1. Way(todo'[c], <<m, n>>, Rested)
      BY <2>2, <2>5, LeadsOn DEF more
    <3> QED BY <1>4, <2>3, <2>5, <3>1 DEF MovedLock
  <2> QED BY <2>4, <2>5
<1>5. CASE ClearOn(c) \/ ClearOff(c) \/ Unlock(c)
  <2>1. PICK s \in {"lock_on=0", "lock_off=0", "unlock"} :
          /\ Do(c, s, << >>)
          /\ s = "lock_on=0" => ClearOn(c)
          /\ s = "lock_off=0" => ClearOff(c)
          /\ s = "unlock" => Unlock(c)
    BY <1>5 DEF ClearOn, ClearOff, Unlock, Plain
  <2>2. PICK m, n : /\ Step(s, a, m) /\ Turn(s, a, t, n)
                    /\ Way(todo'[c], <<m, n>>, Rested)
    BY <2>1, NextStatement
  <2>3. t \in Bases /\ n = t
    BY <2>1, <2>2 DEF Turn
  <2>4. /\ s = "lock_on=0" => a = "on" /\ m = "off?"
        /\ s = "lock_off=0" => a = "off" /\ m = "rest"
        /\ s = "unlock" => a = "rest" /\ m = "free"
    BY <2>2 DEF Step, Calls, Inner, Parting
  <2> QED BY <2>1, <2>2, <2>3, <2>4 DEF MovedLock
<1> QED BY <1>1, <1>2, <1>3, <1>4, <1>5

LEMMA ChipMoves ==
  ASSUME TypeOK, NEW c \in Contexts, NEW a, NEW t,
         Way(todo[c], <<a, t>>, Rested),
         \/ Select(c) \/ Enable(c) \/ StrobeOn(c) \/ SetOn(c)
         \/ SetOff(c) \/ StrobeOff(c) \/ Disable(c) \/ Flush(c)
  PROVE  \E x, y : MovedChip(c, a, t, x, y) /\ Way(todo'[c], <<x, y>>, Rested)
<1>1. PICK s \in {"select", "enable", "SRXON", "receive_on", "receive_off",
                  "SRFOFF", "disable", "flush"} :
        /\ Do(c, s, << >>)
        /\ s = "select" => Select(c)
        /\ s = "enable" => Enable(c)
        /\ s = "SRXON" => StrobeOn(c)
        /\ s = "receive_on" => SetOn(c)
        /\ s = "receive_off" => SetOff(c)
        /\ s = "SRFOFF" => StrobeOff(c)
        /\ s = "disable" => Disable(c)
        /\ s = "flush" => Flush(c)
  <2>1. CASE Select(c) \/ Enable(c) \/ StrobeOn(c) \/ SetOn(c)
    BY <2>1 DEF Select, Enable, StrobeOn, SetOn, Plain
  <2>2. CASE SetOff(c) \/ StrobeOff(c) \/ Disable(c) \/ Flush(c)
    BY <2>2 DEF SetOff, StrobeOff, Disable, Flush, Plain
  <2> QED BY <2>1, <2>2
<1>2. PICK m, n : /\ Step(s, a, m) /\ Turn(s, a, t, n)
                  /\ Way(todo'[c], <<m, n>>, Rested)
  BY <1>1, NextStatement
<1>3. a \in {"held", "on", "off"} /\ m = a
  BY <1>1, <1>2 DEF Step, Calls, Parting
<1>4. /\ s = "select" => \/ t = "on3" /\ n = "on4"
                         \/ t = "off3" /\ n = "off4"
                         \/ t = "read2" /\ n = "read3"
                         \/ t = "read4" /\ n = "read5"
      /\ s = "enable" => t = "on2" /\ n = "on3"
      /\ s = "SRXON" => t = "on4" /\ n = "on5"
      /\ s = "receive_on" =>
           t = "on5" /\ n \in Bases /\ (a = "held" => n = "none")
  BY <1>1, <1>2 DEF Turn, Locking
<1>5. /\ s = "receive_off" => t = "off2" /\ n = "off3"
      /\ s = "SRFOFF" => t = "off4" /\ n = "off5"
      /\ s = "disable" => t = "off5" /\ n = "off6"
      /\ s = "flush" => t = "off6" /\ n \in Bases /\ (a = "held" => n = "none")
  BY <1>1, <1>2 DEF Turn, Locking
<1>6. MovedChip(c, a, t, m, n)
  BY <1>1, <1>3, <1>4, <1>5 DEF MovedChip
<1> QED BY <1>2, <1>6

LEMMA SendMoves ==
  ASSUME TypeOK, NEW a, NEW t, Way(todo["isr"], <<a, t>>, Rested),
         Copy \/ Write \/ Transmit \/ Collide \/ NeverStarts
  PROVE  \E x, y : MovedSend(a, t, x, y) /\ Way(todo'["isr"], <<x, y>>, Rested)
<1>0. "isr" \in Contexts
  BY DEF Contexts
<1>1. CASE Copy
  <2>1. Do("isr", "copy", << >>)
    BY <1>1 DEF Copy
  <2>2. PICK m, n : /\ Step("copy", a, m) /\ Turn("copy", a, t, n)
                    /\ Way(todo'["isr"], <<m, n>>, Rested)
    BY <1>0, <2>1, NextStatement
  <2>3. a = "free" /\ m = "free" /\ t = "slot" /\ n = "slot on"
    BY <2>2 DEF Step, Turn, Calls, Inner, Parting, Locking
  <2> QED BY <1>1, <2>2, <2>3 DEF MovedSend
<1>2. CASE Write
  <2>1. Do("isr", "write", << >>)
    BY <1>2 DEF Write, Plain
  <2>2. PICK m, n : /\ Step("write", a, m) /\ Turn("write", a, t, n)
                    /\ Way(todo'["isr"], <<m, n>>, Rested)
    BY <1>0, <2>1, NextStatement
  <2>3. a = "held" /\ m = "held" /\ t = "none" /\ n = "none"
    BY <2>2 DEF Step, Turn, Calls, Inner, Parting, Locking
  <2> QED BY <1>2, <2>2, <2>3 DEF MovedSend
<1>3. CASE Transmit \/ Collide \/ NeverStarts
  <2>1. PICK off \in {<< >>, Off}, way \in {"sent", "dropped", "neverstarted"} :
          /\ Do("isr", "transmit", off \o Exit(way))
          /\ Transmit => off = IF drv.receive_on THEN << >> ELSE Off
          /\ ~Transmit => off = << >>
          /\ off = << >> => Do("isr", "transmit", Exit(way))
    <3>1. \A way : << >> \o Exit(way) = Exit(way)
      <4>1. \A way : Exit(way) \in Seq(Words)
        BY ExitPath DEF Path
      <4> QED BY <4>1, ConcatEmptySeq
    <3>2. CASE Transmit
      <4> DEFINE off == IF drv.receive_on THEN << >> ELSE Off
      <4>1. Do("isr", "transmit", off \o Exit("sent"))
        BY <3>2 DEF Transmit
      <4>2. off \in {<< >>, Off}
        OBVIOUS
      <4>3. off = << >> => off \o Exit("sent") = Exit("sent")
        BY <3>1
      <4> QED BY <3>2, <4>1, <4>2, <4>3
    <3>3. CASE (Collide \/ NeverStarts) /\ ~Transmit
      <4>1. PICK way \in {"dropped", "neverstarted"} :
              Do("isr", "transmit", Exit(way))
        BY <3>3 DEF Collide, NeverStarts
      <4> QED BY <3>1, <3>3, <4>1
    <3> QED BY <1>3, <3>2, <3>3
  <2> DEFINE more == off \o Exit(way)
  <2>2. PICK m \in Points, n \in Stages :
          /\ Step("transmit", a, m) /\ Turn("transmit", a, t, n)
          /\ <<m, n>> \in Places /\ Gets("isr", more, m, n)
    BY <1>0, <2>1, Leads
  <2>3. a = "held" /\ m = "free" /\ t = "none" /\ n = "none"
    BY <2>2 DEF Step, Turn, Calls, Inner, Parting, Locking
  <2>4. CASE off = << >>
    <3>1. PICK k \in Points, l \in Stages :
            /\ Step("transmit", a, k) /\ Turn("transmit", a, t, l)
            /\ <<k, l>> \in Places /\ Gets("isr", Exit(way), k, l)
      BY <1>0, <2>1, <2>4, Leads
    <3>2. k = "free" /\ l = "none"
      BY <3>1 DEF Step, Turn, Calls, Inner, Parting, Locking
    <3>3. Way(todo'["isr"], <<"held", "none">>, Rested)
      BY <3>1, <3>2, BodyWay DEF Gets, Rested
    <3>4. Transmit => drv.receive_on
      BY <2>1, <2>4 DEF Off
    <3> QED BY <1>3, <2>3, <3>3, <3>4 DEF MovedSend
  <2>5. CASE off # << >>
    <3>1. off = Off /\ Transmit /\ ~ drv.receive_on
      BY <2>1, <2>5
    <3>2. Way(todo'["isr"], <<"held", "off2">>, Rested)
      BY <2>2, <2>3, <3>1, BodyWay DEF Gets, Rested
    <3> QED BY <1>3, <2>3, <3>1, <3>2 DEF MovedSend
  <2> QED BY <2>4, <2>5
<1> QED BY <1>1, <1>2, <1>3

LEMMA ReadMoves ==
  ASSUME TypeOK, NEW a, NEW t, Way(todo["main"], <<a, t>>, Rested),
         \/ Clear \/ Read \/ Length \/ BadLength
         \/ Body \/ BadBody \/ Again \/ Input
  PROVE  \E x, y :
           MovedRead(a, t, x, y) /\ Way(todo'["main"], <<x, y>>, Rested)
<1>0. "main" \in Contexts
  BY DEF Contexts
<1>1. CASE Clear \/ Body \/ BadBody \/ Again
  <2>1. PICK s \in {"clear", "body", "again"} :
          /\ Do("main", s, << >>)
          /\ s = "clear" => Clear
          /\ s = "body" => Body \/ BadBody
          /\ s = "again" => Again
    BY <1>1 DEF Clear, Body, BadBody, Again, Plain
  <2>2. PICK m, n : /\ Step(s, a, m) /\ Turn(s, a, t, n) /\ <<a, t>> \in Places
                    /\ Way(todo'["main"], <<m, n>>, Rested)
    BY <1>0, <2>1, NextStatement
  <2>3. /\ s = "clear" => a = "free" /\ m = "free" /\ t = "poll" /\ n = "read"
        /\ s = "body" => m = a /\ t = "read5" /\ n = "read6"
        /\ s = "again" => m = a /\ t = "read6" /\ n = "handing"
    BY <2>1, <2>2 DEF Step, Turn, Calls, Inner, Parting, Locking
  <2>4. t \in {"read5", "read6"} => a = "held"
    BY <2>2, PlaceIs DEF Fits, Inside
  <2> QED BY <2>1, <2>2, <2>3, <2>4 DEF MovedRead
<1>2. CASE Read
  <2> DEFINE more == IF FIFOP(chip)
                     THEN <<"lock", "select", "length">>
                     ELSE << >>
  <2>1. Do("main", "read", more)
    BY <1>2 DEF Read, Branch
  <2> HIDE DEF more
  <2>2. PICK m \in Points, n \in Stages :
          /\ Step("read", a, m) /\ Turn("read", a, t, n)
          /\ <<m, n>> \in Places /\ Gets("main", more, m, n)
    BY <1>0, <2>1, Leads
  <2>3. a = "free" /\ m = "free" /\ t = "read" /\ n = "handing"
    BY <2>2 DEF Step, Turn, Calls, Inner, Parting, Locking
  <2>4. CASE FIFOP(chip)
    <3>1. Way(todo'["main"], <<"free", "read1">>, Rested)
      BY <2>2, <2>3, <2>4, BodyWay DEF more, Gets
    <3> QED BY <1>2, <2>3, <2>4, <3>1 DEF MovedRead
  <2>5. CASE ~ FIFOP(chip)
    <3>1. Way(todo'["main"], <<m, n>>, Rested)
      BY <2>2, <2>5, LeadsOn DEF more
    <3> QED BY <1>2, <2>3, <2>5, <3>1 DEF MovedRead
  <2> QED BY <2>4, <2>5
<1>3. CASE Length \/ BadLength
  <2>1. PICK more \in {Release, ReadBody} :
          Do("main", "length", more) /\ (Length => more = ReadBody)
    BY <1>3 DEF Length, BadLength, Exit
  <2>2. PICK m \in Points, n \in Stages :
          /\ Step("length", a, m) /\ Turn("length", a, t, n)
          /\ <<m, n>> \in Places /\ Gets("main", more, m, n)
    BY <1>0, <2>1, Leads
  <2>3. a = "held" /\ m = "free" /\ t = "read3" /\ n = "handing"
    BY <2>2 DEF Step, Turn, Calls, Inner, Parting, Locking
  <2>4. CASE more = ReadBody
    <3>1. Way(todo'["main"], <<"held", "read4">>, Rested)
      BY <2>2, <2>3, <2>4, BodyWay DEF Gets
    <3> QED BY <1>3, <2>3, <3>1 DEF MovedRead
  <2>5. CASE more = Release /\ more # ReadBody
    <3>1. Way(todo'["main"], <<"held", "handing">>, Rested)
      BY <2>2, <2>3, <2>5, BodyWay DEF Gets, Exit
    <3> QED BY <1>3, <2>1, <2>3, <2>5, <3>1 DEF MovedRead
  <2> QED BY <2>1, <2>4, <2>5
<1>4. CASE Input
  <2>1. PICK more \in {<< >>, <<"cc2420_off">>} : Do("main", "input", more)
    BY <1>4 DEF Input
  <2>2. PICK m \in Points, n \in Stages :
          /\ Step("input", a, m) /\ Turn("input", a, t, n)
          /\ <<m, n>> \in Places /\ Gets("main", more, m, n)
    BY <1>0, <2>1, Leads
  <2>3. a = "free" /\ m = "free" /\ t = "handing" /\ n = "none"
    BY <2>2 DEF Step, Turn, Calls, Inner, Parting, Locking
  <2>4. Way(more, Rested, Rested)
    <3>1. Rested \in Places
      BY <2>2, <2>3 DEF Rested
    <3> QED BY <2>1, <3>1, CallWay, WayNothing
  <2>5. Way(todo'["main"], <<"free", "none">>, Rested)
    BY <2>2, <2>3, <2>4 DEF Gets, Rested
  <2> QED BY <1>4, <2>3, <2>5 DEF MovedRead
<1> QED BY <1>1, <1>2, <1>3, <1>4

Moved(c, a, t, x, y) ==
  \/ MovedCall(c, a, t, x, y) \/ MovedLock(c, a, t, x, y)
  \/ MovedChip(c, a, t, x, y)
  \/ c = "isr" /\ MovedSend(a, t, x, y)
  \/ c = "main" /\ MovedRead(a, t, x, y)

\* Context c executes a statement of its text.
Executes(c) ==
  \/ Statement(c)
  \/ c = "isr" /\ (Copy \/ Write \/ Transmit \/ Collide \/ NeverStarts)
  \/ /\ c = "main"
     /\ \/ Clear \/ Read \/ Length \/ BadLength
        \/ Body \/ BadBody \/ Again \/ Input

LEMMA ExecutesMoves ==
  ASSUME TypeOK, NEW c \in Contexts, NEW a, NEW t,
         Way(todo[c], <<a, t>>, Rested), Executes(c)
  PROVE  \E x, y : Moved(c, a, t, x, y) /\ Way(todo'[c], <<x, y>>, Rested)
<1>1. CASE CallOn(c) \/ OnLocked(c) \/ CallOff(c) \/ OffLocked(c)
  BY <1>1, CallMoves DEF Moved
<1>2. CASE \/ Lock(c) \/ TestLock(c) \/ DeferredOn(c) \/ DeferredOff(c)
           \/ ClearOn(c) \/ ClearOff(c) \/ Unlock(c)
  BY <1>2, LockMoves DEF Moved
<1>3. CASE \/ Select(c) \/ Enable(c) \/ StrobeOn(c) \/ SetOn(c)
           \/ SetOff(c) \/ StrobeOff(c) \/ Disable(c) \/ Flush(c)
  BY <1>3, ChipMoves DEF Moved
<1>4. CASE c = "isr" /\ (Copy \/ Write \/ Transmit \/ Collide \/ NeverStarts)
  BY <1>4, SendMoves DEF Moved
<1>5. CASE /\ c = "main"
           /\ \/ Clear \/ Read \/ Length \/ BadLength
              \/ Body \/ BadBody \/ Again \/ Input
  BY <1>5, ReadMoves DEF Moved
<1> QED BY <1>1, <1>2, <1>3, <1>4, <1>5 DEF Executes, Statement

LEMMA OthersStay ==
  ASSUME TypeOK, NEW c \in Contexts, Executes(c)
  PROVE  /\ \A d \in Contexts \ {c} : todo'[d] = todo[d]
         /\ DOMAIN todo' = Contexts /\ todo[c] # << >>
         /\ c = "main" => todo["isr"] = << >> /\ ~ Pending
         /\ heard' = heard /\ met' = met
<1>1. \E s, more : Do(c, s, more)
  <2>1. CASE \/ CallOn(c) \/ OnLocked(c) \/ CallOff(c) \/ OffLocked(c)
             \/ Lock(c) \/ TestLock(c) \/ DeferredOn(c) \/ DeferredOff(c)
    BY <2>1 DEF CallOn, OnLocked, CallOff, OffLocked, Lock, TestLock,
                DeferredOn, DeferredOff, Plain, Branch
  <2>2. CASE \/ ClearOn(c) \/ ClearOff(c) \/ Unlock(c)
             \/ Select(c) \/ Enable(c) \/ StrobeOn(c) \/ SetOn(c)
             \/ SetOff(c) \/ StrobeOff(c) \/ Disable(c) \/ Flush(c)
    BY <2>2 DEF ClearOn, ClearOff, Unlock, Select, Enable, StrobeOn, SetOn,
                SetOff, StrobeOff, Disable, Flush, Plain
  <2>3. CASE c = "isr" /\ (Copy \/ Write \/ Transmit \/ Collide \/ NeverStarts)
    BY <2>3 DEF Copy, Write, Transmit, Collide, NeverStarts, Plain
  <2>4. CASE /\ c = "main"
             /\ \/ Clear \/ Read \/ Length \/ BadLength
                \/ Body \/ BadBody \/ Again \/ Input
    BY <2>4 DEF Clear, Read, Length, BadLength, Body, BadBody, Again, Input,
                Plain, Branch
  <2> QED BY <2>1, <2>2, <2>3, <2>4 DEF Executes, Statement
<1>2. heard' = heard /\ met' = met
  <2>1. CASE \/ CallOn(c) \/ OnLocked(c) \/ CallOff(c) \/ OffLocked(c)
             \/ Lock(c) \/ TestLock(c) \/ DeferredOn(c) \/ DeferredOff(c)
    BY <2>1 DEF CallOn, OnLocked, CallOff, OffLocked, Lock, TestLock,
                DeferredOn, DeferredOff, Plain, Branch
  <2>2. CASE \/ ClearOn(c) \/ ClearOff(c) \/ Unlock(c)
             \/ Select(c) \/ Enable(c) \/ StrobeOn(c) \/ SetOn(c)
             \/ SetOff(c) \/ StrobeOff(c) \/ Disable(c) \/ Flush(c)
    BY <2>2 DEF ClearOn, ClearOff, Unlock, Select, Enable, StrobeOn, SetOn,
                SetOff, StrobeOff, Disable, Flush, Plain
  <2>3. CASE c = "isr" /\ (Copy \/ Write \/ Transmit \/ Collide \/ NeverStarts)
    BY <2>3 DEF Copy, Write, Transmit, Collide, NeverStarts, Plain
  <2>4. CASE /\ c = "main"
             /\ \/ Clear \/ Read \/ Length \/ BadLength
                \/ Body \/ BadBody \/ Again \/ Input
    BY <2>4 DEF Clear, Read, Length, BadLength, Body, BadBody, Again, Input,
                Plain, Branch
  <2> QED BY <2>1, <2>2, <2>3, <2>4 DEF Executes, Statement
<1>3. PICK s, more : Do(c, s, more)
  BY <1>1
<1>4. /\ DOMAIN todo = Contexts
      /\ todo' = [todo EXCEPT ![c] = more \o Tail(todo[c])]
      /\ todo[c] # << >> /\ (c = "main" => todo["isr"] = << >> /\ ~ Pending)
  BY <1>3, Types DEF Do
<1>5. /\ \A d \in Contexts \ {c} : todo'[d] = todo[d]
      /\ DOMAIN todo' = Contexts
  BY <1>4
<1> QED BY <1>2, <1>4, <1>5

-----------------------------------------------------------------------------
(* What the driver knows of the radio.                                     *)

Ons == {"on0", "on1"} \cup Oning
Offs == {"off0", "off1"} \cup Offing
Still == Bases \cup Outside \cup Inside

\* At stage t the radio does what receive_on says, or is about to; a strobe
\* that has failed counts if the request to turn the radio on waits.
Agrees(t, asked) ==
  /\ t \in Still => chip.rx = drv.receive_on \/ asked
  /\ t = "on4" => chip.csn \/ asked
  /\ t = "on5" => chip.rx \/ asked
  /\ t \in Offing \ {"off2"} => ~ drv.receive_on
  /\ t = "off4" => chip.csn \/ asked
  /\ t \in {"off5", "off6"} => ~ chip.rx \/ asked

\* on() is under way only when the driver takes the radio for off.
Needed(a, t) ==
  t \in Ons /\ a \in {"free", "held"} /\ ~ met.again => ~ drv.receive_on

Waiting(a) == drv.lock_on /\ a \in {"held", "on?"}

\* A slot at b and u has interrupted the main loop at stage t of the lock:
\* it has not come to its requests, or has left the one to turn the radio on,
\* or the radio is on.
Met(t, b, u) ==
  /\ b \in {"free", "held", "rest"}
  /\ \/ /\ u \in {"slot", "slot on", "on0"} /\ Agrees(t, drv.lock_on)
        /\ t \in Ons => ~ drv.receive_on
     \/ /\ u \in {"none", "on0", "off0"} \cup Offing /\ drv.lock_on
        /\ t \in Offing \ {"off2"} => ~ drv.receive_on
     \/ /\ u \in {"none", "off0"} /\ drv.receive_on
        /\ t \in Still \cup {"off2"} /\ (t \in Still => chip.rx)

Radio(a, t, b, u) ==
  ~ met.release =>
    IF todo["isr"] = << >> THEN Agrees(t, Waiting(a)) /\ Needed(a, t)
    ELSE /\ IF a = "free" THEN Agrees(u, FALSE) ELSE Met(t, b, u)
         /\ todo["main"] # << >> => met.again

LEMMA AgreesStep ==
  ASSUME TypeOK, NEW c \in Contexts, NEW a, NEW t, NEW x, NEW y,
         Moved(c, a, t, x, y), NEW e \in BOOLEAN, NEW f \in BOOLEAN,
         Agrees(t, e), e => f \/ y = "on2"
  PROVE  Agrees(y, f)'
<1>1. drv \in Drivers /\ chip \in Chips
  BY Types DEF Chip
<1>2. CASE \/ MovedCall(c, a, t, x, y) \/ MovedLock(c, a, t, x, y)
  <2>1. chip' = chip /\ drv'.receive_on = drv.receive_on
    <3>1. CASE MovedCall(c, a, t, x, y)
      BY <1>1, <3>1 DEF MovedCall, CallOn, OnLocked, CallOff, OffLocked,
                        Drivers
    <3>2. CASE MovedLock(c, a, t, x, y)
      BY <1>1, <3>2 DEF MovedLock, Lock, TestLock, DeferredOn, DeferredOff,
                        ClearOn, ClearOff, Unlock, Plain, Branch, Drivers
    <3> QED BY <1>2, <3>1, <3>2
  <2>2. t \in Still /\ y \in Still \cup {"on2", "off2"}
    <3>1. CASE MovedCall(c, a, t, x, y)
      BY <3>1 DEF MovedCall, Still, Bases, Outside
    <3>2. CASE MovedLock(c, a, t, x, y)
      BY <3>2 DEF MovedLock, Still, Bases, Outside, Inside
    <3> QED BY <1>2, <3>1, <3>2
  <2> QED BY <2>1, <2>2 DEF Agrees, Still, Bases, Outside, Inside, Offing
<1>3. CASE MovedChip(c, a, t, x, y)
  <2>1. CASE \/ Select(c) /\ t = "on3" /\ y = "on4"
             \/ Select(c) /\ t = "off3" /\ y = "off4"
             \/ /\ Select(c) /\ t \in {"read2", "read4"}
                /\ y \in {"read3", "read5"}
             \/ Enable(c) /\ t = "on2" /\ y = "on3"
    <3>1. /\ chip'.rx = chip.rx /\ drv' = drv
          /\ Select(c) => chip'.csn = TRUE
      BY <1>1, <2>1 DEF Select, Enable, Plain, Chips
    <3>2. /\ t \in Still <=> t \in {"read2", "read4"}
          /\ y \in Still <=> y \in {"read3", "read5"}
          /\ t \in Offing \ {"off2"} <=> t = "off3"
          /\ y \in Offing \ {"off2"} <=> y = "off4"
      BY <2>1 DEF Still, Bases, Outside, Inside, Offing
    <3> QED BY <2>1, <3>1, <3>2 DEF Agrees
  <2>2. CASE \/ StrobeOn(c) /\ t = "on4" /\ y = "on5"
             \/ SetOn(c) /\ t = "on5" /\ y \in Bases
    <3>1. /\ StrobeOn(c) => /\ chip'.rx = (chip.rx \/ chip.csn)
                            /\ drv' = drv
          /\ SetOn(c) => drv'.receive_on /\ chip' = chip
      BY <1>1 DEF StrobeOn, SetOn, Plain, Deselected, Chips, Drivers
    <3>2. /\ y \notin Offing
          /\ StrobeOn(c) /\ t = "on4" /\ y = "on5" => y \notin Still
      BY <2>2 DEF Still, Bases, Outside, Inside, Offing
    <3> QED BY <1>1, <2>2, <3>1, <3>2 DEF Agrees, Chips, Bases
  <2>3. CASE \/ SetOff(c) /\ t = "off2" /\ y = "off3"
             \/ StrobeOff(c) /\ t = "off4" /\ y = "off5"
             \/ Disable(c) /\ t = "off5" /\ y = "off6"
             \/ Flush(c) /\ t = "off6" /\ y \in Bases
    <3>1. /\ SetOff(c) => drv'.receive_on = FALSE /\ chip' = chip
          /\ StrobeOff(c) => /\ chip'.rx = (chip.rx /\ ~ chip.csn)
                             /\ drv' = drv
          /\ Disable(c) \/ Flush(c) => chip'.rx = chip.rx /\ drv' = drv
      BY <1>1 DEF SetOff, StrobeOff, Disable, Flush, Plain, Deselected,
                  CutOff, flushrx, Chips, Drivers
    <3>2. /\ t \in Offing
          /\ y \in Still <=> y \in Bases
      BY <2>3 DEF Still, Bases, Outside, Inside, Offing
    <3>3. CASE SetOff(c) /\ t = "off2" /\ y = "off3"
      BY <3>1, <3>2, <3>3 DEF Agrees, Bases
    <3>4. CASE StrobeOff(c) /\ t = "off4" /\ y = "off5"
      BY <3>1, <3>2, <3>4 DEF Agrees, Bases, Offing
    <3>5. CASE Disable(c) /\ t = "off5" /\ y = "off6"
      BY <3>1, <3>2, <3>5 DEF Agrees, Bases, Offing
    <3>6. CASE Flush(c) /\ t = "off6" /\ y \in Bases
      <4>1. y \notin Offing \cup {"on4", "on5"}
        BY <3>6 DEF Bases, Offing
      <4>2. chip'.rx = drv'.receive_on \/ e
        BY <1>1, <3>1, <3>6 DEF Agrees, Offing, Chips, Drivers
      <4> QED BY <4>1, <4>2, <3>6 DEF Agrees, Bases, Offing
    <3> QED BY <2>3, <3>3, <3>4, <3>5, <3>6
  <2> QED BY <1>3, <2>1, <2>2, <2>3 DEF MovedChip
<1>4. CASE MovedSend(a, t, x, y)
  <2>1. /\ drv' = drv
        /\ \/ t \in Still /\ y \in Still /\ chip'.rx = chip.rx
           \/ t \in Still /\ y \in Still /\ chip'.rx /\ drv.receive_on
           \/ y = "off2"
    BY <1>1, <1>4 DEF MovedSend, Copy, Write, Collide, NeverStarts, Transmit,
         Plain, Deselected, CutOff, Chips, Still, Bases, Outside
  <2> QED BY <1>1, <2>1 DEF Agrees, Drivers, Chips, Still, Bases, Outside,
                            Inside, Offing
<1>5. CASE MovedRead(a, t, x, y)
  <2>1. t \in Still /\ y \in Still
    BY <1>5 DEF MovedRead, Still, Bases, Outside, Inside
  <2>2. drv'.receive_on = drv.receive_on /\ chip'.rx = chip.rx
    <3>2. CASE Clear \/ Read \/ Input \/ Again
      BY <1>1, <3>2 DEF Clear, Read, Input, Again, Plain, Branch, Deselected,
                        flushrx, Chips, Drivers
    <3>3. CASE Length \/ BadLength
      BY <1>1, <3>3 DEF Length, BadLength, Deselected, flushrx, Chips
    <3>4. CASE Body \/ BadBody
      <4>1. /\ drv' = drv
            /\ \E q : chip' \in Raised([Deselected(chip) EXCEPT !.fifo = q])
        BY <3>4 DEF Body, BadBody
      <4>2. PICK q : chip' \in Raised([Deselected(chip) EXCEPT !.fifo = q])
        BY <4>1
      <4>3. PICK v : chip' = [[[chip EXCEPT !.csn = FALSE] EXCEPT !.fifo = q]
                                EXCEPT !.ifg = v]
        BY <4>2 DEF Raised, Deselected
      <4>4. chip'.rx = chip.rx
        BY <1>1, <4>3 DEF Chips
      <4> QED BY <4>1, <4>4
    <3> QED BY <1>5, <3>2, <3>3, <3>4 DEF MovedRead
  <2> QED BY <2>1, <2>2 DEF Agrees, Still, Bases, Outside, Inside, Offing
<1> QED BY <1>2, <1>3, <1>4, <1>5 DEF Moved

LEMMA NeededStep ==
  ASSUME TypeOK, NEW a, NEW t, NEW x, NEW y, <<a, t>> \in Places,
         Moved("main", a, t, x, y), Needed(a, t), met' = met
  PROVE  Needed(x, y)'
<1>1. drv \in Drivers
  BY Types
<1> SUFFICES ASSUME y \in Ons, x \in {"free", "held"}, ~ met.again
             PROVE  ~ drv'.receive_on
  BY DEF Needed
<1>2. y \in {"on0", "on1", "on2", "on3", "on4", "on5"}
  BY DEF Ons, Oning
<1>3. CASE MovedCall("main", a, t, x, y)
  <2>1. drv'.receive_on = drv.receive_on
    BY <1>1, <1>3 DEF MovedCall, CallOn, OnLocked, CallOff, OffLocked,
                      Drivers
  <2>2. a = "free" /\ (t = "on0" \/ ~ drv.receive_on)
    BY <1>2, <1>3 DEF MovedCall
  <2> QED BY <2>1, <2>2 DEF Needed, Ons
<1>4. CASE MovedLock("main", a, t, x, y)
  <2>1. a = "free" /\ t = "on1" /\ Lock("main")
    BY <1>2, <1>4 DEF MovedLock, Bases
  <2>2. drv'.receive_on = drv.receive_on
    BY <1>1, <2>1 DEF Lock, Plain, Drivers
  <2> QED BY <2>1, <2>2 DEF Needed, Ons
<1>5. CASE MovedChip("main", a, t, x, y)
  <2>1. a = x /\ t \in Ons /\ drv' = drv
    BY <1>2, <1>5 DEF MovedChip, Bases, Ons, Oning, Select, Enable, StrobeOn,
                      Plain
  <2> QED BY <2>1 DEF Needed
<1>6. CASE MovedRead(a, t, x, y)
  BY <1>2, <1>6 DEF MovedRead
<1> QED BY <1>3, <1>4, <1>5, <1>6 DEF Moved

\* The interrupt, at b and u, finds the lock taken.
LEMMA MetStep ==
  ASSUME TypeOK, NEW t \in Stages, NEW b, NEW u, NEW x, NEW y,
         Moved("isr", b, u, x, y), Met(t, b, u),
         drv.locked = 1 + Took(b)
  PROVE  Met(t, x, y)'
<1>1. drv \in Drivers /\ chip \in Chips /\ b \in {"free", "held", "rest"}
  BY Types DEF Chip, Met
<1>2. u \in {"slot", "slot on", "none", "on0", "off0", "off2", "off3", "off4",
             "off5", "off6"}
  BY DEF Met, Offing
<1>3. CASE MovedCall("isr", b, u, x, y)
  <2>1. b = "free" /\ x = "free" /\ chip' = chip /\ drv.locked > 0
    <3>1. b = "free" /\ x = "free" /\ chip' = chip
      BY <1>3 DEF MovedCall, CallOn, OnLocked, CallOff, OffLocked
    <3>2. Took(b) = 0
      BY <3>1 DEF Took
    <3> QED BY <3>1, <3>2
  <2>2. CASE u \in {"slot on", "none"} /\ y = "on0" /\ ~ drv.receive_on
             /\ drv' = drv
    BY <2>1, <2>2 DEF Met, Agrees
  <2>3. CASE u \in {"slot on", "none"} /\ y = "none" /\ drv.receive_on
             /\ drv' = drv
    <3>1. CASE u = "slot on"
      <4>1. Agrees(t, drv.lock_on) /\ t \notin Ons
        BY <2>3, <3>1 DEF Met, Offing
      <4>2. t \notin Offing \ {"off2"}
        BY <2>3, <4>1 DEF Agrees
      <4>3. t \in Still \cup {"off2"}
        BY <4>1, <4>2 DEF Ons, Still, Stages
      <4>4. chip'.rx = drv'.receive_on \/ ~ t \in Still \/ drv'.lock_on
        BY <2>1, <2>3, <4>1 DEF Agrees
      <4>5. CASE drv'.lock_on
        BY <2>1, <2>3, <4>2, <4>5 DEF Met
      <4>6. CASE ~ drv'.lock_on
        <5>1. t \in Still => chip'.rx
          BY <2>3, <4>4, <4>6
        <5> QED BY <2>1, <2>3, <4>3, <5>1 DEF Met
      <4> QED BY <4>5, <4>6
    <3>2. CASE u = "none"
      BY <2>1, <2>3, <3>2 DEF Met
    <3> QED BY <2>3, <3>1, <3>2
  <2>4. CASE OnLocked("isr") /\ u = "on0" /\ y = "none"
    <3>1. drv'.lock_on /\ drv'.receive_on = drv.receive_on
      BY <1>1, <2>1, <2>4 DEF OnLocked, Drivers
    <3>2. t \in Offing \ {"off2"} => ~ drv.receive_on
      BY <2>4 DEF Met, Agrees
    <3> QED BY <2>1, <2>4, <3>1, <3>2 DEF Met
  <2>5. CASE u = "none" /\ y = "off0" /\ drv.receive_on /\ drv' = drv
    BY <2>1, <2>5 DEF Met
  <2>6. CASE u = "none" /\ y = "none" /\ ~ drv.receive_on /\ drv' = drv
    BY <2>1, <2>6 DEF Met
  <2>7. CASE OffLocked("isr") /\ u = "off0" /\ y = "none"
    <3>1. drv'.lock_on = drv.lock_on /\ drv'.receive_on = drv.receive_on
      BY <1>1, <2>7 DEF OffLocked, Drivers
    <3> QED BY <2>1, <2>7, <3>1 DEF Met
  <2>8. \/ u \in {"slot on", "none"} /\ y = "on0" /\ ~ drv.receive_on
           /\ drv' = drv
        \/ u \in {"slot on", "none"} /\ y = "none" /\ drv.receive_on
           /\ drv' = drv
        \/ OnLocked("isr") /\ u = "on0" /\ y = "none"
        \/ u = "none" /\ y = "off0" /\ drv.receive_on /\ drv' = drv
        \/ u = "none" /\ y = "none" /\ ~ drv.receive_on /\ drv' = drv
        \/ OffLocked("isr") /\ u = "off0" /\ y = "none"
    BY <1>2, <1>3, <2>1 DEF MovedCall, CallOn, CallOff
  <2> QED BY <2>2, <2>3, <2>4, <2>5, <2>6, <2>7, <2>8
<1>4. CASE MovedLock("isr", b, u, x, y)
  <2>1. /\ u = "none" /\ y = "none" /\ x \in {"free", "held", "rest"}
        /\ Lock("isr") \/ TestLock("isr") \/ Unlock("isr")
    <3>1. b # "free" => drv.locked = 2
      BY DEF Took
    <3>2. u = "none" /\ y = "none"
      BY <1>1, <1>2, <1>4 DEF MovedLock, Bases
    <3> QED BY <1>1, <1>4, <3>1, <3>2 DEF MovedLock
  <2>2. /\ drv'.lock_on = drv.lock_on /\ drv'.receive_on = drv.receive_on
        /\ chip' = chip
    BY <1>1, <2>1 DEF Lock, TestLock, Unlock, Plain, Branch, Drivers
  <2> QED BY <2>1, <2>2 DEF Met
<1>5. CASE MovedChip("isr", b, u, x, y)
  <2>1. /\ u \in Offing /\ y \in {"none"} \cup Offing /\ x \in {"held"}
        /\ \/ Select("isr") \/ SetOff("isr") \/ StrobeOff("isr")
           \/ Disable("isr") \/ Flush("isr")
    BY <1>1, <1>2, <1>5 DEF MovedChip, Offing
  <2>2. /\ drv'.lock_on = drv.lock_on
        /\ drv'.receive_on = drv.receive_on \/ ~ drv'.receive_on
    BY <1>1, <2>1 DEF Select, SetOff, StrobeOff, Disable, Flush, Plain,
                      Drivers
  <2>3. drv.lock_on /\ (t \in Offing \ {"off2"} => ~ drv.receive_on)
    BY <2>1 DEF Met, Offing
  <2> QED BY <2>1, <2>2, <2>3 DEF Met
<1>6. CASE MovedSend(b, u, x, y)
  <2>1. CASE Copy /\ u = "slot" /\ y = "slot on" /\ x = "free"
    <3>1. drv' = drv /\ chip' = chip
      BY <2>1 DEF Copy
    <3>2. Agrees(t, drv.lock_on) /\ (t \in Ons => ~ drv.receive_on)
      BY <2>1 DEF Met, Offing
    <3> QED BY <2>1, <3>1, <3>2 DEF Met, Agrees
  <2>2. CASE /\ Write \/ Collide \/ NeverStarts
             /\ x = "held" /\ u = "none" /\ y = "none"
    <3>1. drv' = drv /\ chip'.rx = chip.rx
      BY <1>1, <2>2 DEF Write, Collide, NeverStarts, Plain, Deselected,
                          Chips
    <3> QED BY <2>2, <3>1 DEF Met
  <2>3. CASE Transmit /\ x = "held" /\ u = "none"
             /\ y = IF drv.receive_on THEN "none" ELSE "off2"
    <3>1. drv' = drv /\ chip'.rx
      BY <1>1, <2>3 DEF Transmit, Plain, Deselected, CutOff, Chips
    <3> QED BY <2>3, <3>1 DEF Met, Offing
  <2> QED BY <1>6, <2>1, <2>2, <2>3 DEF MovedSend
<1> QED BY <1>3, <1>4, <1>5, <1>6 DEF Moved

\* No request waits, and receive_on is what was asked for last, or becomes it.
Asked(v) ==
  /\ ~ met.release /\ ~ drv.lock_on /\ ~ drv.lock_off
  /\ v \in Ons => want = "on"
  /\ v \in Offs => want = "off"
  /\ v \notin Ons \cup Offs => drv.receive_on = (want = "on")

\* No frame has come while a slot is under way.
Alone ==
  todo["isr"] # << >> =>
    ~ drv.polled /\ chip.air = None /\ chip.fifo = << >>

LEMMA AskedStep ==
  ASSUME TypeOK, NEW c \in Contexts, NEW a, NEW t, NEW x, NEW y,
         Moved(c, a, t, x, y), Asked(t), Agrees(t, FALSE), met' = met,
         a = "free" => drv.locked = 0
  PROVE  Asked(y)'
<1>1. drv \in Drivers /\ chip \in Chips /\ want \in {"on", "off"}
  BY Types DEF Chip
<1>2. CASE MovedCall(c, a, t, x, y)
  <2>1. drv.locked = 0 /\ ~ drv.locked > 0
    <3>1. a = "free"
      BY <1>2 DEF MovedCall
    <3>2. drv.locked = 0
      BY <3>1
    <3> QED BY <3>2
  <2>2. CASE CallOn(c) /\ t \in {"slot on", "none"}
             /\ y = IF drv.receive_on THEN "none" ELSE "on0"
    <3>1. drv' = drv /\ want' = "on" /\ "on" # "off"
      BY <2>2 DEF CallOn
    <3> QED BY <1>1, <2>2, <3>1 DEF Asked, Ons, Offs, Oning, Offing, Drivers
  <2>3. CASE CallOff(c) /\ t = "none"
             /\ y = IF drv.receive_on THEN "off0" ELSE "none"
    <3>1. drv' = drv /\ want' = "off" /\ "on" # "off"
      BY <2>3 DEF CallOff
    <3> QED BY <1>1, <2>3, <3>1 DEF Asked, Ons, Offs, Oning, Offing, Drivers
  <2>4. CASE \/ OnLocked(c) /\ t = "on0" /\ y = "on1"
             \/ OffLocked(c) /\ t = "off0" /\ y = "off1"
    <3>1. /\ want' = want /\ drv'.receive_on = drv.receive_on
          /\ ~ drv'.lock_on /\ ~ drv'.lock_off
      BY <1>1, <2>1, <2>4 DEF OnLocked, OffLocked, Asked, Drivers
    <3> QED BY <2>4, <3>1 DEF Asked, Ons, Offs, Oning, Offing
  <2> QED BY <1>2, <2>1, <2>2, <2>3, <2>4 DEF MovedCall
<1>3. CASE MovedLock(c, a, t, x, y)
  <2>1. /\ want' = want /\ drv'.receive_on = drv.receive_on
        /\ ~ drv'.lock_on /\ ~ drv'.lock_off
    BY <1>1, <1>3 DEF MovedLock, Lock, TestLock, DeferredOn, DeferredOff,
         ClearOn, ClearOff, Unlock, Plain, Branch, Drivers, Asked
  <2>2. t \in Ons <=> y \in Ons
    BY <1>3 DEF MovedLock, Asked, Bases, Ons, Oning
  <2>3. t \in Offs <=> y \in Offs
    BY <1>3 DEF MovedLock, Asked, Bases, Offs, Offing
  <2> QED BY <2>1, <2>2, <2>3 DEF Asked
<1>4. CASE MovedChip(c, a, t, x, y)
  <2>0. want' = want
    BY <1>4 DEF MovedChip, Select, Enable, StrobeOn, SetOn, SetOff, StrobeOff,
                Disable, Flush, Plain
  <2>1. CASE SetOn(c) /\ t = "on5" /\ y \in Bases
    <3>1. /\ drv'.receive_on /\ drv'.lock_on = drv.lock_on
          /\ drv'.lock_off = drv.lock_off /\ drv' \in Drivers
      BY <1>1, <2>1 DEF SetOn, Plain, Drivers
    <3>2. want = "on"
      BY <2>1 DEF Asked, Ons, Oning
    <3> QED BY <2>0, <2>1, <3>1, <3>2
        DEF Asked, Ons, Oning, Offs, Offing, Bases, Drivers
  <2>2. CASE SetOff(c) /\ t = "off2" /\ y = "off3"
    <3>1. drv'.lock_on = drv.lock_on /\ drv'.lock_off = drv.lock_off
      BY <1>1, <2>2 DEF SetOff, Plain, Drivers
    <3> QED BY <2>0, <2>2, <3>1 DEF Asked, Ons, Oning, Offs, Offing
  <2>3. CASE Flush(c) /\ t = "off6" /\ y \in Bases
    <3>1. drv' = drv /\ ~ drv.receive_on
      BY <2>3 DEF Flush, Plain, Agrees, Offing
    <3>2. want = "off" /\ "off" # "on"
      BY <2>3 DEF Asked, Offs, Offing
    <3> QED BY <1>1, <2>0, <2>3, <3>1, <3>2
        DEF Asked, Ons, Oning, Offs, Offing, Bases, Drivers
  <2>4. CASE /\ \/ Select(c) \/ Enable(c) \/ StrobeOn(c) \/ StrobeOff(c)
                \/ Disable(c)
             /\ \/ t \in Oning /\ y \in Oning
                \/ t \in Offing /\ y \in Offing
                \/ t \in Inside /\ y \in Inside
    <3>1. drv' = drv
      BY <2>4 DEF Select, Enable, StrobeOn, StrobeOff, Disable, Plain
    <3>2. (t \in Ons <=> y \in Ons) /\ (t \in Offs <=> y \in Offs)
      BY <2>4 DEF Inside, Oning, Offing, Ons, Offs
    <3> QED BY <2>0, <3>1, <3>2 DEF Asked
  <2> QED BY <1>4, <2>1, <2>2, <2>3, <2>4 DEF MovedChip, Oning, Offing, Inside
<1>5. CASE MovedSend(a, t, x, y)
  <2>1. drv' = drv /\ want' = want
    BY <1>5 DEF MovedSend, Copy, Write, Collide, NeverStarts, Transmit, Plain
  <2>2. t \in {"slot", "none"} /\ y \in {"slot on", "none", "off2"}
        /\ (y = "off2" => ~ drv.receive_on)
    BY <1>5 DEF MovedSend
  <2> QED BY <1>1, <2>1, <2>2 DEF Asked, Ons, Oning, Offs, Offing
<1>6. CASE MovedRead(a, t, x, y)
  <2>1. /\ want' = want /\ drv'.receive_on = drv.receive_on
        /\ drv'.lock_on = drv.lock_on /\ drv'.lock_off = drv.lock_off
    <3>1. CASE Again
      BY <1>1, <3>1 DEF Again, Plain, Drivers
    <3>2. CASE Clear \/ Read \/ Length \/ BadLength \/ Body \/ BadBody \/ Input
      BY <3>2 DEF Clear, Read, Length, BadLength, Body, BadBody, Input,
                  Branch
    <3> QED BY <1>6, <3>1, <3>2 DEF MovedRead
  <2>2. t \notin Ons \cup Offs /\ y \notin Ons \cup Offs
    BY <1>6 DEF MovedRead, Ons, Oning, Offs, Offing
  <2> QED BY <2>1, <2>2 DEF Asked
<1> QED BY <1>2, <1>3, <1>4, <1>5, <1>6 DEF Moved

LEMMA DeferredStep ==
  ASSUME NEW c, NEW a, NEW t, NEW x, NEW y, Moved(c, a, t, x, y), Asked(t),
         a \notin {"on", "off"}
  PROVE  x \notin {"on", "off"}
<1>1. CASE MovedLock(c, a, t, x, y)
  BY <1>1 DEF MovedLock, Asked
<1>2. CASE \/ MovedCall(c, a, t, x, y) \/ MovedChip(c, a, t, x, y)
           \/ MovedSend(a, t, x, y) \/ MovedRead(a, t, x, y)
  <2>1. x = a
    BY <1>2 DEF MovedCall, MovedChip, MovedSend, MovedRead
  <2> QED BY <2>1
<1> QED BY <1>1, <1>2 DEF Moved

LEMMA AloneStep ==
  ASSUME TypeOK, NEW a, NEW t, NEW x, NEW y, Moved("isr", a, t, x, y),
         Alone, todo["isr"] # << >>
  PROVE  /\ drv'.polled = drv.polled /\ chip'.ifg = chip.ifg
         /\ chip'.air = None /\ chip'.fifo = << >>
<1>1. /\ drv \in Drivers /\ chip \in Chips /\ ~ drv.polled /\ chip.air = None
      /\ chip.fifo = << >>
  BY Types DEF Alone, Chip
<1>2. CASE MovedCall("isr", a, t, x, y)
  BY <1>1, <1>2 DEF MovedCall, CallOn, OnLocked, CallOff, OffLocked, Drivers
<1>3. CASE MovedLock("isr", a, t, x, y)
  BY <1>1, <1>3 DEF MovedLock, Lock, TestLock, DeferredOn, DeferredOff,
       ClearOn, ClearOff, Unlock, Plain, Branch, Drivers
<1>4. CutOff(chip) = [chip EXCEPT !.air = None]
  BY <1>1 DEF CutOff
<1>5. CASE MovedChip("isr", a, t, x, y)
  <2>1. CASE Select("isr") \/ Enable("isr") \/ StrobeOn("isr")
    BY <1>1, <2>1 DEF Select, Enable, StrobeOn, Plain, Deselected, Chips
  <2>2. CASE SetOn("isr") \/ SetOff("isr")
    BY <1>1, <2>2 DEF SetOn, SetOff, Plain, Drivers
  <2>3. CASE StrobeOff("isr")
    BY <1>1, <1>4, <2>3 DEF StrobeOff, Plain, Deselected, Chips
  <2>4. CASE Flush("isr")
    BY <1>1, <2>4 DEF Flush, Plain, Deselected, flushrx, Chips
  <2>5. CASE Disable("isr")
    BY <1>1, <2>5 DEF Disable, Plain, Chips
  <2> QED BY <1>5, <2>1, <2>2, <2>3, <2>4, <2>5 DEF MovedChip
<1>6. CASE MovedSend(a, t, x, y)
  BY <1>1, <1>4, <1>6 DEF MovedSend, Copy, Write, Collide, NeverStarts,
                      Transmit, Plain,
                          Deselected, Chips
<1> QED BY <1>2, <1>3, <1>5, <1>6 DEF Moved

-----------------------------------------------------------------------------
(* The frames, as long as no slot meets anything and no frame begins when  *)
(* another one waits.                                                      *)

Taking == {"poll", "read", "read1", "read2", "read3", "read4", "read5"}

\* No frame waits; the rest of one is only seen by the flush to come.
Nothing(v) ==
  /\ \/ chip.fifo = << >>
     \/ chip.fifo = <<Rest>> /\ v \in {"off5", "off6"}
  /\ ~ chip.ifg /\ ~ drv.polled /\ v \notin Taking

\* The process has been called for frame f.
Taken(f, v) ==
  \/ v = "poll" /\ drv.last = f
  \/ /\ v \in Taking \ {"poll"} /\ buf.stamp = f /\ buf.frame = None
     /\ v \in {"read3", "read5"} => chip.csn
     /\ v \in {"read4", "read5"} => buf.len = f

\* Frame f waits: its interrupt is pending, or the poll, or it is read.
Waits(f, v) ==
  /\ chip.fifo = <<f>> /\ chip.air = None /\ drv.start = f
  /\ \/ chip.ifg /\ chip.ie /\ ~ drv.polled /\ v \notin Taking
     \/ ~ chip.ifg /\ drv.polled /\ drv.last = f /\ v \notin Taking
     \/ ~ chip.ifg /\ ~ drv.polled /\ Taken(f, v)

Held(v) == Nothing(v) \/ \E f \in Frames : Waits(f, v)

\* A receiver that is on has its interrupt, but for the end of a slot.
Armed(v) ==
  /\ ~ chip.over
  /\ chip.rx => \/ chip.ie
                \/ todo["isr"] # << >> /\ v \in {"off2", "off3", "off4"}
  /\ v \in {"on3", "on4", "on5"} => chip.ie

Begun ==
  chip.air # None =>
    /\ chip.rx /\ chip.fifo = << >>
    /\ chip.capture \/ drv.start = chip.air

Handed(v) ==
  v \in {"read6", "handing"} /\ buf.frame # None =>
    buf.frame \in Frames /\ buf.stamp = buf.frame

LEMMA Fifo ==
  /\ \A k : k.fifo = << >> /\ ~ k.over => ~ FIFOP(k)
  /\ \A k : k.fifo = <<Rest>> /\ ~ k.over => ~ FIFOP(k)
  /\ \A k : \A f \in Frames : k.fifo = <<f>> => FIFOP(k)
  /\ \A f : Head(<<f>>) = f /\ Tail(<<f>>) = << >> /\ <<f>> # << >>
            /\ Append(<< >>, f) = <<f>>
  /\ \A f \in Frames : f \in 0 .. MaxFrames /\ f # Rest /\ f # None
<1>1. \A f \in Frames : f \in 0 .. MaxFrames /\ f # Rest /\ f # None
  BY DEF Frames, Rest, None
<1>2. \A f : Head(<<f>>) = f /\ Tail(<<f>>) = << >> /\ <<f>> # << >>
  OBVIOUS
<1>3. \A f : Append(<< >>, f) = <<f>>
  OBVIOUS
<1>4. \A f : DOMAIN <<f>> = {1} /\ <<f>>[1] = f
  OBVIOUS
<1>5. DOMAIN << >> = {}
  OBVIOUS
<1> QED BY <1>1, <1>2, <1>3, <1>4, <1>5 DEF FIFOP

LEMMA ArmedStep ==
  ASSUME TypeOK, NEW c \in Contexts, NEW a, NEW t, NEW x, NEW y,
         Moved(c, a, t, x, y), Armed(t), Agrees(t, FALSE),
         c = "main" => todo["isr"] = << >> /\ todo'["isr"] = << >>,
         c = "isr" => todo["isr"] # << >>,
         c = "isr" => todo'["isr"] # << >> \/ y = "none"
  PROVE  Armed(y)'
<1>1. drv \in Drivers /\ chip \in Chips
  BY Types DEF Chip
<1>2. CASE MovedCall(c, a, t, x, y) \/ MovedLock(c, a, t, x, y)
  <2>1. chip' = chip
    <3>1. CASE MovedCall(c, a, t, x, y)
      BY <3>1 DEF MovedCall, CallOn, OnLocked, CallOff, OffLocked
    <3>2. CASE MovedLock(c, a, t, x, y)
      BY <3>2 DEF MovedLock, Lock, TestLock, DeferredOn, DeferredOff,
                  ClearOn, ClearOff, Unlock, Plain, Branch
    <3> QED BY <1>2, <3>1, <3>2
  <2>2. /\ t \notin {"off2", "off3", "off4"}
        /\ y \notin {"on3", "on4", "on5"}
    <3>1. CASE MovedCall(c, a, t, x, y)
      BY <3>1 DEF MovedCall
    <3>2. CASE MovedLock(c, a, t, x, y)
      BY <3>2 DEF MovedLock, Bases
    <3> QED BY <1>2, <3>1, <3>2
  <2> QED BY <2>1, <2>2 DEF Armed
<1>3. CASE MovedChip(c, a, t, x, y)
  <2>1. CASE \/ Select(c) /\ t = "on3" /\ y = "on4"
             \/ Select(c) /\ t = "off3" /\ y = "off4"
             \/ /\ Select(c) /\ t \in {"read2", "read4"}
                /\ y \in {"read3", "read5"}
             \/ Enable(c) /\ t = "on2" /\ y = "on3"
    <3>1. /\ chip'.rx = chip.rx /\ chip'.over = chip.over
          /\ Select(c) => chip'.ie = chip.ie
          /\ Enable(c) => chip'.ie = TRUE
      BY <1>1, <2>1 DEF Select, Enable, Plain, Chips
    <3>2. y = "off4" /\ todo["isr"] # << >> => todo'["isr"] # << >>
      BY DEF Contexts
    <3> QED BY <2>1, <3>1, <3>2 DEF Armed, Contexts
  <2>2. CASE \/ StrobeOn(c) /\ t = "on4" /\ y = "on5"
             \/ SetOn(c) /\ t = "on5" /\ y \in Bases
    <3>1. chip'.ie = chip.ie /\ chip'.over = chip.over
      BY <1>1, <2>2 DEF StrobeOn, SetOn, Plain, Deselected, Chips
    <3> QED BY <2>2, <3>1 DEF Armed
  <2>3. CASE SetOff(c) /\ t = "off2" /\ y = "off3"
    <3>1. chip' = chip /\ (todo["isr"] # << >> => todo'["isr"] # << >>)
      BY <2>3 DEF SetOff, Plain, Contexts
    <3> QED BY <2>3, <3>1 DEF Armed
  <2>4. CASE \/ StrobeOff(c) /\ t = "off4" /\ y = "off5"
             \/ Disable(c) /\ t = "off5" /\ y = "off6"
    <3>1. t = "off4" => chip.csn
      BY DEF Agrees
    <3>2. t = "off5" => ~ chip.rx
      BY DEF Agrees
    <3>3. chip'.over = chip.over /\ ~ chip'.rx
      BY <1>1, <2>4, <3>1, <3>2 DEF StrobeOff, Disable, Plain, Deselected,
                                    CutOff, Chips
    <3> QED BY <2>4, <3>3 DEF Armed
  <2>5. CASE Flush(c) /\ t = "off6" /\ y \in Bases
    <3>1. /\ chip'.rx = chip.rx /\ chip'.ie = chip.ie
          /\ chip'.over => chip.over
      BY <1>1, <2>5 DEF Flush, Plain, Deselected, flushrx, Chips
    <3> QED BY <2>5, <3>1 DEF Armed, Bases
  <2> QED BY <1>3, <2>1, <2>2, <2>3, <2>4, <2>5 DEF MovedChip
<1>4. CASE c = "isr" /\ MovedSend(a, t, x, y)
  <2>1. /\ drv' = drv /\ chip'.ie = chip.ie /\ chip'.over = chip.over
        /\ Transmit \/ chip'.rx = chip.rx
    BY <1>1, <1>4 DEF MovedSend, Copy, Write, Collide, NeverStarts,
                      Transmit, Plain,
                      Deselected, CutOff, Chips
  <2>2. CASE y = "off2"
    BY <1>4, <2>1, <2>2 DEF Armed
  <2>3. CASE y # "off2"
    <3>1. t \in {"slot", "none"} /\ y \in {"slot on", "none"}
      BY <1>4, <2>3 DEF MovedSend
    <3>2. chip'.rx => chip.rx
      <4>1. CASE Transmit /\ t = "none" /\ drv.receive_on
        BY <1>4, <4>1 DEF Agrees, Still, Bases
      <4>2. CASE Copy \/ Write \/ Collide \/ NeverStarts
        BY <1>1, <4>2 DEF Copy, Write, Collide, NeverStarts, Plain, Deselected,
                          Chips
      <4> QED BY <1>4, <2>3, <4>1, <4>2 DEF MovedSend
    <3> QED BY <2>1, <3>1, <3>2 DEF Armed
  <2> QED BY <2>2, <2>3
<1>5. CASE c = "main" /\ MovedRead(a, t, x, y)
  <2>1. t \notin Offing /\ y \notin Offing \cup Oning
    BY <1>5 DEF MovedRead, Offing, Oning
  <2>2. /\ chip'.rx = chip.rx /\ chip'.ie = chip.ie
        /\ chip'.over => chip.over
    <3>1. CASE Clear \/ Read \/ Input \/ Again
      BY <1>1, <3>1 DEF Clear, Read, Input, Again, Plain, Branch, Deselected,
                        flushrx, Chips, Drivers
    <3>2. CASE Length \/ BadLength
      BY <1>1, <3>2 DEF Length, BadLength, Deselected, flushrx, Chips
    <3>3. CASE Body \/ BadBody
      <4>1. \E q : chip' \in Raised([Deselected(chip) EXCEPT !.fifo = q])
        BY <3>3 DEF Body, BadBody
      <4>2. PICK q, v : chip' = [[[chip EXCEPT !.csn = FALSE]
                                  EXCEPT !.fifo = q] EXCEPT !.ifg = v]
        BY <4>1 DEF Raised, Deselected
      <4> QED BY <1>1, <4>2 DEF Chips
    <3> QED BY <1>5, <3>1, <3>2, <3>3 DEF MovedRead
  <2> QED BY <2>1, <2>2 DEF Armed, Offing, Oning
<1> QED BY <1>2, <1>3, <1>4, <1>5 DEF Moved

\* What a statement of the main loop leaves of a frame that has begun.
LEMMA BegunStep ==
  ASSUME TypeOK, NEW a, NEW t, NEW x, NEW y, Moved("main", a, t, x, y),
         Begun, Agrees(t, FALSE)
  PROVE  Begun'
<1>1. drv \in Drivers /\ chip \in Chips
  BY Types DEF Chip
<1>2. drv'.start = drv.start
  <2>1. CASE MovedCall("main", a, t, x, y) \/ MovedLock("main", a, t, x, y)
    BY <1>1, <2>1 DEF MovedCall, CallOn, OnLocked, CallOff, OffLocked,
         MovedLock, Lock, TestLock, DeferredOn, DeferredOff, ClearOn, ClearOff,
         Unlock, Plain, Branch, Drivers
  <2>2. CASE MovedChip("main", a, t, x, y)
    BY <1>1, <2>2 DEF MovedChip, Select, Enable, StrobeOn, SetOn, SetOff,
         StrobeOff, Disable, Flush, Plain, Drivers
  <2>3. CASE MovedRead(a, t, x, y)
    BY <1>1, <2>3 DEF MovedRead, Clear, Read, Length, BadLength, Body, BadBody,
         Again, Input, Plain, Branch, Drivers
  <2> QED BY <2>1, <2>2, <2>3 DEF Moved
<1> SUFFICES \/ chip' = chip
             \/ chip'.air = None
             \/ /\ chip'.air = chip.air /\ chip'.capture = chip.capture
                /\ chip.rx => chip'.rx
                /\ chip.fifo = << >> => chip'.fifo = << >>
  BY <1>1, <1>2 DEF Begun, Chips
<1>3. CASE MovedCall("main", a, t, x, y) \/ MovedLock("main", a, t, x, y)
  BY <1>3 DEF MovedCall, CallOn, OnLocked, CallOff, OffLocked,
       MovedLock, Lock, TestLock, DeferredOn, DeferredOff, ClearOn, ClearOff,
       Unlock, Plain, Branch
<1>4. CASE MovedChip("main", a, t, x, y)
  <2>1. CASE Select("main") \/ Enable("main") \/ StrobeOn("main")
             \/ Disable("main")
    BY <1>1, <2>1 DEF Select, Enable, StrobeOn, Disable, Plain, Deselected,
                      Chips
  <2>2. CASE SetOn("main") \/ SetOff("main")
    BY <2>2 DEF SetOn, SetOff, Plain
  <2>3. CASE StrobeOff("main") /\ t = "off4"
    BY <1>1, <2>3 DEF StrobeOff, Plain, Agrees, Deselected, CutOff, Chips
  <2>4. CASE Flush("main")
    BY <1>1, <2>4 DEF Flush, Plain, Deselected, flushrx, Chips
  <2> QED BY <1>4, <2>1, <2>2, <2>3, <2>4 DEF MovedChip
<1>5. CASE MovedRead(a, t, x, y)
  <2>1. CASE Clear \/ Read \/ Input
    BY <2>1 DEF Clear, Read, Input, Branch
  <2>2. CASE Again \/ Length \/ BadLength
    BY <1>1, <2>2 DEF Again, Length, BadLength, Plain, Deselected, flushrx,
                      Chips
  <2>3. CASE Body \/ BadBody
    <3>1. PICK q : /\ chip' \in Raised([Deselected(chip) EXCEPT !.fifo = q])
                   /\ chip.fifo = << >> => q = << >>
      BY <2>3 DEF Body, BadBody, InStep
    <3>2. PICK v : chip' = [[[chip EXCEPT !.csn = FALSE]
                              EXCEPT !.fifo = q] EXCEPT !.ifg = v]
      BY <3>1 DEF Raised, Deselected
    <3> QED BY <1>1, <3>1, <3>2 DEF Chips
  <2> QED BY <1>5, <2>1, <2>2, <2>3 DEF MovedRead
<1> QED BY <1>3, <1>4, <1>5 DEF Moved

\* The driver goes on, and nothing of the frame that waits has changed.
LEMMA HeldStays ==
  ASSUME NEW t, NEW y, Held(t), buf' = buf,
         chip'.fifo = chip.fifo, chip'.air = chip.air, chip'.ifg = chip.ifg,
         chip.ifg /\ chip.ie => chip'.ie,
         drv'.polled = drv.polled, drv'.start = drv.start,
         drv'.last = drv.last,
         t \in {"off5", "off6"} => y \in {"off5", "off6"},
         t \notin Taking, y \notin Taking
  PROVE  Held(y)'
<1>1. CASE Nothing(t)
  BY <1>1 DEF Held, Nothing
<1>2. CASE \E f \in Frames : Waits(f, t)
  <2>1. PICK f \in Frames : Waits(f, t)
    BY <1>2
  <2>2. Waits(f, y)'
    BY <2>1 DEF Waits, Taken, Taking
  <2> QED BY <2>2 DEF Held
<1> QED BY <1>1, <1>2 DEF Held

\* The process goes on with the frame.
LEMMA TakenStays ==
  ASSUME NEW t \in Taking, NEW y \in Taking, Held(t),
         chip'.fifo = chip.fifo, chip'.air = chip.air, chip'.ifg = chip.ifg,
         drv'.polled = drv.polled, drv'.start = drv.start,
         \A f \in Frames : chip.fifo = <<f>> /\ Taken(f, t) => Taken(f, y)'
  PROVE  Held(y)'
<1>1. PICK f \in Frames : Waits(f, t)
  BY DEF Held, Nothing
<1>2. Waits(f, y)'
  BY <1>1 DEF Waits
<1> QED BY <1>2 DEF Held

LEMMA HeldStep ==
  ASSUME TypeOK, NEW a, NEW t, NEW x, NEW y, Moved("main", a, t, x, y),
         Held(t), Armed(t), Begun, Agrees(t, FALSE), ~ Pending
  PROVE  Held(y)'
<1>1. drv \in Drivers /\ chip \in Chips /\ buf \in Bufs /\ ~ chip.over
  BY Types DEF Chip, Armed
<1>2. CASE MovedCall("main", a, t, x, y)
  <2>1. /\ chip' = chip /\ buf' = buf /\ drv'.polled = drv.polled
        /\ drv'.start = drv.start /\ drv'.last = drv.last
    BY <1>1, <1>2 DEF MovedCall, CallOn, OnLocked, CallOff, OffLocked, Drivers
  <2>2. t \notin Taking \cup {"off5", "off6"} /\ y \notin Taking
    BY <1>2 DEF MovedCall, Taking
  <2> QED BY <2>1, <2>2, HeldStays
<1>3. CASE MovedLock("main", a, t, x, y)
  <2>1. /\ chip' = chip /\ buf' = buf /\ drv'.polled = drv.polled
        /\ drv'.start = drv.start /\ drv'.last = drv.last
    BY <1>1, <1>3 DEF MovedLock, Lock, TestLock, DeferredOn, DeferredOff,
         ClearOn, ClearOff, Unlock, Plain, Branch, Drivers
  <2>2. \/ t = "read1" /\ y = "read2"
        \/ t \notin Taking \cup {"off5", "off6"} /\ y \notin Taking
    BY <1>3 DEF MovedLock, Taking, Bases
  <2>3. CASE t = "read1" /\ y = "read2"
    <3>1. t \in Taking /\ y \in Taking
      BY <2>3 DEF Taking
    <3>2. \A f \in Frames : Taken(f, t) => Taken(f, y)'
      BY <2>1, <2>3 DEF Taken, Taking
    <3> QED BY <2>1, <3>1, <3>2, TakenStays
  <2> QED BY <2>1, <2>2, <2>3, HeldStays
<1>4. CASE MovedChip("main", a, t, x, y)
  <2>1. CASE /\ Select("main")
             /\ \/ t = "read2" /\ y = "read3"
                \/ t = "read4" /\ y = "read5"
    <3>1. /\ drv' = drv /\ buf' = buf /\ chip'.fifo = chip.fifo
          /\ chip'.air = chip.air /\ chip'.ifg = chip.ifg /\ chip'.csn
      BY <1>1, <2>1 DEF Select, Plain, Chips
    <3>2. t \in Taking /\ y \in Taking
      BY <2>1 DEF Taking
    <3>3. \A f \in Frames : Taken(f, t) => Taken(f, y)'
      BY <2>1, <3>1 DEF Taken, Taking
    <3> QED BY <3>1, <3>2, <3>3, TakenStays
  <2>2. CASE /\ \/ Select("main") \/ Enable("main") \/ StrobeOn("main")
                \/ SetOn("main") \/ SetOff("main") \/ Disable("main")
             /\ t \in Oning \cup (Offing \ {"off6"})
             /\ t = "off5" => y = "off6"
             /\ y \in Oning \cup Offing \cup Bases
    <3>1. /\ drv'.polled = drv.polled /\ drv'.start = drv.start
          /\ drv'.last = drv.last /\ buf' = buf /\ chip'.fifo = chip.fifo
          /\ chip'.air = chip.air /\ chip'.ifg = chip.ifg
      BY <1>1, <2>2 DEF Select, Enable, StrobeOn, SetOn, SetOff, Disable,
                        Plain, Deselected, Chips, Drivers
    <3>2. ~ (chip.ifg /\ chip.ie)
      BY DEF Pending
    <3>3. /\ t \notin Taking /\ y \notin Taking
          /\ t \in {"off5", "off6"} => y \in {"off5", "off6"}
      BY <2>2 DEF Taking, Oning, Offing, Bases
    <3> QED BY <3>1, <3>2, <3>3, HeldStays
  <2>3. CASE StrobeOff("main") /\ t = "off4" /\ y = "off5"
    <3>1. /\ drv' = drv /\ buf' = buf
          /\ chip' = [Deselected(CutOff(chip)) EXCEPT !.rx = FALSE]
      BY <2>3 DEF StrobeOff, Plain, Agrees
    <3>2. CASE chip.air = None
      <4>1. CutOff(chip) = [chip EXCEPT !.air = None]
        BY <3>2 DEF CutOff
      <4>2. /\ chip'.fifo = chip.fifo /\ chip'.air = chip.air
            /\ chip'.ifg = chip.ifg /\ chip'.ie = chip.ie
        BY <1>1, <3>1, <3>2, <4>1 DEF Deselected, Chips
      <4>3. t \notin Taking \cup {"off5", "off6"} /\ y \notin Taking
        BY <2>3 DEF Taking
      <4> QED BY <3>1, <4>2, <4>3, HeldStays
    <3>3. CASE chip.air # None
      <4>1. chip.fifo = << >> /\ Len(chip.fifo) = 0
        BY <3>3 DEF Begun
      <4>2. Append(chip.fifo, Rest) = <<Rest>>
        BY <4>1, Fifo
      <4>3. CutOff(chip) = [chip EXCEPT !.air = None, !.fifo = <<Rest>>]
        BY <3>3, <4>1, <4>2 DEF CutOff
      <4>4. chip'.fifo = <<Rest>> /\ chip'.ifg = chip.ifg
        BY <1>1, <3>1, <4>3 DEF Deselected, Chips
      <4>5. ~ chip.ifg /\ ~ drv.polled
        BY <4>1, Fifo DEF Held, Nothing, Waits
      <4> QED BY <2>3, <3>1, <4>4, <4>5 DEF Held, Nothing, Taking
    <3> QED BY <3>2, <3>3
  <2>4. CASE Flush("main") /\ t = "off6" /\ y \in Bases
    <3>1. drv' = drv /\ buf' = buf
      BY <2>4 DEF Flush, Plain
    <3>2. y \notin Taking \cup {"off5", "off6"} /\ t \notin Taking
      BY <2>4 DEF Taking, Bases
    <3>3. CASE Nothing(t)
      <4>1. ~ FIFOP(chip)
        BY <1>1, <3>3, Fifo DEF Nothing
      <4>2. chip' = Deselected(flushrx(chip))
        BY <2>4, <4>1 DEF Flush, Plain
      <4>3. chip'.fifo = << >> /\ chip'.ifg = chip.ifg
        BY <1>1, <4>2 DEF Deselected, flushrx, Chips
      <4> QED BY <3>1, <3>2, <3>3, <4>3 DEF Held, Nothing
    <3>4. CASE \E f \in Frames : Waits(f, t)
      <4>1. PICK f \in Frames : Waits(f, t)
        BY <3>4
      <4>2. FIFOP(chip)
        BY <4>1, Fifo DEF Waits
      <4>3. chip' = chip
        BY <2>4, <4>2 DEF Flush, Plain
      <4>4. Waits(f, y)'
        BY <3>1, <3>2, <4>1, <4>3, <2>4 DEF Waits, Taken
      <4> QED BY <4>4 DEF Held
    <3> QED BY <3>3, <3>4 DEF Held
  <2>5. \/ Select("main") /\ t = "read2" /\ y = "read3"
        \/ Select("main") /\ t = "read4" /\ y = "read5"
        \/ /\ \/ Select("main") \/ Enable("main") \/ StrobeOn("main")
              \/ SetOn("main") \/ SetOff("main") \/ Disable("main")
           /\ t \in Oning \cup (Offing \ {"off6"})
           /\ t = "off5" => y = "off6"
           /\ y \in Oning \cup Offing \cup Bases
        \/ StrobeOff("main") /\ t = "off4" /\ y = "off5"
        \/ Flush("main") /\ t = "off6" /\ y \in Bases
    BY <1>4 DEF MovedChip, Oning, Offing
  <2> QED BY <2>1, <2>2, <2>3, <2>4, <2>5
<1>5. CASE MovedRead(a, t, x, y)
  <2>1. CASE Clear /\ t = "poll" /\ y = "read"
    <3>1. /\ drv' = drv /\ chip' = chip
          /\ buf'.stamp = drv.last /\ buf'.frame = None
      BY <2>1 DEF Clear
    <3>2. t \in Taking /\ y \in Taking
      BY <2>1 DEF Taking
    <3>3. \A f \in Frames : Taken(f, t) => Taken(f, y)'
      BY <2>1, <3>1 DEF Taken, Taking
    <3> QED BY <3>1, <3>2, <3>3, TakenStays
  <2>2. CASE /\ Read /\ t = "read"
             /\ y = IF FIFOP(chip) THEN "read1" ELSE "handing"
    <3>1. drv' = drv /\ chip' = chip /\ buf' = buf
      BY <2>2 DEF Read, Branch
    <3>2. PICK f \in Frames : Waits(f, t)
      BY <2>2 DEF Held, Nothing, Taking
    <3>3. FIFOP(chip)
      BY <3>2, Fifo DEF Waits
    <3>4. t \in Taking /\ y \in Taking /\ y = "read1"
      BY <2>2, <3>3 DEF Taking
    <3>5. \A g \in Frames : Taken(g, t) => Taken(g, y)'
      BY <2>2, <3>1, <3>4 DEF Taken, Taking
    <3> QED BY <3>1, <3>4, <3>5, TakenStays
  <2>3. CASE (Length \/ BadLength) /\ t = "read3" /\ y \in {"handing", "read4"}
             /\ (Length => y = "read4")
    <3>1. PICK f \in Frames : Waits(f, t)
      BY <2>3 DEF Held, Nothing, Taking
    <3>2. chip.csn /\ Head(chip.fifo) = f /\ InStep
      BY <2>3, <3>1, Fifo DEF Waits, Taken, Taking, InStep
    <3>3. Length
      BY <2>3, <3>2 DEF BadLength
    <3>4. /\ drv' = drv /\ chip' = Deselected(chip)
          /\ buf' = [buf EXCEPT !.len = f]
      BY <3>2, <3>3 DEF Length
    <3>5. /\ chip'.fifo = chip.fifo /\ chip'.air = chip.air
          /\ chip'.ifg = chip.ifg
      BY <1>1, <3>4 DEF Deselected, Chips
    <3>6. buf'.len = f /\ buf'.stamp = buf.stamp /\ buf'.frame = buf.frame
      BY <1>1, <3>4 DEF Bufs
    <3>7. t \in Taking /\ y \in Taking /\ y = "read4"
      BY <2>3, <3>3 DEF Taking
    <3>8. \A g \in Frames : chip.fifo = <<g>> /\ Taken(g, t) => Taken(g, y)'
      <4>1. \A g \in Frames : chip.fifo = <<g>> => g = f
        BY <3>2, Fifo
      <4> QED BY <2>3, <3>6, <3>7, <4>1 DEF Taken, Taking
    <3> QED BY <3>4, <3>5, <3>7, <3>8, TakenStays
  <2>4. CASE (Body \/ BadBody) /\ t = "read5" /\ y = "read6"
    <3>1. PICK f \in Frames : Waits(f, t)
      BY <2>4 DEF Held, Nothing, Taking
    <3>2. /\ Head(chip.fifo) = f /\ Tail(chip.fifo) = << >> /\ InStep
          /\ buf.len = f /\ ~ chip.ifg /\ ~ drv.polled
      BY <2>4, <3>1, Fifo DEF Waits, Taken, Taking, InStep
    <3>3. /\ drv' = drv
          /\ chip' \in Raised([Deselected(chip) EXCEPT !.fifo = << >>])
      <4>1. Body
        BY <2>4, <3>2 DEF BadBody
      <4>2. Deselected(chip).fifo = chip.fifo
        BY <1>1 DEF Deselected, Chips
      <4>3. /\ drv' = drv
            /\ chip' \in Raised([Deselected(chip) EXCEPT !.fifo = Tail(@)])
        BY <4>1 DEF Body
      <4> QED BY <3>2, <4>2, <4>3
    <3> DEFINE k == [Deselected(chip) EXCEPT !.fifo = << >>]
    <3>4. k.fifo = << >> /\ k.over = chip.over /\ k.ifg = chip.ifg
      BY <1>1 DEF Deselected, Chips
    <3>5. ~ FIFOP(k)
      BY <1>1, <3>4, Fifo
    <3>6. PICK edge : chip' = [k EXCEPT !.ifg = k.ifg \/ (edge /\ FIFOP(k))]
      BY <3>3 DEF Raised
    <3>7. chip'.fifo = << >> /\ ~ chip'.ifg
      BY <1>1, <3>2, <3>4, <3>5, <3>6 DEF Deselected, Chips
    <3> QED BY <2>4, <3>2, <3>3, <3>7 DEF Held, Nothing, Taking
  <2>5. CASE Again /\ t = "read6" /\ y = "handing"
    <3>1. /\ drv' = [drv EXCEPT !.polled = drv.polled \/ FIFOP(chip)]
          /\ chip' = chip /\ buf' = buf
      BY <1>1, <2>5 DEF Again, Plain
    <3>2. /\ drv'.polled = (drv.polled \/ FIFOP(chip))
          /\ drv'.start = drv.start /\ drv'.last = drv.last
      BY <1>1, <3>1 DEF Drivers, FIFOP
    <3>3. drv'.polled = drv.polled
      <4>1. CASE Nothing(t)
        <5>1. ~ FIFOP(chip)
          BY <1>1, <2>5, <4>1, Fifo DEF Nothing
        <5> QED BY <1>1, <3>2, <5>1 DEF Drivers
      <4>2. CASE \E f \in Frames : Waits(f, t)
        <5>1. drv.polled
          BY <2>5, <4>2 DEF Waits, Taken, Taking, Pending
        <5> QED BY <1>1, <3>2, <5>1 DEF Drivers, FIFOP
      <4> QED BY <4>1, <4>2 DEF Held
    <3>4. t \notin Taking \cup {"off5", "off6"} /\ y \notin Taking
      BY <2>5 DEF Taking
    <3> QED BY <3>1, <3>2, <3>3, <3>4, HeldStays
  <2>6. CASE Input /\ t = "handing" /\ y = "none"
    <3>1. drv' = drv /\ chip' = chip /\ buf' = buf
      BY <2>6 DEF Input
    <3>2. t \notin Taking \cup {"off5", "off6"} /\ y \notin Taking
      BY <2>6 DEF Taking
    <3> QED BY <3>1, <3>2, HeldStays
  <2>7. ~ (Length /\ BadLength)
    BY DEF Length, BadLength
  <2> QED BY <1>5, <2>1, <2>2, <2>3, <2>4, <2>5, <2>6, <2>7 DEF MovedRead
<1> QED BY <1>2, <1>3, <1>4, <1>5 DEF Moved

LEMMA HandedStep ==
  ASSUME TypeOK, NEW a, NEW t, NEW x, NEW y, Moved("main", a, t, x, y),
         Handed(t), Held(t), a \notin {"on", "off"}
  PROVE  Handed(y)'
<1>1. drv \in Drivers /\ chip \in Chips /\ buf \in Bufs
  BY Types DEF Chip
<1> SUFFICES ASSUME y \in {"read6", "handing"}, buf'.frame # None
             PROVE  buf'.frame \in Frames /\ buf'.stamp = buf'.frame
  BY DEF Handed
<1>2. CASE MovedCall("main", a, t, x, y)
  BY <1>2 DEF MovedCall
<1>3. CASE MovedLock("main", a, t, x, y)
  <2>1. t = "handing" /\ buf' = buf
    BY <1>3 DEF MovedLock, Bases, Lock, TestLock, DeferredOn, DeferredOff,
                ClearOn, ClearOff, Unlock, Plain, Branch
  <2> QED BY <2>1 DEF Handed
<1>4. CASE MovedChip("main", a, t, x, y)
  BY <1>4 DEF MovedChip
<1>5. CASE MovedRead(a, t, x, y)
  <2>1. CASE /\ Read /\ t = "read"
             /\ y = IF FIFOP(chip) THEN "read1" ELSE "handing"
    <3>1. PICK f \in Frames : Waits(f, t)
      BY <2>1 DEF Held, Nothing, Taking
    <3>2. FIFOP(chip)
      BY <3>1, Fifo DEF Waits
    <3> QED BY <2>1, <3>2
  <2>2. CASE (Length \/ BadLength) /\ t = "read3"
    <3>1. PICK f \in Frames : Waits(f, t)
      BY <2>2 DEF Held, Nothing, Taking
    <3>2. InStep /\ buf.frame = None
      BY <2>2, <3>1, Fifo DEF Waits, Taken, Taking, InStep
    <3>3. buf'.frame = buf.frame
      BY <1>1, <2>2, <3>2 DEF Length, BadLength, Bufs
    <3> QED BY <3>2, <3>3
  <2>3. CASE (Body \/ BadBody) /\ t = "read5"
    <3>1. PICK f \in Frames : Waits(f, t)
      BY <2>3 DEF Held, Nothing, Taking
    <3>2. InStep /\ buf.len = f /\ Head(chip.fifo) = f /\ buf.stamp = f
      BY <2>3, <3>1, Fifo DEF Waits, Taken, Taking, InStep
    <3>3. Body
      BY <2>3, <3>2 DEF BadBody
    <3>4. PICK g \in {f, None} : buf' = [buf EXCEPT !.frame = g]
      BY <3>2, <3>3 DEF Body
    <3>5. buf'.frame = g /\ buf'.stamp = f
      BY <1>1, <3>2, <3>4 DEF Bufs
    <3> QED BY <3>5
  <2>4. CASE Again /\ t = "read6"
    <3>1. buf' = buf
      BY <2>4 DEF Again, Plain
    <3> QED BY <2>4, <3>1 DEF Handed
  <2> QED BY <1>5, <2>1, <2>2, <2>3, <2>4 DEF MovedRead
<1> QED BY <1>2, <1>3, <1>4, <1>5 DEF Moved

-----------------------------------------------------------------------------
(* The radio and the frames, together with the lock.                       *)

\* The main loop stands at a and t, the interrupt at b and u.
At(a, t, b, u) ==
  Way(todo["main"], <<a, t>>, Rested) /\ Way(todo["isr"], <<b, u>>, Rested)

\* The one that is executed.
Active(m, i) == IF todo["isr"] = << >> THEN m ELSE i

Wanted(a, t, b, u) ==
  met.slots = 0 =>
    /\ todo["main"] = << >> \/ todo["isr"] = << >>
    /\ Asked(Active(t, u)) /\ Active(a, b) \notin {"on", "off"} /\ Alone

Given(t, u) ==
  met.slots = 0 /\ ~ met.queue =>
    /\ Armed(Active(t, u)) /\ Begun
    /\ Held(Active(t, u)) /\ Handed(Active(t, u))
    /\ todo["isr"] # << >> => u # "handing"

Standing(a, t, b, u) ==
  At(a, t, b, u) /\ Radio(a, t, b, u) /\ Wanted(a, t, b, u) /\ Given(t, u)

RadioInv == LockInv /\ \E a, t, b, u : Standing(a, t, b, u)

\* What the lock tells of these points.
Stand(a, t, b, u) ==
  /\ <<a, t>> \in Places /\ <<b, u>> \in Places
  /\ drv.locked = Took(a) + Took(b)
  /\ ~ met.release => LeftBehind(a)
  /\ todo["main"] = << >> => a = "free" /\ t = "none"
  /\ todo["isr"] = << >> => b = "free" /\ u = "none"

LEMMA WayPlace ==
  ASSUME NEW s, NEW a, NEW t, Way(s, <<a, t>>, Rested)
  PROVE  /\ <<a, t>> \in Places
         /\ s = << >> => a = "free" /\ t = "none"
<1>1. PICK h \in [1 .. Len(s) + 1 -> Places] : h[1] = <<a, t>>
  BY DEF Way, Chain
<1>2. Len(s) \in Nat
  BY DEF Way, Chain
<1>3. <<a, t>> \in Places
  BY <1>1, <1>2
<1>4. s = << >> => <<a, t>> = Rested
  BY <1>3, WayNothing
<1> QED BY <1>3, <1>4 DEF Rested

LEMMA StandIs ==
  ASSUME LockInv, NEW a, NEW t, NEW b, NEW u, At(a, t, b, u)
  PROVE  Stand(a, t, b, u)
<1>1. PICK p : Sound(p)
  BY DEF LockInv
<1>2. p["main"] = a /\ p["isr"] = b
  <2>1. Path(todo["main"], a, "free") /\ Path(todo["isr"], b, "free")
    BY WayPath DEF At, Rested
  <2>2. /\ Path(todo["main"], p["main"], "free")
        /\ Path(todo["isr"], p["isr"], "free")
    BY <1>1 DEF Sound, Contexts
  <2> QED BY <2>1, <2>2, PathUnique
<1> QED BY <1>1, <1>2, WayPlace DEF Sound, At, Stand

LEMMA StandNext ==
  ASSUME LockInv', NEW a, NEW t, NEW b, NEW u, At(a, t, b, u)'
  PROVE  Stand(a, t, b, u)'
<1>1. PICK p : Sound(p)'
  BY DEF LockInv
<1>2. p["main"] = a /\ p["isr"] = b
  <2>1. Path(todo'["main"], a, "free") /\ Path(todo'["isr"], b, "free")
    BY WayPath DEF At, Rested
  <2>2. /\ Path(todo'["main"], p["main"], "free")
        /\ Path(todo'["isr"], p["isr"], "free")
    BY <1>1 DEF Sound, Contexts
  <2> QED BY <2>1, <2>2, PathUnique
<1> QED BY <1>1, <1>2, WayPlace DEF Sound, At, Stand

LEMMA WaitingStep ==
  ASSUME TypeOK, NEW a, NEW t, NEW x, NEW y, Moved("main", a, t, x, y),
         drv.locked = Took(a), Waiting(a)
  PROVE  Waiting(x)' \/ y = "on2"
<1>1. drv \in Drivers /\ a \in {"held", "on?"} /\ drv.lock_on
  BY Types DEF Waiting
<1>2. CASE MovedLock("main", a, t, x, y)
  <2>1. CASE TestLock("main") /\ a = "held"
             /\ x = IF drv.locked = 1 THEN "on?" ELSE "rest"
    BY <1>1, <2>1 DEF TestLock, Branch, Waiting, Took
  <2>2. CASE a = "on?" /\ y = IF drv.lock_on THEN "on2" ELSE t
    BY <1>1, <2>2
  <2> QED BY <1>1, <1>2, <2>1, <2>2 DEF MovedLock
<1>3. CASE MovedChip("main", a, t, x, y)
  BY <1>1, <1>3 DEF MovedChip, Select, Enable, StrobeOn, SetOn, SetOff,
       StrobeOff, Disable, Flush, Plain, Drivers, Waiting
<1>4. CASE MovedRead(a, t, x, y)
  BY <1>1, <1>4 DEF MovedRead, Length, BadLength, Body, BadBody, Again, Plain,
       Drivers, Waiting
<1> QED BY <1>1, <1>2, <1>3, <1>4 DEF Moved, MovedCall

\* What the driver knows is true while nothing meets.
LEMMA AgreesAlone ==
  ASSUME NEW a, NEW t, NEW b, NEW u, Standing(a, t, b, u), Stand(a, t, b, u),
         met.slots = 0
  PROVE  Agrees(Active(t, u), FALSE)
<1>1. ~ met.release /\ ~ drv.lock_on
  BY DEF Standing, Wanted, Asked
<1>2. CASE todo["isr"] = << >>
  <2>1. Agrees(t, Waiting(a)) /\ ~ Waiting(a)
    BY <1>1, <1>2 DEF Standing, Radio, Waiting
  <2> QED BY <1>2, <2>1 DEF Agrees, Active
<1>3. CASE todo["isr"] # << >>
  <2>1. todo["main"] = << >> /\ a = "free"
    BY <1>3 DEF Standing, Wanted, Stand
  <2> QED BY <1>1, <1>3, <2>1 DEF Standing, Radio, Active
<1> QED BY <1>2, <1>3

LEMMA MainMoves ==
  ASSUME LockInv, LockInv', NEW a, NEW t, NEW b, NEW u, Standing(a, t, b, u),
         Executes("main")
  PROVE  \E x, y : Standing(x, y, b, u)'
<1>0. TypeOK /\ "main" \in Contexts /\ "isr" \in Contexts \ {"main"}
  BY DEF LockInv, Contexts
<1>1. /\ todo["isr"] = << >> /\ todo'["isr"] = << >> /\ ~ Pending
      /\ met' = met /\ Way(todo["main"], <<a, t>>, Rested)
  BY <1>0, OthersStay DEF Standing, At
<1>2. /\ Stand(a, t, b, u) /\ b = "free" /\ drv.locked = Took(a)
      /\ <<a, t>> \in Places
  <2>1. Stand(a, t, b, u)
    BY StandIs DEF Standing
  <2>2. Took(a) \in Nat
    BY DEF Took
  <2> QED BY <1>1, <2>1, <2>2 DEF Stand, Took
<1>3. PICK x, y :
        Moved("main", a, t, x, y) /\ Way(todo'["main"], <<x, y>>, Rested)
  BY <1>0, <1>1, ExecutesMoves
<1>4. At(x, y, b, u)'
  BY <1>1, <1>3 DEF Standing, At
<1>5. Radio(x, y, b, u)'
  <2> SUFFICES ASSUME ~ met.release
               PROVE  Agrees(y, Waiting(x))' /\ Needed(x, y)'
    BY <1>1 DEF Radio
  <2>1. Agrees(t, Waiting(a)) /\ Needed(a, t)
    BY <1>1 DEF Standing, Radio
  <2>2. PICK e \in BOOLEAN, f \in BOOLEAN : e = Waiting(a) /\ f = Waiting(x)'
    BY DEF Waiting
  <2>3. Agrees(t, e) /\ (e => f \/ y = "on2")
    BY <1>0, <1>2, <1>3, <2>1, <2>2, WaitingStep DEF Agrees
  <2>4. Agrees(y, f)'
    BY <1>0, <1>3, <2>2, <2>3, AgreesStep
  <2>5. Agrees(y, Waiting(x))'
    BY <2>2, <2>4 DEF Agrees
  <2>6. Needed(x, y)'
    BY <1>0, <1>1, <1>2, <1>3, <2>1, NeededStep
  <2> QED BY <2>5, <2>6
<1>6. Wanted(x, y, b, u)'
  <2> SUFFICES ASSUME met.slots = 0
               PROVE  Asked(y)' /\ x \notin {"on", "off"}
    BY <1>1 DEF Wanted, Active, Alone
  <2>1. Asked(t) /\ a \notin {"on", "off"} /\ Agrees(t, FALSE)
    BY <1>1, <1>2, AgreesAlone DEF Standing, Wanted, Active
  <2>2. a = "free" => drv.locked = 0
    BY <1>2 DEF Took
  <2>3. Asked(y)'
    BY <1>0, <1>1, <1>3, <2>1, <2>2, AskedStep
  <2> QED BY <1>3, <2>1, <2>3, DeferredStep
<1>7. Given(y, u)'
  <2> SUFFICES ASSUME met.slots = 0, ~ met.queue
               PROVE  Armed(y)' /\ Begun' /\ Held(y)' /\ Handed(y)'
    BY <1>1 DEF Given, Active
  <2>1. /\ a \notin {"on", "off"} /\ Agrees(t, FALSE)
        /\ Armed(t) /\ Begun /\ Held(t) /\ Handed(t)
    BY <1>1, <1>2, AgreesAlone DEF Standing, Wanted, Given, Active
  <2>2. Armed(y)'
    BY <1>0, <1>1, <1>3, <2>1, ArmedStep
  <2>3. Begun'
    BY <1>0, <1>3, <2>1, BegunStep
  <2>4. Held(y)'
    BY <1>0, <1>1, <1>3, <2>1, HeldStep
  <2>5. Handed(y)'
    BY <1>0, <1>3, <2>1, HandedStep
  <2> QED BY <2>2, <2>3, <2>4, <2>5
<1> QED BY <1>4, <1>5, <1>6, <1>7 DEF Standing

LEMMA IsrMoves ==
  ASSUME LockInv, LockInv', NEW a, NEW t, NEW b, NEW u, Standing(a, t, b, u),
         Executes("isr")
  PROVE  \E x, y : Standing(a, t, x, y)'
<1>0. TypeOK /\ "isr" \in Contexts /\ "main" \in Contexts \ {"isr"}
  BY DEF LockInv, Contexts
<1>1. /\ todo["isr"] # << >> /\ todo'["main"] = todo["main"]
      /\ met' = met /\ Way(todo["isr"], <<b, u>>, Rested)
  BY <1>0, OthersStay DEF Standing, At
<1>2. Stand(a, t, b, u)
  BY StandIs DEF Standing
<1>3. PICK x, y :
        Moved("isr", b, u, x, y) /\ Way(todo'["isr"], <<x, y>>, Rested)
  BY <1>0, <1>1, ExecutesMoves
<1>4. At(a, t, x, y)'
  BY <1>1, <1>3 DEF Standing, At
<1>5. todo'["isr"] = << >> => x = "free" /\ y = "none"
  BY <1>3, WayPlace
<1>6. Radio(a, t, x, y)'
  <2> SUFFICES ASSUME ~ met.release PROVE Radio(a, t, x, y)'
    BY <1>1 DEF Radio
  <2>0. LeftBehind(a) /\ a \in {"free", "held", "on?"}
    BY <1>1, <1>2 DEF Stand, LeftBehind
  <2>1. /\ IF a = "free" THEN Agrees(u, FALSE) ELSE Met(t, b, u)
        /\ todo["main"] # << >> => met.again
    BY <1>1 DEF Standing, Radio
  <2>2. IF a = "free" THEN Agrees(y, FALSE)' ELSE Met(t, x, y)'
    <3>1. CASE a = "free"
      <4>1. Agrees(y, FALSE)'
        BY <1>0, <1>3, <2>1, <3>1, AgreesStep
      <4> QED BY <3>1, <4>1
    <3>2. CASE a # "free"
      <4>1. drv.locked = 1 + Took(b)
        BY <1>2, <3>2 DEF Stand, Took
      <4>2. t \in Stages
        BY <1>2, PlaceIs DEF Stand
      <4>3. Met(t, x, y)'
        BY <1>0, <1>3, <2>1, <3>2, <4>1, <4>2, MetStep
      <4> QED BY <3>2, <4>3
    <3> QED BY <3>1, <3>2
  <2>3. CASE todo'["isr"] # << >>
    BY <1>1, <2>1, <2>2, <2>3 DEF Radio
  <2>4. CASE todo'["isr"] = << >>
    <3>1. Agrees(t, Waiting(a))'
      <4>1. CASE a = "free"
        <5>1. t \in Bases \cup Outside
          BY <1>2, <4>1, PlaceIs DEF Stand, Stages, Fits
        <5>2. chip'.rx = drv'.receive_on
          BY <1>5, <2>2, <2>4, <4>1 DEF Agrees, Still, Bases
        <5> QED BY <5>1, <5>2
            DEF Agrees, Bases, Outside, Offing
      <4>2. CASE a \in {"held", "on?"}
        <5>1. Met(t, "free", "none")'
          BY <1>5, <2>2, <2>4, <4>2
        <5>2. CASE /\ drv'.lock_on
                   /\ t \in Offing \ {"off2"} => ~ drv'.receive_on
          BY <4>2, <5>2 DEF Agrees, Waiting
        <5>3. CASE /\ drv'.receive_on /\ t \in Still \cup {"off2"}
                   /\ t \in Still => chip'.rx
          <6>1. t \in Still => chip'.rx = drv'.receive_on
            <7>1. chip' \in Chips /\ drv' \in Drivers
              BY TypesNext DEF LockInv, Chip
            <7> QED BY <5>3, <7>1 DEF Chips, Drivers
          <6> QED BY <5>3, <6>1
              DEF Agrees, Still, Bases, Outside, Inside, Offing
        <5> QED BY <5>1, <5>2, <5>3 DEF Met, Offing
      <4> QED BY <2>0, <4>1, <4>2
    <3>2. Needed(a, t)'
      <4>1. CASE todo["main"] = << >>
        BY <1>2, <4>1 DEF Stand, Needed, Ons, Oning
      <4>2. CASE todo["main"] # << >>
        BY <1>1, <2>1, <4>2 DEF Needed
      <4> QED BY <4>1, <4>2
    <3> QED BY <2>4, <3>1, <3>2 DEF Radio
  <2> QED BY <2>3, <2>4
<1>7. ASSUME met.slots = 0
      PROVE  /\ todo["main"] = << >> /\ a = "free" /\ t = "none"
             /\ b = "free" => drv.locked = 0
             /\ Asked(u) /\ b \notin {"on", "off"} /\ Alone
             /\ Agrees(u, FALSE)
  <2>1. /\ todo["main"] = << >> /\ Asked(u) /\ b \notin {"on", "off"} /\ Alone
        /\ Agrees(u, FALSE)
    BY <1>1, <1>2, <1>7, AgreesAlone DEF Standing, Wanted, Active
  <2>2. a = "free" /\ t = "none"
    BY <1>2, <2>1 DEF Stand
  <2>3. b = "free" => drv.locked = 0
    BY <1>2, <2>2 DEF Stand, Took
  <2> QED BY <2>1, <2>2, <2>3
<1>8. ASSUME met.slots = 0
      PROVE  /\ drv'.polled = drv.polled /\ chip'.ifg = chip.ifg
             /\ chip'.air = None /\ chip'.fifo = << >> /\ ~ drv'.polled
  <2>1. ~ drv.polled
    BY <1>1, <1>7, <1>8 DEF Alone
  <2> QED BY <1>0, <1>1, <1>3, <1>7, <1>8, <2>1, AloneStep
<1>9. Active(t, y)' = y \/ met.slots # 0
  BY <1>5, <1>7 DEF Active
<1>10. Wanted(a, t, x, y)'
  <2> SUFFICES ASSUME met.slots = 0
               PROVE  Wanted(a, t, x, y)'
    BY <1>1 DEF Wanted
  <2>1. Asked(y)' /\ x \notin {"on", "off"}
    <3>1. Asked(y)'
      BY <1>0, <1>1, <1>3, <1>7, AskedStep
    <3> QED BY <1>3, <1>7, <3>1, DeferredStep
  <2>2. Active(a, x)' \notin {"on", "off"}
    BY <1>7, <2>1 DEF Active
  <2>3. Alone'
    BY <1>8 DEF Alone
  <2>4. Active(t, y)' = y
    BY <1>9
  <2> QED BY <1>1, <1>7, <2>1, <2>2, <2>3, <2>4 DEF Wanted
<1>11. Given(t, y)'
  <2> SUFFICES ASSUME met.slots = 0, ~ met.queue
               PROVE  Given(t, y)'
    BY <1>1 DEF Given
  <2>1. Armed(u) /\ Held(u) /\ u # "handing"
    BY <1>1 DEF Standing, Given, Active
  <2>2. Armed(y)'
    BY <1>0, <1>1, <1>3, <1>5, <1>7, <2>1, ArmedStep
  <2>3. Begun'
    BY <1>8 DEF Begun
  <2>4. u \notin Taking /\ ~ chip.ifg
    <3>1. chip.fifo = << >>
      BY <1>1, <1>7 DEF Alone
    <3> QED BY <2>1, <3>1, Fifo DEF Held, Nothing, Waits
  <2>5. y \notin Taking \cup {"read6", "handing"}
    <3>1. CASE MovedLock("isr", b, u, x, y)
      BY <2>1, <2>4, <3>1 DEF MovedLock, Taking, Bases
    <3>2. CASE MovedCall("isr", b, u, x, y) \/ MovedSend(b, u, x, y)
      BY <3>2 DEF MovedCall, MovedSend, Taking
    <3>3. CASE MovedChip("isr", b, u, x, y)
      BY <1>7, <2>4, <3>3 DEF MovedChip, Taking
    <3> QED BY <1>3, <3>1, <3>2, <3>3 DEF Moved
  <2>6. Held(y)' /\ Handed(y)'
    BY <1>8, <2>4, <2>5 DEF Held, Nothing, Handed
  <2>7. Active(t, y)' = y
    BY <1>9
  <2> QED BY <2>2, <2>3, <2>5, <2>6, <2>7 DEF Given
<1> QED BY <1>4, <1>6, <1>10, <1>11 DEF Standing

LEMMA RadioStays ==
  ASSUME NEW a, NEW t, NEW b, NEW u, Radio(a, t, b, u), todo' = todo,
         met'.release = met.release, met'.again = met.again,
         drv'.receive_on = drv.receive_on, drv'.lock_on = drv.lock_on,
         chip'.rx = chip.rx, chip'.csn = chip.csn
  PROVE  Radio(a, t, b, u)'
<1>1. \A v, e : Agrees(v, e) => Agrees(v, e)'
  BY DEF Agrees
<1>2. Waiting(a)' = Waiting(a) /\ (Needed(a, t) => Needed(a, t)')
  BY DEF Waiting, Needed
<1>3. Agrees(t, Waiting(a)) => Agrees(t, Waiting(a))'
  BY <1>2 DEF Agrees
<1>4. Met(t, b, u) => Met(t, b, u)'
  BY DEF Met, Agrees
<1> QED BY <1>1, <1>2, <1>3, <1>4 DEF Radio

LEMMA PollMoves ==
  ASSUME LockInv, NEW a, NEW t, NEW b, NEW u, Standing(a, t, b, u),
         Poll \/ Callback
  PROVE  \E x, y : Standing(x, y, b, u)'
<1>1. /\ drv \in Drivers /\ chip \in Chips /\ met \in Mets
      /\ DOMAIN todo = Contexts
  BY Types DEF LockInv, Chip
<1>2. /\ todo["main"] = << >> /\ todo["isr"] = << >>
      /\ met' = [met EXCEPT !.again = FALSE]
      /\ UNCHANGED <<chip, buf, heard, want>>
      /\ drv'.receive_on = drv.receive_on /\ drv'.lock_on = drv.lock_on
      /\ drv'.lock_off = drv.lock_off /\ drv'.start = drv.start
      /\ drv'.last = drv.last
  BY <1>1 DEF Poll, Callback, Drivers
<1>3. /\ met'.release = met.release /\ met'.slots = met.slots
      /\ met'.queue = met.queue
  BY <1>1, <1>2 DEF Mets
<1>4. a = "free" /\ t = "none" /\ b = "free" /\ u = "none"
  <2>1. Stand(a, t, b, u)
    BY StandIs DEF Standing
  <2> QED BY <1>2, <2>1 DEF Stand
<1>5. PICK y \in {"poll", "none"} :
        /\ Way(todo'["main"], <<"free", y>>, Rested)
        /\ todo'["isr"] = << >>
        /\ y = "poll" => Poll
        /\ y = "none" => Callback
  <2>1. CASE Poll
    <3>1. todo' = [todo EXCEPT !["main"] = <<"clear", "read", "input">>]
      BY <2>1 DEF Poll
    <3>2. /\ todo'["main"] = <<"clear", "read", "input">>
          /\ todo'["isr"] = << >>
      BY <1>1, <1>2, <3>1 DEF Contexts
    <3> QED BY <2>1, <3>2, CallWay
  <2>2. CASE Callback
    <3>1. PICK call \in {"cc2420_on", "cc2420_off"} :
            todo' = [todo EXCEPT !["main"] = <<call>>]
      BY <2>2 DEF Callback
    <3>2. todo'["main"] = <<call>> /\ todo'["isr"] = << >>
      BY <1>1, <1>2, <3>1 DEF Contexts
    <3> QED BY <2>2, <3>1, <3>2, CallWay DEF Rested
  <2> QED BY <2>1, <2>2
<1>6. At("free", y, b, u)'
  BY <1>2, <1>5 DEF Standing, At
<1>7. Radio("free", y, b, u)'
  <2> SUFFICES ASSUME ~ met.release
               PROVE  Agrees(y, Waiting("free"))' /\ Needed("free", y)'
    BY <1>3, <1>5 DEF Radio
  <2>1. Agrees("none", Waiting("free")) /\ ~ Waiting("free")
    BY <1>2, <1>4 DEF Standing, Radio, Waiting
  <2>2. chip'.rx = drv'.receive_on
    BY <1>2, <2>1 DEF Agrees, Still, Bases
  <2> QED BY <2>2 DEF Agrees, Needed, Ons, Oning, Offing
<1>8. Wanted("free", y, b, u)'
  <2> SUFFICES ASSUME met.slots = 0 PROVE Asked(y)'
    BY <1>3, <1>4, <1>5 DEF Wanted, Active, Alone
  <2>1. Asked("none")
    BY <1>2, <1>4 DEF Standing, Wanted, Active
  <2>2. Asked(y) /\ want' = want
    BY <1>2, <2>1 DEF Asked, Ons, Offs, Oning, Offing
  <2> QED BY <1>2, <1>3, <2>2 DEF Asked
<1>9. Given(y, u)'
  <2> SUFFICES ASSUME met.slots = 0, ~ met.queue
               PROVE  Armed(y)' /\ Begun' /\ Held(y)' /\ Handed(y)'
    BY <1>3, <1>4, <1>5 DEF Given, Active
  <2>1. Armed("none") /\ Begun /\ Held("none")
    BY <1>2, <1>4, <1>3 DEF Standing, Given, Active
  <2>2. Armed(y)' /\ Begun' /\ Handed(y)'
    BY <1>2, <1>5, <2>1 DEF Armed, Begun, Handed
  <2>3. CASE y = "none"
    <3>1. drv' = drv
      BY <1>5, <2>3 DEF Callback
    <3>2. Held(y)'
      BY <1>2, <2>1, <2>3, <3>1 DEF Held, Nothing, Waits, Taken
    <3> QED BY <2>2, <3>2
  <2>4. CASE y = "poll"
    <3>1. drv.polled /\ drv' = [drv EXCEPT !.polled = FALSE]
      BY <1>5, <2>4 DEF Poll
    <3>2. ~ drv'.polled
      BY <1>1, <3>1 DEF Drivers
    <3>3. PICK f \in Frames : Waits(f, "none")
      BY <2>1, <3>1 DEF Held, Nothing
    <3>4. Waits(f, y)'
      BY <1>2, <2>4, <3>1, <3>2, <3>3 DEF Waits, Taken, Taking
    <3> QED BY <2>2, <3>4 DEF Held
  <2> QED BY <1>5, <2>3, <2>4
<1> QED BY <1>6, <1>7, <1>8, <1>9 DEF Standing

LEMMA Counts == met \in Mets => met.slots + 1 # 0
  BY DEF Mets

LEMMA SlotMoves ==
  ASSUME LockInv, LockInv', NEW a, NEW t, NEW b, NEW u, Standing(a, t, b, u),
         SlotInterrupt
  PROVE  \E x, y : Standing(a, t, x, y)'
<1>1. /\ drv \in Drivers /\ chip \in Chips /\ met \in Mets
      /\ DOMAIN todo = Contexts
  BY Types DEF LockInv, Chip
<1>2. /\ todo["isr"] = << >> /\ ~ met.again
      /\ UNCHANGED <<drv, chip, buf, heard, want>>
      /\ met' = [met EXCEPT !.slots = IF AllClear THEN @ ELSE @ + 1,
                            !.release = @ \/ Releasing,
                            !.again = todo["main"] # << >>]
  BY DEF SlotInterrupt
<1>3. /\ met'.slots = IF AllClear THEN met.slots ELSE met.slots + 1
      /\ met'.release = (met.release \/ Releasing)
      /\ met'.again = (todo["main"] # << >>) /\ met'.queue = met.queue
  BY <1>1, <1>2 DEF Mets
<1>4. Stand(a, t, b, u)
  BY StandIs DEF Standing
<1>5. PICK call \in SlotCalls : todo' = [todo EXCEPT !["isr"] = call]
  BY DEF SlotInterrupt
<1>6. PICK y \in {"slot", "slot on"} : Way(call, <<"free", y>>, Rested)
  BY CallWay
<1>7. /\ todo'["isr"] = call /\ todo'["main"] = todo["main"]
      /\ todo'["isr"] # << >>
  <2>1. call # << >>
    BY <1>6, WayPlace
  <2> QED BY <1>1, <1>5, <2>1 DEF Contexts
<1>8. At(a, t, "free", y)'
  BY <1>6, <1>7 DEF Standing, At
<1>9. Radio(a, t, "free", y)'
  <2> SUFFICES ASSUME ~ met'.release
               PROVE  IF a = "free" THEN Agrees(y, FALSE)'
                      ELSE Met(t, "free", y)'
    BY <1>3, <1>7 DEF Radio
  <2>1. Agrees(t, Waiting(a)) /\ Needed(a, t)
    BY <1>2, <1>3 DEF Standing, Radio
  <2>2. a \in {"free", "held", "on?"}
    <3>1. Stand(a, t, "free", y)'
      BY <1>8, StandNext
    <3> QED BY <1>7, <3>1 DEF Stand, LeftBehind
  <2>3. CASE a = "free"
    <3>1. t \in Bases \cup Outside
      BY <1>4, <2>3, PlaceIs DEF Stand, Stages, Fits
    <3>2. chip.rx = drv.receive_on
      BY <2>1, <2>3, <3>1 DEF Agrees, Waiting, Still
    <3>3. Agrees(y, FALSE)'
      BY <1>2, <3>2 DEF Agrees, Offing
    <3> QED BY <2>3, <3>3
  <2>4. CASE a \in {"held", "on?"}
    <3>1. Agrees(t, drv.lock_on)
      BY <2>1, <2>4 DEF Agrees, Waiting
    <3>2. t \in Ons => ~ drv.receive_on
      <4>1. CASE a = "held"
        BY <1>2, <2>1, <4>1 DEF Needed
      <4>2. CASE a = "on?"
        <5>1. t \notin Outside \cup Oning
          <6>1. Fits(a, t)
            BY <1>4, PlaceIs DEF Stand
          <6>2. "on?" \notin {"free", "held", "on"}
            OBVIOUS
          <6> QED BY <4>2, <6>1, <6>2 DEF Fits
        <5> QED BY <5>1 DEF Ons, Outside
      <4> QED BY <2>4, <4>1, <4>2
    <3>3. Met(t, "free", y)'
      BY <1>2, <3>1, <3>2 DEF Met, Agrees
    <3> QED BY <2>4, <3>3
  <2> QED BY <2>2, <2>3, <2>4
<1>10. ASSUME met'.slots = 0
       PROVE  met.slots = 0 /\ AllClear /\ a = "free" /\ t = "none"
  <2>1. met.slots + 1 # 0
    BY <1>1, Counts
  <2>2. ASSUME ~ AllClear PROVE FALSE
    <3>1. met'.slots = met.slots + 1
      BY <1>3, <2>2
    <3>2. met.slots + 1 = 0
      BY <1>10, <3>1
    <3> QED BY <2>1, <3>2
  <2>3. met.slots = 0
    BY <1>3, <1>10, <2>2
  <2> QED BY <1>4, <2>2, <2>3 DEF AllClear, Stand
<1>11. Wanted(a, t, "free", y)'
  <2> SUFFICES ASSUME met'.slots = 0 PROVE Wanted(a, t, "free", y)'
    BY DEF Wanted
  <2>1. Asked(t)
    BY <1>2, <1>10 DEF Standing, Wanted, Active
  <2>2. ~ met'.release
    BY <1>3, <1>10, <2>1 DEF AllClear, Releasing, Before, Asked
  <2>3. Asked(y)'
    BY <1>2, <1>10, <2>1, <2>2 DEF Asked, Ons, Offs, Oning, Offing
  <2>4. Alone' /\ todo'["main"] = << >>
    BY <1>2, <1>7, <1>10 DEF AllClear, Alone
  <2> QED BY <1>7, <2>3, <2>4 DEF Wanted, Active
<1>12. Given(t, y)'
  <2> SUFFICES ASSUME met'.slots = 0, ~ met'.queue PROVE Given(t, y)'
    BY DEF Given
  <2>1. Armed("none") /\ Held("none") /\ chip.air = None /\ chip.fifo = << >>
    BY <1>2, <1>3, <1>10 DEF Standing, Given, Active, AllClear
  <2>2. Armed(y)' /\ Begun' /\ Handed(y)'
    BY <1>2, <2>1 DEF Armed, Begun, Handed
  <2>3. ~ chip.ifg /\ ~ drv.polled
    BY <2>1, Fifo DEF Held, Nothing, Waits, Taken, Taking
  <2>4. Held(y)'
    BY <1>2, <2>1, <2>3 DEF Held, Nothing, Taking
  <2> QED BY <1>7, <2>2, <2>4 DEF Given, Active
<1> QED BY <1>8, <1>9, <1>11, <1>12 DEF Standing

LEMMA InterruptMoves ==
  ASSUME LockInv, NEW a, NEW t, NEW b, NEW u, Standing(a, t, b, u),
         CaptureInterrupt \/ FifopInterrupt
  PROVE  Standing(a, t, b, u)'
<1>1. drv \in Drivers /\ chip \in Chips
  BY Types DEF LockInv, Chip
<1>2. todo["isr"] = << >> /\ UNCHANGED <<todo, buf, heard, want, met>>
  BY DEF CaptureInterrupt, FifopInterrupt
<1>3. /\ drv'.receive_on = drv.receive_on /\ drv'.lock_on = drv.lock_on
      /\ drv'.lock_off = drv.lock_off
      /\ chip'.rx = chip.rx /\ chip'.csn = chip.csn /\ chip'.ie = chip.ie
      /\ chip'.over = chip.over /\ chip'.air = chip.air
      /\ chip'.fifo = chip.fifo
  BY <1>1 DEF CaptureInterrupt, FifopInterrupt, Drivers, Chips
<1>4. At(a, t, b, u)' /\ Radio(a, t, b, u)'
  BY <1>2, <1>3, RadioStays DEF Standing, At
<1>5. Wanted(a, t, b, u)'
  BY <1>2, <1>3 DEF Standing, Wanted, Asked, Active, Alone
<1>6. Given(t, u)'
  <2> SUFFICES ASSUME met.slots = 0, ~ met.queue
               PROVE  Armed(t)' /\ Begun' /\ Held(t)' /\ Handed(t)'
    BY <1>2 DEF Given, Active
  <2>1. Armed(t) /\ Begun /\ Held(t) /\ Handed(t)
    BY <1>2 DEF Standing, Given, Active
  <2>2. Armed(t)' /\ Handed(t)'
    BY <1>2, <1>3, <2>1 DEF Armed, Handed
  <2>3. CASE CaptureInterrupt
    <3>1. /\ drv'.start = IF chip.air # None THEN chip.air ELSE drv.start
          /\ drv'.polled = drv.polled /\ drv'.last = drv.last
          /\ chip'.ifg = chip.ifg
      BY <1>1, <2>3 DEF CaptureInterrupt, Drivers, Chips
    <3>2. Begun'
      BY <1>3, <2>1, <3>1 DEF Begun
    <3>3. CASE Nothing(t)
      BY <1>3, <2>2, <3>1, <3>2, <3>3 DEF Held, Nothing
    <3>4. CASE \E f \in Frames : Waits(f, t)
      <4>1. PICK f \in Frames : Waits(f, t)
        BY <3>4
      <4>2. Taken(f, t) => Taken(f, t)'
        BY <1>2, <1>3, <3>1 DEF Taken
      <4>3. Waits(f, t)'
        BY <1>3, <3>1, <4>1, <4>2 DEF Waits
      <4> QED BY <2>2, <3>2, <4>3 DEF Held
    <3> QED BY <2>1, <3>3, <3>4 DEF Held
  <2>4. CASE FifopInterrupt
    <3>1. /\ drv'.start = drv.start /\ drv'.polled /\ drv'.last = drv.start
          /\ ~ chip'.ifg /\ chip'.capture = chip.capture
          /\ chip.ifg
      BY <1>1, <2>4 DEF FifopInterrupt, Drivers, Chips
    <3>2. Begun'
      BY <1>3, <2>1, <3>1 DEF Begun
    <3>3. PICK f \in Frames : Waits(f, t)
      BY <2>1, <3>1 DEF Held, Nothing
    <3>4. Waits(f, t)'
      BY <1>3, <3>1, <3>3 DEF Waits
    <3> QED BY <2>2, <3>2, <3>4 DEF Held
  <2> QED BY <2>3, <2>4
<1> QED BY <1>4, <1>5, <1>6 DEF Standing

LEMMA StartMoves ==
  ASSUME LockInv, NEW a, NEW t, NEW b, NEW u, Standing(a, t, b, u), StartFrame
  PROVE  Standing(a, t, b, u)'
<1>1. drv \in Drivers /\ chip \in Chips /\ met \in Mets /\ heard \in Nat
  BY Types DEF LockInv, Chip
<1>2. /\ UNCHANGED <<drv, todo, buf, want>> /\ chip.rx
      /\ chip' = [chip EXCEPT !.air = heard + 1, !.capture = TRUE]
      /\ met' = [met EXCEPT !.slots = IF todo["isr"] = << >> THEN @ ELSE @ + 1,
                            !.queue = @ \/ FIFOP(chip)]
  BY DEF StartFrame
<1>3. /\ met'.slots = IF todo["isr"] = << >> THEN met.slots ELSE met.slots + 1
      /\ met'.release = met.release /\ met'.again = met.again
      /\ met'.queue = (met.queue \/ FIFOP(chip))
      /\ met.slots \in Nat
  <2>1. FIFOP(chip) \in BOOLEAN
    BY DEF FIFOP
  <2> QED BY <1>1, <1>2, <2>1 DEF Mets
<1>4. /\ chip'.rx = chip.rx /\ chip'.csn = chip.csn /\ chip'.ie = chip.ie
      /\ chip'.over = chip.over /\ chip'.fifo = chip.fifo
      /\ chip'.ifg = chip.ifg /\ chip'.capture
  BY <1>1, <1>2 DEF Chips
<1>5. At(a, t, b, u)' /\ Radio(a, t, b, u)'
  BY <1>2, <1>3, <1>4, RadioStays DEF Standing, At
<1>6. ASSUME met'.slots = 0 PROVE met.slots = 0 /\ todo["isr"] = << >>
  BY <1>3, <1>6
<1>7. Wanted(a, t, b, u)'
  <2> SUFFICES ASSUME met'.slots = 0 PROVE Wanted(a, t, b, u)'
    BY DEF Wanted
  <2> QED BY <1>2, <1>3, <1>6 DEF Standing, Wanted, Asked, Active, Alone
<1>8. Given(t, u)'
  <2> SUFFICES ASSUME met'.slots = 0, ~ met'.queue PROVE Given(t, u)'
    BY DEF Given
  <2>1. /\ Armed(t) /\ Begun /\ Held(t) /\ Handed(t) /\ ~ FIFOP(chip)
        /\ Agrees(t, FALSE)
    <3>1. Stand(a, t, b, u)
      BY StandIs DEF Standing
    <3> QED BY <1>3, <1>6, <3>1, AgreesAlone DEF Standing, Given, Active
  <2>2. Nothing(t)
    BY <2>1, Fifo DEF Held, Waits
  <2>3. chip.fifo = << >>
    <3>1. t \notin {"off5", "off6"}
      BY <1>2, <2>1 DEF Agrees
    <3> QED BY <2>2, <3>1 DEF Nothing
  <2>4. Armed(t)' /\ Begun' /\ Held(t)' /\ Handed(t)'
    BY <1>2, <1>4, <2>1, <2>2, <2>3 DEF Armed, Begun, Held, Nothing, Handed
  <2> QED BY <1>2, <1>6, <2>4 DEF Given, Active
<1> QED BY <1>5, <1>7, <1>8 DEF Standing

LEMMA EndMoves ==
  ASSUME LockInv, NEW a, NEW t, NEW b, NEW u, Standing(a, t, b, u), EndFrame
  PROVE  Standing(a, t, b, u)'
<1>1. drv \in Drivers /\ chip \in Chips
  BY Types DEF LockInv, Chip
<1>2. /\ UNCHANGED <<drv, todo, buf, heard, want, met>> /\ InTime
      /\ chip.air # None
  BY DEF EndFrame
<1>3. /\ chip'.rx = chip.rx /\ chip'.csn = chip.csn /\ chip'.ie = chip.ie
      /\ chip'.air = None
  BY <1>1 DEF EndFrame, Chips
<1>4. At(a, t, b, u)' /\ Radio(a, t, b, u)'
  BY <1>2, <1>3, RadioStays DEF Standing, At
<1>5. ASSUME met.slots = 0 PROVE todo["isr"] = << >> /\ ~ Pending
  BY <1>2, <1>5 DEF Standing, Wanted, Alone, InTime
<1>6. Wanted(a, t, b, u)'
  BY <1>2, <1>5 DEF Standing, Wanted, Asked, Active, Alone
<1>7. Given(t, u)'
  <2> SUFFICES ASSUME met.slots = 0, ~ met.queue PROVE Given(t, u)'
    BY <1>2 DEF Given
  <2>1. Armed(t) /\ Begun /\ Held(t) /\ Handed(t)
    BY <1>5 DEF Standing, Given, Active
  <2>2. /\ chip.rx /\ chip.fifo = << >> /\ drv.start = chip.air
        /\ chip.ie /\ ~ chip.over
    BY <1>2, <1>5, <2>1 DEF Begun, Armed, Pending
  <2>3. Nothing(t) /\ ~ FIFOP(chip)
    BY <2>1, <2>2, Fifo DEF Held, Waits
  <2>4. PICK f \in Frames : f = chip.air
    BY <1>1, <1>2 DEF Chips, Frames, None
  <2>5. /\ Len(chip.fifo) = 0 /\ Len(chip.fifo) < Room
        /\ Append(chip.fifo, f) = <<f>>
    BY <2>2, Fifo
  <2>6. chip' = [chip EXCEPT !.air = None, !.capture = TRUE, !.ifg = TRUE,
                             !.over = FALSE, !.fifo = <<f>>]
    BY <1>1, <2>3, <2>4, <2>5 DEF EndFrame
  <2>7. chip'.ifg /\ ~ chip'.over /\ chip'.fifo = <<f>>
    BY <1>1, <2>6 DEF Chips
  <2>8. Waits(f, t)'
    BY <1>2, <1>3, <2>2, <2>3, <2>4, <2>7 DEF Waits, Nothing
  <2>9. Armed(t)'
    BY <1>2, <1>3, <2>1, <2>7 DEF Armed
  <2>10. Begun' /\ Held(t)' /\ Handed(t)'
    BY <1>2, <1>3, <2>1, <2>8 DEF Begun, Held, Handed
  <2> QED BY <1>2, <1>5, <2>9, <2>10 DEF Given, Active
<1> QED BY <1>4, <1>6, <1>7 DEF Standing

-----------------------------------------------------------------------------
LEMMA RadioInit == Init => RadioInv
<1> SUFFICES ASSUME Init PROVE RadioInv
  OBVIOUS
<1>1. LockInv
  BY LockInit
<1>2. /\ todo["main"] = << >> /\ todo["isr"] = << >> /\ met.slots = 0
      /\ met.release = FALSE /\ met.again = FALSE
      /\ want = "off" /\ drv.receive_on = FALSE /\ drv.lock_on = FALSE
      /\ drv.lock_off = FALSE /\ drv.polled = FALSE /\ chip.rx = FALSE
      /\ chip.air = None /\ chip.fifo = << >>
      /\ ~ chip.over /\ ~ chip.ifg
  BY DEF Init
<1>3. At("free", "none", "free", "none")
  <2>1. Rested \in Places
    BY PlaceIs DEF Rested, Points, Stages, Bases, Outside, Inside, Oning,
         Offing, Fits
  <2> QED BY <1>2, <2>1, WayNothing DEF At, Rested
<1>4. Radio("free", "none", "free", "none")
  BY <1>2 DEF Radio, Agrees, Waiting, Needed, Ons, Oning, Offing
<1>5. Wanted("free", "none", "free", "none")
  BY <1>2 DEF Wanted, Asked, Active, Alone, Ons, Oning, Offs, Offing
<1>6. Given("none", "none")
  BY <1>2 DEF Given, Active, Armed, Begun, Held, Nothing, Taking, Handed
<1> QED BY <1>1, <1>3, <1>4, <1>5, <1>6 DEF RadioInv, Standing

LEMMA RadioNext == RadioInv /\ [Next]_vars => RadioInv'
<1> SUFFICES ASSUME RadioInv, [Next]_vars PROVE RadioInv'
  OBVIOUS
<1>1. LockInv /\ LockInv'
  BY LockNext DEF RadioInv
<1>2. PICK a, t, b, u : Standing(a, t, b, u)
  BY DEF RadioInv
<1>3. CASE Executes("main")
  BY <1>1, <1>2, <1>3, MainMoves DEF RadioInv
<1>4. CASE Executes("isr")
  BY <1>1, <1>2, <1>4, IsrMoves DEF RadioInv
<1>5. CASE Poll \/ Callback
  BY <1>1, <1>2, <1>5, PollMoves DEF RadioInv
<1>6. CASE SlotInterrupt
  BY <1>1, <1>2, <1>6, SlotMoves DEF RadioInv
<1>7. CASE CaptureInterrupt \/ FifopInterrupt
  BY <1>1, <1>2, <1>7, InterruptMoves DEF RadioInv
<1>8. CASE StartFrame \/ EndFrame
  BY <1>1, <1>2, <1>8, StartMoves, EndMoves DEF RadioInv
<1>9. CASE UNCHANGED vars
  <2>1. /\ drv' = drv /\ chip' = chip /\ todo' = todo /\ buf' = buf
        /\ want' = want /\ met' = met
    BY <1>9 DEF vars
  <2>2. At(a, t, b, u)' /\ Radio(a, t, b, u)'
    BY <1>2, <2>1, RadioStays DEF Standing, At
  <2>3. Wanted(a, t, b, u)'
    BY <1>2, <2>1 DEF Standing, Wanted, Asked, Active, Alone
  <2>4. Given(t, u)'
    BY <1>2, <2>1
    DEF Standing, Given, Active, Armed, Begun, Held, Nothing, Waits, Taken,
        Handed
  <2> QED BY <1>1, <2>2, <2>3, <2>4 DEF RadioInv, Standing
<1> QED
  BY <1>3, <1>4, <1>5, <1>6, <1>7, <1>8, <1>9
  DEF Next, Main, Isr, Executes

LEMMA RadioAlways == Spec => []RadioInv
<1>1. Init => RadioInv
  BY RadioInit
<1>2. RadioInv /\ [Next]_vars => RadioInv'
  BY RadioNext
<1> QED BY <1>1, <1>2, PTL DEF Spec

LEMMA RadioKnown == RadioInv => Honoured
<1> SUFFICES ASSUME RadioInv, Idle
             PROVE  /\ ~ met.release => chip.rx = drv.receive_on
                    /\ met.slots = 0 => drv.receive_on = (want = "on")
  BY DEF Honoured
<1>1. PICK a, t, b, u : Standing(a, t, b, u)
  BY DEF RadioInv
<1>2. a = "free" /\ t = "none" /\ todo["isr"] = << >>
  <2>1. Stand(a, t, b, u)
    BY <1>1, StandIs DEF Standing, RadioInv
  <2> QED BY <2>1 DEF Stand, Idle
<1>3. ASSUME ~ met.release PROVE chip.rx = drv.receive_on
  <2>1. Agrees("none", Waiting("free")) /\ ~ Waiting("free")
    BY <1>1, <1>2, <1>3 DEF Standing, Radio, Waiting
  <2> QED BY <2>1 DEF Agrees, Still, Bases
<1>4. ASSUME met.slots = 0 PROVE drv.receive_on = (want = "on")
  <2>1. Asked("none")
    BY <1>1, <1>2, <1>4 DEF Standing, Wanted, Active
  <2> QED BY <2>1 DEF Asked, Ons, Offs, Oning, Offing
<1> QED BY <1>3, <1>4

LEMMA FramesWhole == RadioInv => HandsOverFrames
<1> SUFFICES ASSUME RadioInv, Inputs, buf.frame # None
             PROVE  buf.frame \in Frames /\ buf.stamp = buf.frame
  BY DEF HandsOverFrames
<1>1. PICK a, t, b, u : Standing(a, t, b, u)
  BY DEF RadioInv
<1>2. /\ met.slots = 0 /\ ~ met.queue /\ todo["main"] # << >>
      /\ Head(todo["main"]) = "input"
  BY DEF Inputs
<1>3. PICK m, n : Turn("input", a, t, n)
  BY <1>1, <1>2, WayHead DEF Standing, At
<1>4. t = "handing"
  BY <1>3 DEF Turn, Locking
<1>5. todo["isr"] = << >>
  BY <1>1, <1>2 DEF Standing, Wanted
<1>6. Handed("handing")
  BY <1>1, <1>2, <1>4, <1>5 DEF Standing, Given, Active
<1> QED BY <1>6 DEF Handed

-----------------------------------------------------------------------------
\* cc2420.c:79-107, 187-240, 396-523, 682-794: locked counts the contexts
\* between a GET_LOCK and its RELEASE_LOCK, so that every way through the
\* driver gives the lock back once, wherever the slot interrupts the main
\* loop and whatever either of them leaves behind for the other.
THEOREM LockGivenBack == Spec => []LockBalanced
<1>1. LockInv => LockBalanced
  BY Holders DEF LockInv, LockBalanced, Sound
<1> QED BY <1>1, LockAlways, PTL

\* cc2420.c:84-98, 486-523: a request to turn the radio on or off that finds
\* the driver locked has been seen to when the lock is free again, unless a
\* slot has come in RELEASE_LOCK behind the test of its flag.
THEOREM RequestsSeenTo == Spec => []DeferredDone
<1>1. LockInv => DeferredDone
  <2> SUFFICES ASSUME LockInv, ~ met.release, drv.locked = 0
               PROVE  ~ drv.lock_on /\ ~ drv.lock_off
    BY DEF DeferredDone
  <2>1. PICK p : Sound(p)
    BY DEF LockInv
  <2>2. p["main"] = "free" /\ LeftBehind(p["main"])
    <3>1. drv.locked = Took(p["main"]) + Took(p["isr"])
      BY <2>1 DEF Sound
    <3> QED BY <2>1, <3>1 DEF Sound, Took
  <2> QED BY <2>2 DEF LeftBehind
<1> QED BY <1>1, LockAlways, PTL

\* cc2420.c:625-676, 682-794: as long as the radio says there is a frame in
\* its FIFO, its interrupt is pending, the process is polled, or the process
\* is still going to look at the FIFO.
THEOREM FramesNoticed == Spec => []Noticed
<1>1. LockInv => Noticed
  BY DEF LockInv, Notice, Noticed, Reading
<1> QED BY <1>1, LockAlways, PTL

\* cc2420.c:79-107, 196-240, 486-523: when no call is under way, the receiver
\* is on exactly if receive_on says so, unless a slot has come in RELEASE_LOCK
\* behind the test of its flag; and as long as no slot has met anything,
\* receive_on is what was asked for last.
THEOREM RadioHonoured == Spec => []Honoured
<1> QED BY RadioKnown, RadioAlways, PTL

\* cc2420.c:608-676, 682-794: as long as no slot has met anything and no frame
\* has begun when another one waited, the RDC layer is given a frame that has
\* been received, with the time that this frame, and no other, began.
THEOREM ReceivedHandedOver == Spec => []HandsOverFrames
<1> QED BY FramesWhole, RadioAlways, PTL
=============================================================================
