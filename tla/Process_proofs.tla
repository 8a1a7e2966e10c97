--------------------------- MODULE Process_proofs ---------------------------
(***************************************************************************)
(* The kernel, for all numbers of processes and of events and every depth  *)
(* of calls.  First the ring of events, which implements EventQueue.  Then *)
(* the processes: who runs is on the list, a broadcast reaches everybody   *)
(* who stays, and the loop does not sleep while there is something to do.  *)
(*                                                                         *)
(* These need one inductive invariant, KernelInv, about what is left of    *)
(* the turn of the main loop (Shape), who is on the list and why (Members) *)
(* and whom the walks over the list still have to meet (Polls, Dues).      *)
(* While nobody was ended in a call of its own there is more (Whole): who  *)
(* is being called (Threads), who is leaving the list (Leaves), and where  *)
(* the walks stand (Walks). Afterwards a process may run off the list, and *)
(* a walk of do_poll may leave it.                                         *)
(***************************************************************************)
EXTENDS Process, SequenceTheorems, TLAPS

USE ProcessAssumption

QueueOK ==
  /\ events \in [Slots -> Event] /\ nevents \in 0 .. NumEvents
  /\ fevent \in Slots /\ receiver \in Event

(* Places go round: i + j places after the first. *)
LEMMA Places ==
  ASSUME NEW i \in Slots, NEW j \in 0 .. NumEvents
  PROVE  /\ Place(i, j) \in Slots
         /\ Place(i, 0) = i
         /\ \A k \in 0 .. NumEvents - 1 : k # j /\ j < NumEvents
              => Place(i, k) # Place(i, j)
         /\ j < NumEvents => Place(Place(i, 1), j) = Place(i, j + 1)
  BY DEF Slots, Place

LEMMA AppendIs ==
  ASSUME NEW S, NEW s \in Seq(S), NEW e \in S
  PROVE  Append(s, e) = [i \in 1 .. Len(s) + 1 |->
                           IF i = Len(s) + 1 THEN e ELSE s[i]]
  <1>1. /\ Append(s, e) \in Seq(S) /\ Len(Append(s, e)) = Len(s) + 1
        /\ \A i \in 1 .. Len(s) : Append(s, e)[i] = s[i]
        /\ Append(s, e)[Len(s) + 1] = e
    BY AppendProperties
  <1>2. Len(s) \in Nat /\ Append(s, e) \in [1 .. Len(s) + 1 -> S]
    BY <1>1, LenProperties
  <1>3. \A i \in 1 .. Len(s) + 1 :
          Append(s, e)[i] = IF i = Len(s) + 1 THEN e ELSE s[i]
    BY <1>1, <1>2
  <1> QED BY <1>2, <1>3

LEMMA TailIs ==
  ASSUME NEW S, NEW s \in Seq(S), s # <<>>
  PROVE  /\ Head(s) = s[1]
         /\ Tail(s) = [i \in 1 .. Len(s) - 1 |-> s[i + 1]]
  <1>1. /\ Tail(s) \in Seq(S) /\ Len(Tail(s)) = Len(s) - 1
        /\ \A i \in 1 .. Len(Tail(s)) : Tail(s)[i] = s[i + 1]
    BY HeadTailProperties
  <1>2. Tail(s) \in [1 .. Len(s) - 1 -> S]
    BY <1>1, LenProperties
  <1>3. Head(s) = s[1]
    OBVIOUS
  <1> QED BY <1>1, <1>2, <1>3

LEMMA InitQueue == Init => QueueOK /\ Queue!Init
  <1> SUFFICES ASSUME Init PROVE QueueOK /\ Queue!Init
    OBVIOUS
  <1>1. QueueOK
    BY DEF Init, QueueOK, Slots, Event
  <1>2. Waiting = <<>>
    BY DEF Init, Waiting
  <1> QED BY <1>1, <1>2 DEF Init, Queue!Init, Event

LEMMA WaitingIsSeq ==
  ASSUME QueueOK
  PROVE  Waiting \in Seq(Event) /\ Len(Waiting) = nevents
  <1>1. \A i \in 1 .. nevents : events[Place(fevent, i - 1)] \in Event
    BY Places DEF QueueOK
  <1>2. Waiting \in [1 .. nevents -> Event] /\ nevents \in Nat
    BY <1>1 DEF Waiting, QueueOK
  <1> QED BY <1>2

(* process_post *)
LEMMA PostStep ==
  ASSUME QueueOK, NEW e \in Event, Post(e)
  PROVE  QueueOK' /\ (Queue!Post \/ UNCHANGED <<Waiting, receiver>>)
  <1>1. CASE nevents = NumEvents
    <2>1. UNCHANGED <<events, nevents, fevent, receiver>>
      BY <1>1 DEF Post, queue
    <2> QED BY <2>1 DEF QueueOK, Waiting
  <1>2. CASE nevents # NumEvents
    <2>1. /\ events' = [events EXCEPT ![Place(fevent, nevents)] = e]
          /\ nevents' = nevents + 1 /\ fevent' = fevent /\ receiver' = receiver
      BY <1>2 DEF Post, snum
    <2>2. Place(fevent, nevents) \in Slots
      BY Places DEF QueueOK
    <2>3. QueueOK'
      BY <1>2, <2>1, <2>2 DEF QueueOK
    <2>4. Waiting' = [i \in 1 .. nevents + 1 |->
                        events'[Place(fevent, i - 1)]]
      BY <2>1 DEF Waiting, Place
    <2>5. \A i \in 1 .. nevents :
            events'[Place(fevent, i - 1)] = Waiting[i]
      <3> SUFFICES ASSUME NEW i \in 1 .. nevents
                   PROVE  events'[Place(fevent, i - 1)] = Waiting[i]
        OBVIOUS
      <3>1. /\ i - 1 \in 0 .. NumEvents - 1 /\ i - 1 # nevents
            /\ nevents < NumEvents
        BY <1>2 DEF QueueOK
      <3>2. /\ Place(fevent, i - 1) # Place(fevent, nevents)
            /\ Place(fevent, i - 1) \in Slots
        BY <3>1, Places DEF QueueOK
      <3> QED BY <2>1, <3>2 DEF QueueOK, Waiting
    <2>6. events'[Place(fevent, nevents)] = e
      BY <2>1, <2>2 DEF QueueOK
    <2>7. Waiting' = Append(Waiting, e)
      <3>1. Waiting \in Seq(Event) /\ Len(Waiting) = nevents
        BY WaitingIsSeq
      <3>2. /\ Append(Waiting, e) \in Seq(Event)
            /\ Append(Waiting, e) = [i \in 1 .. nevents + 1 |->
                 IF i = nevents + 1 THEN e ELSE Waiting[i]]
        BY <3>1, AppendIs, AppendProperties
      <3>3. \A i \in 1 .. nevents + 1 :
              events'[Place(fevent, i - 1)]
                = IF i = nevents + 1 THEN e ELSE Waiting[i]
        BY <2>5, <2>6 DEF QueueOK
      <3> QED BY <2>4, <3>2, <3>3
    <2> QED BY <1>2, <2>1, <2>3, <2>7, WaitingIsSeq DEF Queue!Post, QueueOK
  <1> QED BY <1>1, <1>2

(* do_event *)
LEMMA TakeStep ==
  ASSUME QueueOK, TakeEvent
  PROVE  QueueOK' /\ (Queue!Take \/ UNCHANGED <<Waiting, receiver>>)
  <1>1. CASE nevents = 0
    <2>1. UNCHANGED <<events, nevents, fevent, receiver>>
      BY <1>1 DEF TakeEvent, queue
    <2> QED BY <2>1 DEF QueueOK, Waiting
  <1>2. CASE nevents # 0
    <2>1. /\ receiver' = events[fevent] /\ events' = events
          /\ fevent' = Place(fevent, 1) /\ nevents' = nevents - 1
      BY <1>2 DEF TakeEvent
    <2>2. QueueOK'
      BY <1>2, <2>1, Places DEF QueueOK
    <2>3. Waiting \in Seq(Event) /\ Len(Waiting) = nevents
      BY WaitingIsSeq
    <2>4. /\ Waiting # <<>> /\ Head(Waiting) = Waiting[1]
          /\ Tail(Waiting) = [i \in 1 .. nevents - 1 |-> Waiting[i + 1]]
      <3>1. Waiting # <<>>
        BY <1>2, <2>3
      <3> QED BY <2>3, <3>1, TailIs
    <2>5. Waiting[1] = receiver'
      <3>1. Waiting[1] = events[Place(fevent, 1 - 1)]
        BY <1>2 DEF Waiting, QueueOK
      <3> QED BY <2>1, <3>1, Places DEF QueueOK
    <2>6. Waiting' = Tail(Waiting)
      <3>1. Waiting' = [i \in 1 .. nevents - 1 |->
                          events[Place(Place(fevent, 1), i - 1)]]
        BY <2>1 DEF Waiting, Place
      <3>2. \A i \in 1 .. nevents - 1 :
              events[Place(Place(fevent, 1), i - 1)] = Waiting[i + 1]
        <4> SUFFICES ASSUME NEW i \in 1 .. nevents - 1
                     PROVE  events[Place(Place(fevent, 1), i - 1)]
                              = Waiting[i + 1]
          OBVIOUS
        <4>1. i - 1 \in 0 .. NumEvents /\ i - 1 < NumEvents
          BY DEF QueueOK
        <4>2. Place(Place(fevent, 1), i - 1) = Place(fevent, (i - 1) + 1)
          BY <4>1, Places DEF QueueOK
        <4>3. Waiting[i + 1] = events[Place(fevent, (i + 1) - 1)]
          BY DEF Waiting, QueueOK
        <4>4. (i - 1) + 1 = (i + 1) - 1
          OBVIOUS
        <4> QED BY <4>2, <4>3, <4>4
      <3> QED BY <2>4, <3>1, <3>2
    <2> QED BY <2>2, <2>4, <2>5, <2>6 DEF Queue!Take
  <1> QED BY <1>1, <1>2

LEMMA StepQueue ==
  ASSUME QueueOK, [Next]_vars
  PROVE  QueueOK' /\ [Queue!Post \/ Queue!Take]_<<Waiting, receiver>>
  <1>1. CASE Thread \/ Farewell
    <2>1. CASE \E e \in Posted : Post(e)
      <3>1. Posted \subseteq Event
        BY DEF Event
      <3> QED BY <2>1, <3>1, PostStep
    <2>2. CASE UNCHANGED <<queue, receiver>>
      BY <2>2 DEF queue, QueueOK, Waiting
    <2> QED BY <1>1, <2>1, <2>2 DEF Thread, Farewell, Does
  <1>2. CASE TakeEvent
    BY <1>2, TakeStep
  <1>3. CASE UNCHANGED <<queue, receiver>>
    BY <1>3 DEF queue, QueueOK, Waiting
  <1>4. ASSUME [Next]_vars, ~ Thread, ~ Farewell, ~ TakeEvent
        PROVE  UNCHANGED <<queue, receiver>>
    BY <1>4 DEF Next, Main, vars, Interrupt, Start, Call, Exit, Exited, Unlink,
       Waits, Run, Reset, Poll, Clear, Broadcast, Give, Idle, Sleep, queue
  <1> QED BY <1>1, <1>2, <1>3, <1>4

(* process.c:323-360, 262-273: events are taken in the order in which they *)
(* were posted, each of them once, and a full queue loses only the event   *)
(* that is posted to it, for every number of places.                       *)
THEOREM QueueInOrder == Spec => InOrder
  <1>1. Init => QueueOK /\ Queue!Init
    BY InitQueue
  <1>2. QueueOK /\ [Next]_vars
          => QueueOK' /\ [Queue!Post \/ Queue!Take]_<<Waiting, receiver>>
    BY StepQueue
  <1> QED BY <1>1, <1>2, PTL DEF Spec, InOrder, Queue!Spec

-----------------------------------------------------------------------------
(* Statements, and what a step makes of them. *)

(* The statements that are about one process. *)
Ones == {"thread", "waits", "call", "start", "exit", "kill", "farewell",
         "unlink", "clear", "give"}

(* All statements of the main loop. *)
Statement ==
  {<<"reset">>, <<"event">>, <<"idle">>, <<"sleep">>}
    \cup (Ones \X Procs)
    \cup ({"poll", "broadcast"} \X (Procs \cup {NULL}))
    \cup ({"exited"} \X Procs \X (Procs \cup {NULL}))

LEMMA StatementIs ==
  ASSUME NEW s \in Statement
  PROVE  /\ s[1] \in Ones => s[2] \in Procs /\ s = <<s[1], s[2]>>
         /\ s[1] \in {"poll", "broadcast"} =>
              s[2] \in Procs \cup {NULL} /\ s = <<s[1], s[2]>>
         /\ s[1] = "exited" => s[2] \in Procs /\ s[3] \in Procs \cup {NULL}
         /\ s[1] = "reset" => s = <<"reset">>
  BY DEF Statement, Ones

LEMMA IsStatement ==
  /\ \A p \in Procs :
       /\ <<"thread", p>> \in Statement /\ <<"waits", p>> \in Statement
       /\ <<"call", p>> \in Statement /\ <<"start", p>> \in Statement
       /\ <<"exit", p>> \in Statement /\ <<"farewell", p>> \in Statement
       /\ <<"unlink", p>> \in Statement /\ <<"clear", p>> \in Statement
       /\ <<"give", p>> \in Statement /\ <<"kill", p>> \in Statement
       /\ \A q \in Procs \cup {NULL} : <<"exited", p, q>> \in Statement
  /\ \A q \in Procs \cup {NULL} :
       <<"poll", q>> \in Statement /\ <<"broadcast", q>> \in Statement
  /\ <<"reset">> \in Statement /\ <<"event">> \in Statement
  /\ <<"idle">> \in Statement /\ <<"sleep">> \in Statement
  BY DEF Statement, Ones

(* The statements after those that have been put in front of the rest. *)
LEMMA ThenIs ==
  ASSUME NEW S, todo \in Seq(S), todo # <<>>, NEW new \in Seq(S), Then(new)
  PROVE  /\ todo' \in Seq(S)
         /\ Len(todo) \in Nat \ {0} /\ Len(new) \in Nat
         /\ Len(todo') = Len(new) + Len(todo) - 1
         /\ \A i \in 1 .. Len(new) : todo'[i] = new[i]
         /\ \A i \in 2 .. Len(todo) : todo'[Len(new) + i - 1] = todo[i]
         /\ \A i \in DOMAIN todo' :
              \/ i \in 1 .. Len(new) /\ todo'[i] = new[i]
              \/ /\ i - Len(new) + 1 \in 2 .. Len(todo)
                 /\ todo'[i] = todo[i - Len(new) + 1]
  <1>1. /\ Tail(todo) \in Seq(S) /\ Len(Tail(todo)) = Len(todo) - 1
        /\ \A i \in 1 .. Len(Tail(todo)) : Tail(todo)[i] = todo[i + 1]
    BY HeadTailProperties
  <1>2. todo' = new \o Tail(todo)
    BY DEF Then
  <1>3. /\ todo' \in Seq(S) /\ Len(todo') = Len(new) + Len(Tail(todo))
        /\ \A i \in 1 .. Len(new) + Len(Tail(todo)) :
             todo'[i] = IF i <= Len(new) THEN new[i]
                        ELSE Tail(todo)[i - Len(new)]
    BY <1>1, <1>2, ConcatProperties
  <1>4. /\ Len(todo) \in Nat \ {0} /\ Len(new) \in Nat
        /\ DOMAIN todo' = 1 .. Len(todo')
    BY <1>3, LenProperties, EmptySeq
  <1>5. ASSUME NEW i \in DOMAIN todo'
        PROVE  \/ i \in 1 .. Len(new) /\ todo'[i] = new[i]
               \/ /\ i - Len(new) + 1 \in 2 .. Len(todo)
                  /\ todo'[i] = todo[i - Len(new) + 1]
    <2>1. CASE i <= Len(new)
      BY <2>1, <1>3, <1>4
    <2>2. CASE i > Len(new)
      <3>1. /\ i - Len(new) \in 1 .. Len(Tail(todo)) /\ ~ i <= Len(new)
            /\ i \in 1 .. Len(new) + Len(Tail(todo))
            /\ (i - Len(new)) + 1 = i - Len(new) + 1
        BY <2>2, <1>1, <1>3, <1>4
      <3>2. todo'[i] = Tail(todo)[i - Len(new)]
        BY <3>1, <1>3
      <3>3. Tail(todo)[i - Len(new)] = todo[(i - Len(new)) + 1]
        BY <3>1, <1>1
      <3> QED BY <3>1, <3>2, <3>3, <1>1, <1>4
    <2> QED BY <2>1, <2>2, <1>3, <1>4
  <1>6. ASSUME NEW i \in 2 .. Len(todo)
        PROVE  todo'[Len(new) + i - 1] = todo[i]
    <2>1. /\ Len(new) + i - 1 \in 1 .. Len(new) + Len(Tail(todo))
          /\ ~ Len(new) + i - 1 <= Len(new)
          /\ (Len(new) + i - 1) - Len(new) = i - 1
          /\ i - 1 \in 1 .. Len(Tail(todo)) /\ (i - 1) + 1 = i
      BY <1>1, <1>4
    <2> QED BY <2>1, <1>1, <1>3
  <1>7. \A i \in 1 .. Len(new) : todo'[i] = new[i]
    BY <1>1, <1>3, <1>4
  <1> QED BY <1>1, <1>3, <1>4, <1>5, <1>6, <1>7

(* Lists of a few statements. *)
LEMMA Texts ==
  ASSUME NEW S
  PROVE  /\ <<>> \in Seq(S) /\ Len(<<>>) = 0
         /\ \A a \in S : <<a>> \in Seq(S) /\ Len(<<a>>) = 1
         /\ \A a, b \in S : <<a, b>> \in Seq(S) /\ Len(<<a, b>>) = 2
         /\ \A a, b, c \in S :
              <<a, b, c>> \in Seq(S) /\ Len(<<a, b, c>>) = 3
         /\ \A a, b, c, d \in S :
              <<a, b, c, d>> \in Seq(S) /\ Len(<<a, b, c, d>>) = 4
  OBVIOUS

(* What \o makes of short lists. *)
LEMMA Join11 ==
  ASSUME NEW S, NEW a \in S, NEW b \in S
  PROVE  <<a>> \o <<b>> = <<a, b>>
  <1>1. <<a>> \in Seq(S) /\ <<b>> \in Seq(S) /\ <<a, b>> \in Seq(S)
    BY Texts
  <1>2. /\ <<a>> \o <<b>> \in Seq(S) /\ Len(<<a>> \o <<b>>) = 2
        /\ (<<a>> \o <<b>>)[1] = a /\ (<<a>> \o <<b>>)[2] = b
    BY <1>1, ConcatProperties
  <1>3. ASSUME NEW i \in 1 .. 2
        PROVE  (<<a>> \o <<b>>)[i] = <<a, b>>[i]
    BY <1>2
  <1>4. Len(<<a, b>>) = 2
    OBVIOUS
  <1> QED BY <1>1, <1>2, <1>3, <1>4, SeqEqual

LEMMA Join21 ==
  ASSUME NEW S, NEW a \in S, NEW b \in S, NEW c \in S
  PROVE  <<a, b>> \o <<c>> = <<a, b, c>>
  <1>1. <<a, b>> \in Seq(S) /\ <<c>> \in Seq(S) /\ <<a, b, c>> \in Seq(S)
    BY Texts
  <1>2. /\ <<a, b>> \o <<c>> \in Seq(S) /\ Len(<<a, b>> \o <<c>>) = 3
        /\ (<<a, b>> \o <<c>>)[1] = a /\ (<<a, b>> \o <<c>>)[2] = b
        /\ (<<a, b>> \o <<c>>)[3] = c
    BY <1>1, ConcatProperties
  <1>3. ASSUME NEW i \in 1 .. 3
        PROVE  (<<a, b>> \o <<c>>)[i] = <<a, b, c>>[i]
    BY <1>2
  <1>4. Len(<<a, b, c>>) = 3
    OBVIOUS
  <1> QED BY <1>1, <1>2, <1>3, <1>4, SeqEqual

LEMMA Join22 ==
  ASSUME NEW S, NEW a \in S, NEW b \in S, NEW c \in S, NEW d \in S
  PROVE  <<a, b>> \o <<c, d>> = <<a, b, c, d>>
  <1>1. /\ <<a, b>> \in Seq(S) /\ <<c, d>> \in Seq(S)
        /\ <<a, b, c, d>> \in Seq(S)
    BY Texts
  <1>2. /\ <<a, b>> \o <<c, d>> \in Seq(S)
        /\ Len(<<a, b>> \o <<c, d>>) = 4
        /\ (<<a, b>> \o <<c, d>>)[1] = a /\ (<<a, b>> \o <<c, d>>)[2] = b
        /\ (<<a, b>> \o <<c, d>>)[3] = c /\ (<<a, b>> \o <<c, d>>)[4] = d
    BY <1>1, ConcatProperties
  <1>3. ASSUME NEW i \in 1 .. 4
        PROVE  (<<a, b>> \o <<c, d>>)[i] = <<a, b, c, d>>[i]
    BY <1>2
  <1>4. Len(<<a, b, c, d>>) = 4
    OBVIOUS
  <1> QED BY <1>1, <1>2, <1>3, <1>4, SeqEqual

-----------------------------------------------------------------------------
(* The invariant. *)

(* How far the main loop is when the statement is its turn: a statement of  *)
(* a call, whose rank is 0, has to come before all the others.              *)
Rank(s) ==
  CASE s[1] = "reset" -> 1
    [] s[1] = "poll" -> 2
    [] s[1] = "give" -> 3
    [] s[1] = "broadcast" -> 4
    [] s[1] = "event" -> 5
    [] s[1] \in {"idle", "sleep"} -> 6
    [] OTHER -> 0

(* What a list of statements looks like. *)
Ordered(s) ==
  \A i, j \in DOMAIN s :
    i < j => Rank(s[i]) < Rank(s[j]) \/ Rank(s[i]) = 0

(* What is done at once, before anything else: nobody ends, is cleared or   *)
(* resets the request except first, and what follows then is known.         *)
AtOnce(s) ==
  /\ \A i \in DOMAIN s : s[i][1] \in {"clear", "exit", "kill", "reset", "thread"} => i = 1
  /\ \A p \in Procs :
       1 \in DOMAIN s /\ s[1] = <<"clear", p>> =>
         3 \in DOMAIN s /\ s[2] = <<"call", p>> /\ s[3] = <<"poll", p>>
  /\ 1 \in DOMAIN s /\ s[1] = <<"reset">> =>
       2 \in DOMAIN s /\ s[2] = <<"poll", NULL>>

Shape == todo \in Seq(Statement) /\ Ordered(todo) /\ AtOnce(todo)

(* The statements that end p. *)
Ending(p) == {<<"exit", p>>, <<"kill", p>>}

(* A statement that is there because the thread of p is called, or that     *)
(* ends p at once.                                                          *)
Holds(s, p) ==
  s \in {<<"thread", p>>, <<"waits", p>>, <<"exit", p>>, <<"kill", p>>}

(* Where a walk over the list is that has last met p. *)
From(first, p) == IF p = NULL THEN first ELSE p

(* Who is on the list runs, or is in a call, or is about to be unlinked,    *)
(* once; and before that nothing that its thread is called for goes on.     *)
Members ==
  \A p \in Procs :
    /\ p \in Listed /\ state[p] = "none" =>
         \E i \in DOMAIN todo : todo[i] = <<"unlink", p>>
    /\ p \in Listed /\ state[p] = "called" =>
         \E i \in DOMAIN todo : Holds(todo[i], p)
    /\ \A i \in DOMAIN todo : todo[i] = <<"unlink", p>> =>
         /\ state[p] = "none" /\ p \in Listed
         /\ \A j \in DOMAIN todo :
              /\ j < i => ~ Holds(todo[j], p) /\ todo[j] # <<"clear", p>>
              /\ todo[j] = <<"unlink", p>> => i = j
    /\ \A i \in DOMAIN todo :
         todo[i] \in {<<"thread", p>>} \cup Ending(p) => state[p] # "none"

(* Between the reset of the request and the end of the walk, everybody who  *)
(* was polled and not yet called is still ahead of the walk: it stands at   *)
(* p, or is about to clear p.                                               *)
Polls ==
  /\ owed \subseteq Listed
  /\ \A p \in owed : needspoll[p] /\ state[p] # "none"
  /\ ~ poll_requested /\ owed # {} =>
       \E i \in DOMAIN todo, p \in Procs \cup {NULL} :
         /\ todo[i] = <<"poll", p>>
         /\ owed \subseteq Reach(next, From(process_list, p))
         /\ p \in owed => todo[1] = <<"clear", p>>

(* Everybody who has not seen the broadcast is ahead of the walk that       *)
(* delivers it, or is the one that it is given to next.                     *)
Dues ==
  /\ due \subseteq Listed
  /\ \A p \in due : state[p] # "none"
  /\ \A i \in DOMAIN todo, p \in Procs \cup {NULL} :
       todo[i] = <<"broadcast", p>> =>
         /\ due \subseteq Reach(next, From(process_list, p))
         /\ p \in due => i > 1 /\ todo[i - 1] = <<"give", p>>

(* The loop sleeps between its turns, with nothing to do. *)
Rests ==
  asleep => todo = <<>> /\ nevents = 0 /\ ~ poll_requested /\ owed = {}

(* What more there is as long as nobody was ended in a call of its own.     *)

(* A process is called just when one statement has to go on with its        *)
(* thread. A process that ends by itself is still called.                   *)
Threads ==
  \A p \in Procs :
    /\ \A i \in DOMAIN todo :
         /\ todo[i] \in {<<"thread", p>>, <<"waits", p>>}
              => state[p] = "called"
         /\ todo[i] \in Ending(p) => state[p] # "none"
    /\ \A i, j \in DOMAIN todo :
         Holds(todo[i], p) /\ Holds(todo[j], p) => i = j
    /\ state[p] = "called" => \E i \in DOMAIN todo : Holds(todo[i], p)

(* Who is not running and still on the list is about to be unlinked, once. *)
Leaves ==
  \A p \in Procs :
    /\ state[p] # "none" => p \in Listed
    /\ p \in Listed /\ state[p] = "none" =>
         \E i \in DOMAIN todo : todo[i] = <<"unlink", p>>
    /\ \A i \in DOMAIN todo :
         /\ todo[i] = <<"unlink", p>> => state[p] = "none" /\ p \in Listed
         /\ todo[i] = <<"clear", p>> => p \in Listed
    /\ \A i, j \in DOMAIN todo :
         todo[i] = <<"unlink", p>> /\ todo[j] = <<"unlink", p>> => i = j

(* do_poll goes on from q only while q is on the list, or has just left it. *)
Turn(q) == {<<"call", q>>, <<"thread", q>>, <<"waits", q>>, <<"exit", q>>,
            <<"unlink", q>>}

Walks ==
  \A q \in Procs : \A i \in DOMAIN todo : todo[i] = <<"poll", q>> =>
    IF i = 1 THEN next[q] \in Listed \cup {NULL}
    ELSE /\ q \in Listed /\ todo[i - 1] \in Turn(q)
         /\ todo[i - 1] = <<"call", q>> => i = 2 \/ todo[1] = <<"clear", q>>

Whole == Threads /\ Leaves /\ Walks

(* All but the sleep. *)
Core == /\ Shape /\ Linear(next, process_list) /\ Members
        /\ Polls /\ Dues
        /\ ~ cut => Whole

Inv == Core /\ Rests

(* The inductive invariant. *)
KernelInv == TypeOK /\ Inv

-----------------------------------------------------------------------------
(* How a step keeps each part of it. *)

LEMMA RankIs ==
  ASSUME NEW s \in Statement
  PROVE  /\ Rank(s) \in 0 .. 6
         /\ s[1] = "reset" <=> Rank(s) = 1
         /\ s[1] = "poll" <=> Rank(s) = 2
         /\ s[1] = "give" <=> Rank(s) = 3
         /\ s[1] = "broadcast" <=> Rank(s) = 4
         /\ s[1] = "event" <=> Rank(s) = 5
         /\ s[1] \in {"idle", "sleep"} <=> Rank(s) = 6
         /\ s[1] \in (Ones \ {"give"}) \cup {"exited"} <=> Rank(s) = 0
  <1>1. s[1] \in Ones \cup {"poll", "broadcast", "exited", "reset", "event",
                            "idle", "sleep"}
    BY DEF Statement
  <1> QED BY <1>1 DEF Rank, Ones

(* A step puts statements of a lower rank in front of the rest. *)
LEMMA ShapeStep ==
  ASSUME Shape, todo # <<>>, NEW new \in Seq(Statement), Then(new),
         Ordered(new), AtOnce(new),
         \A i \in DOMAIN new : Rank(new[i]) <= Rank(todo[1])
  PROVE  Shape'
  <1>1. /\ todo' \in Seq(Statement)
        /\ Len(todo) \in Nat \ {0} /\ Len(new) \in Nat
        /\ Len(todo') = Len(new) + Len(todo) - 1
        /\ \A i \in 1 .. Len(new) : todo'[i] = new[i]
        /\ \A i \in DOMAIN todo' :
              \/ i \in 1 .. Len(new) /\ todo'[i] = new[i]
              \/ /\ i - Len(new) + 1 \in 2 .. Len(todo)
                 /\ todo'[i] = todo[i - Len(new) + 1]
    BY ThenIs DEF Shape
  <1>2. /\ DOMAIN todo = 1 .. Len(todo) /\ DOMAIN new = 1 .. Len(new)
        /\ DOMAIN todo' = 1 .. Len(todo')
    BY <1>1, LenProperties DEF Shape
  <1>3. /\ \A i \in DOMAIN todo : Rank(todo[i]) \in 0 .. 6
        /\ \A i \in DOMAIN new : Rank(new[i]) \in 0 .. 6
    BY <1>2, RankIs, ElementOfSeq DEF Shape
  <1>4. ASSUME NEW i \in DOMAIN todo', NEW j \in DOMAIN todo', i < j
        PROVE  Rank(todo'[i]) < Rank(todo'[j]) \/ Rank(todo'[i]) = 0
    <2>1. CASE j <= Len(new)
      <3>1. /\ i \in DOMAIN new /\ j \in DOMAIN new
            /\ todo'[i] = new[i] /\ todo'[j] = new[j]
        BY <2>1, <1>1, <1>2, <1>4
      <3> QED BY <3>1, <1>4 DEF Ordered
    <2>2. CASE i <= Len(new) /\ ~ j <= Len(new)
      <3>1. /\ i \in DOMAIN new /\ j - Len(new) + 1 \in 2 .. Len(todo)
            /\ todo'[i] = new[i] /\ todo'[j] = todo[j - Len(new) + 1]
        BY <2>2, <1>1, <1>2, <1>4
      <3>2. /\ 1 \in DOMAIN todo /\ j - Len(new) + 1 \in DOMAIN todo
            /\ 1 < j - Len(new) + 1
        BY <3>1, <1>1, <1>2
      <3>3. \/ Rank(todo[1]) < Rank(todo[j - Len(new) + 1])
            \/ Rank(todo[1]) = 0
        BY <3>2 DEF Shape, Ordered
      <3> QED BY <3>1, <3>2, <3>3, <1>3
    <2>3. CASE ~ i <= Len(new)
      <3>1. /\ i - Len(new) + 1 \in DOMAIN todo
            /\ j - Len(new) + 1 \in DOMAIN todo
            /\ i - Len(new) + 1 < j - Len(new) + 1
            /\ todo'[i] = todo[i - Len(new) + 1]
            /\ todo'[j] = todo[j - Len(new) + 1]
        BY <2>3, <1>1, <1>2, <1>4
      <3> QED BY <3>1 DEF Shape, Ordered
    <2> QED BY <2>1, <2>2, <2>3, <1>1, <1>2
  <1>5. ASSUME NEW i \in DOMAIN todo',
               todo'[i][1] \in {"clear", "exit", "kill", "reset", "thread"}
        PROVE  i = 1 /\ 1 \in DOMAIN new /\ todo'[1] = new[1]
    <2>1. i \in DOMAIN new /\ todo'[i] = new[i]
      <3>1. ASSUME i - Len(new) + 1 \in 2 .. Len(todo),
                   todo'[i] = todo[i - Len(new) + 1]
            PROVE  FALSE
        <4>1. i - Len(new) + 1 \in DOMAIN todo /\ i - Len(new) + 1 # 1
          BY <3>1, <1>1, <1>2
        <4> QED BY <4>1, <3>1, <1>5 DEF Shape, AtOnce
      <3> QED BY <3>1, <1>1, <1>2
    <2> QED BY <2>1, <1>1, <1>2, <1>5 DEF AtOnce
  <1>6. ASSUME NEW p \in Procs, 1 \in DOMAIN todo', todo'[1] = <<"clear", p>>
        PROVE  /\ 3 \in DOMAIN todo' /\ todo'[2] = <<"call", p>>
               /\ todo'[3] = <<"poll", p>>
    <2>1. 1 \in DOMAIN new /\ new[1] = <<"clear", p>>
      BY <1>5, <1>6
    <2>2. 3 \in DOMAIN new /\ new[2] = <<"call", p>> /\ new[3] = <<"poll", p>>
      BY <2>1 DEF AtOnce
    <2> QED BY <2>2, <1>1, <1>2
  <1>7. ASSUME 1 \in DOMAIN todo', todo'[1] = <<"reset">>
        PROVE  2 \in DOMAIN todo' /\ todo'[2] = <<"poll", NULL>>
    <2>1. 1 \in DOMAIN new /\ new[1] = <<"reset">>
      BY <1>5, <1>7
    <2>2. 2 \in DOMAIN new /\ new[2] = <<"poll", NULL>>
      BY <2>1 DEF AtOnce
    <2> QED BY <2>2, <1>1, <1>2
  <1>8. Ordered(todo') /\ AtOnce(todo')
    BY <1>4, <1>5, <1>6, <1>7 DEF Ordered, AtOnce
  <1> QED BY <1>1, <1>8 DEF Shape

(* Nothing of p changes in a step. *)
Settled(new, p) ==
  /\ ~ Holds(todo[1], p) /\ state'[p] = state[p]
  /\ \A i \in DOMAIN new : ~ Holds(new[i], p)

(* Or all of it: what p was called for is the statement that is done. *)
Anew(new, p) ==
  /\ Holds(todo[1], p) \/ state[p] # "called"
  /\ \/ /\ state'[p] # "called"
        /\ \A i \in DOMAIN new : ~ Holds(new[i], p)
     \/ \E k \in DOMAIN new :
          /\ \A i \in DOMAIN new : Holds(new[i], p) <=> i = k
          /\ \/ state'[p] = "called"
             \/ state'[p] # "none" /\ new[k] \in Ending(p)

LEMMA ThreadsStep ==
  ASSUME Shape, Threads, todo # <<>>, NEW new \in Seq(Statement), Then(new),
         \A p \in Procs : Settled(new, p) \/ Anew(new, p)
  PROVE  Threads'
  <1>1. /\ todo' \in Seq(Statement)
        /\ Len(todo) \in Nat \ {0} /\ Len(new) \in Nat
        /\ Len(todo') = Len(new) + Len(todo) - 1
        /\ \A i \in 1 .. Len(new) : todo'[i] = new[i]
        /\ \A i \in 2 .. Len(todo) : todo'[Len(new) + i - 1] = todo[i]
        /\ \A i \in DOMAIN todo' :
              \/ i \in 1 .. Len(new) /\ todo'[i] = new[i]
              \/ /\ i - Len(new) + 1 \in 2 .. Len(todo)
                 /\ todo'[i] = todo[i - Len(new) + 1]
    BY ThenIs DEF Shape
  <1>2. /\ DOMAIN todo = 1 .. Len(todo) /\ DOMAIN new = 1 .. Len(new)
        /\ DOMAIN todo' = 1 .. Len(todo')
    BY <1>1, LenProperties DEF Shape
  <1> SUFFICES ASSUME NEW p \in Procs
               PROVE
    /\ \A i \in DOMAIN todo' :
         /\ todo'[i] \in {<<"thread", p>>, <<"waits", p>>}
              => state'[p] = "called"
         /\ todo'[i] \in Ending(p) => state'[p] # "none"
    /\ \A i, j \in DOMAIN todo' :
         Holds(todo'[i], p) /\ Holds(todo'[j], p) => i = j
    /\ state'[p] = "called" => \E i \in DOMAIN todo' : Holds(todo'[i], p)
    BY DEF Threads, Holds
  <1>3. CASE Settled(new, p)
    <2>1. ASSUME NEW i \in DOMAIN todo', Holds(todo'[i], p)
          PROVE  /\ i - Len(new) + 1 \in DOMAIN todo
                 /\ todo'[i] = todo[i - Len(new) + 1]
      BY <2>1, <1>1, <1>2, <1>3 DEF Settled
    <2>2. ASSUME NEW i \in DOMAIN todo, Holds(todo[i], p)
          PROVE  \E j \in DOMAIN todo' : Holds(todo'[j], p)
      <3>1. i \in 2 .. Len(todo)
        BY <2>2, <1>1, <1>2, <1>3 DEF Settled
      <3>2. Len(new) + i - 1 \in DOMAIN todo'
        BY <3>1, <1>1, <1>2
      <3> QED BY <2>2, <3>1, <3>2, <1>1
    <2>3. ASSUME NEW i \in DOMAIN todo', NEW j \in DOMAIN todo',
                 Holds(todo'[i], p), Holds(todo'[j], p)
          PROVE  i = j
      <3>1. i - Len(new) + 1 = j - Len(new) + 1
        BY <2>1, <2>3 DEF Threads
      <3> QED BY <3>1, <1>1, <1>2
    <2>4. ASSUME NEW i \in DOMAIN todo'
          PROVE  /\ todo'[i] \in {<<"thread", p>>, <<"waits", p>>}
                      => state'[p] = "called"
                 /\ todo'[i] \in Ending(p) => state'[p] # "none"
      <3>1. CASE Holds(todo'[i], p)
        BY <3>1, <2>1, <1>3 DEF Threads, Settled
      <3>2. CASE ~ Holds(todo'[i], p)
        BY <3>2 DEF Holds, Ending
      <3> QED BY <3>1, <3>2
    <2>5. state'[p] = "called" => \E i \in DOMAIN todo' : Holds(todo'[i], p)
      BY <2>2, <1>3 DEF Threads, Settled
    <2> QED BY <2>3, <2>4, <2>5
  <1>4. CASE Anew(new, p)
    <2>1. ASSUME NEW i \in 2 .. Len(todo), Holds(todo[i], p)
          PROVE  FALSE
      <3>1. i \in DOMAIN todo /\ 1 \in DOMAIN todo /\ i # 1
        BY <1>1, <1>2
      <3>2. CASE Holds(todo[1], p)
        BY <3>1, <3>2, <2>1 DEF Threads
      <3>3. CASE todo[i] \in Ending(p)
        <4>1. todo[i][1] \in {"exit", "kill"}
          BY <3>3 DEF Ending
        <4> QED BY <3>1, <4>1 DEF Shape, AtOnce
      <3>4. CASE state[p] # "called" /\ todo[i] \notin Ending(p)
        BY <3>1, <3>4, <2>1 DEF Threads, Holds, Ending
      <3> QED BY <3>2, <3>3, <3>4, <1>4 DEF Anew
    <2>2. ASSUME NEW i \in DOMAIN todo', Holds(todo'[i], p)
          PROVE  i \in DOMAIN new /\ todo'[i] = new[i]
      BY <2>1, <2>2, <1>1, <1>2
    <2>3. \A i \in DOMAIN new : i \in DOMAIN todo' /\ todo'[i] = new[i]
      BY <1>1, <1>2
    <2>4. CASE /\ state'[p] # "called"
               /\ \A i \in DOMAIN new : ~ Holds(new[i], p)
      <3>1. \A i \in DOMAIN todo' : ~ Holds(todo'[i], p)
        BY <2>2, <2>4
      <3> QED BY <2>4, <3>1 DEF Holds, Ending
    <2>5. CASE \E k \in DOMAIN new :
                 /\ \A i \in DOMAIN new : Holds(new[i], p) <=> i = k
                 /\ \/ state'[p] = "called"
                    \/ state'[p] # "none" /\ new[k] \in Ending(p)
      <3>1. PICK k \in DOMAIN new :
              /\ \A i \in DOMAIN new : Holds(new[i], p) <=> i = k
              /\ \/ state'[p] = "called"
                 \/ state'[p] # "none" /\ new[k] \in Ending(p)
        BY <2>5
      <3>2. /\ \A i \in DOMAIN todo' : Holds(todo'[i], p) <=> i = k
            /\ k \in DOMAIN todo' /\ todo'[k] = new[k]
        BY <3>1, <2>2, <2>3
      <3>3. ASSUME NEW i \in DOMAIN todo'
            PROVE  /\ todo'[i] \in {<<"thread", p>>, <<"waits", p>>}
                        => state'[p] = "called"
                   /\ todo'[i] \in Ending(p) => state'[p] # "none"
        BY <3>1, <3>2 DEF Holds, Ending
      <3> QED BY <3>2, <3>3
    <2> QED BY <2>4, <2>5, <1>4 DEF Anew
  <1> QED BY <1>3, <1>4

(* Who is about to be unlinked, but not at once. *)
Behind(p) == \E i \in DOMAIN todo : i # 1 /\ todo[i] = <<"unlink", p>>

(* What a step may make of p, on the list or not. *)
Minds(new, p) ==
  /\ p \in Listed' /\ state'[p] = "none" =>
       \/ p \in Listed /\ state[p] = "none" /\ todo[1] # <<"unlink", p>>
       \/ \E i \in DOMAIN new : new[i] = <<"unlink", p>>
  /\ p \in Listed' /\ state'[p] = "called" =>
       \/ p \in Listed /\ state[p] = "called" /\ ~ Holds(todo[1], p)
       \/ \E i \in DOMAIN new : Holds(new[i], p)
  /\ Behind(p) =>
       /\ state'[p] = "none" /\ p \in Listed'
       /\ \A i \in DOMAIN new :
            ~ Holds(new[i], p) /\ new[i] \notin {<<"clear", p>>, <<"unlink", p>>}
  /\ \A i \in DOMAIN new : new[i] = <<"unlink", p>> =>
       /\ state'[p] = "none" /\ p \in Listed'
       /\ \A j \in DOMAIN new :
            /\ ~ Holds(new[j], p) /\ new[j] # <<"clear", p>>
            /\ new[j] = <<"unlink", p>> => i = j
  /\ \A i \in DOMAIN new :
       new[i] \in {<<"thread", p>>} \cup Ending(p) => state'[p] # "none"

(* Or nothing is about it. *)
Alike(new, p) ==
  /\ (p \in Listed' <=> p \in Listed) /\ state'[p] = state[p]
  /\ ~ Holds(todo[1], p) /\ todo[1] # <<"unlink", p>>
  /\ \A i \in DOMAIN new :
       ~ Holds(new[i], p) /\ new[i] \notin {<<"clear", p>>, <<"unlink", p>>}

LEMMA BehindIs ==
  ASSUME Shape, Members, todo # <<>>, NEW p \in Procs, Behind(p)
  PROVE  /\ state[p] = "none" /\ p \in Listed /\ ~ Holds(todo[1], p)
         /\ todo[1] # <<"clear", p>> /\ todo[1] # <<"unlink", p>>
         /\ Rank(todo[1]) = 0
  <1>1. PICK i \in DOMAIN todo : i # 1 /\ todo[i] = <<"unlink", p>>
    BY DEF Behind
  <1>2. /\ DOMAIN todo = 1 .. Len(todo) /\ Len(todo) \in Nat \ {0}
        /\ todo[1] \in Statement /\ todo[i] \in Statement
    BY <1>1, LenProperties, EmptySeq, ElementOfSeq DEF Shape
  <1>3. 1 \in DOMAIN todo /\ 1 < i
    BY <1>1, <1>2
  <1>4. Rank(todo[1]) = 0
    <2>1. Rank(todo[i]) = 0
      BY <1>1, <1>2, RankIs DEF Ones
    <2>2. Rank(todo[1]) \in 0 .. 6
      BY <1>2, RankIs
    <2> QED BY <2>1, <2>2, <1>1, <1>3 DEF Shape, Ordered
  <1> QED BY <1>1, <1>3, <1>4 DEF Members

LEMMA AlikeMinds ==
  ASSUME Shape, Members, todo # <<>>, NEW new, NEW p \in Procs, Alike(new, p)
  PROVE  Minds(new, p)
  <1>1. Behind(p) => state[p] = "none" /\ p \in Listed
    BY BehindIs
  <1>2. \A i \in DOMAIN new : new[i] \notin {<<"thread", p>>} \cup Ending(p)
    BY DEF Alike, Holds, Ending
  <1> QED BY <1>1, <1>2 DEF Alike, Minds

LEMMA MembersStep ==
  ASSUME Shape, Members, todo # <<>>, NEW new \in Seq(Statement), Then(new),
         \A p \in Procs : Minds(new, p)
  PROVE  Members'
  <1>1. /\ todo' \in Seq(Statement)
        /\ Len(todo) \in Nat \ {0} /\ Len(new) \in Nat
        /\ Len(todo') = Len(new) + Len(todo) - 1
        /\ \A i \in 1 .. Len(new) : todo'[i] = new[i]
        /\ \A i \in 2 .. Len(todo) : todo'[Len(new) + i - 1] = todo[i]
        /\ \A i \in DOMAIN todo' :
              \/ i \in 1 .. Len(new) /\ todo'[i] = new[i]
              \/ /\ i - Len(new) + 1 \in 2 .. Len(todo)
                 /\ todo'[i] = todo[i - Len(new) + 1]
    BY ThenIs DEF Shape
  <1>2. /\ DOMAIN todo = 1 .. Len(todo) /\ DOMAIN new = 1 .. Len(new)
        /\ DOMAIN todo' = 1 .. Len(todo') /\ 1 \in DOMAIN todo
    BY <1>1, LenProperties DEF Shape
  <1> SUFFICES ASSUME NEW p \in Procs
               PROVE
    /\ p \in Listed' /\ state'[p] = "none" =>
         \E i \in DOMAIN todo' : todo'[i] = <<"unlink", p>>
    /\ p \in Listed' /\ state'[p] = "called" =>
         \E i \in DOMAIN todo' : Holds(todo'[i], p)
    /\ \A i \in DOMAIN todo' : todo'[i] = <<"unlink", p>> =>
         /\ state'[p] = "none" /\ p \in Listed'
         /\ \A j \in DOMAIN todo' :
              /\ j < i => ~ Holds(todo'[j], p) /\ todo'[j] # <<"clear", p>>
              /\ todo'[j] = <<"unlink", p>> => i = j
    /\ \A i \in DOMAIN todo' :
         todo'[i] \in {<<"thread", p>>} \cup Ending(p) => state'[p] # "none"
    BY DEF Members, Ending, Holds
  <1>3. Minds(new, p)
    OBVIOUS
  <1>4. \A i \in DOMAIN new : i \in DOMAIN todo' /\ todo'[i] = new[i]
    BY <1>1, <1>2
  <1>5. \A i \in DOMAIN todo : i # 1 =>
          Len(new) + i - 1 \in DOMAIN todo' /\ todo'[Len(new) + i - 1] = todo[i]
    BY <1>1, <1>2
  <1>6. ASSUME p \in Listed', state'[p] = "none"
        PROVE  \E i \in DOMAIN todo' : todo'[i] = <<"unlink", p>>
    <2>1. CASE p \in Listed /\ state[p] = "none" /\ todo[1] # <<"unlink", p>>
      <3>1. PICK i \in DOMAIN todo : todo[i] = <<"unlink", p>>
        BY <2>1 DEF Members
      <3> QED BY <2>1, <3>1, <1>5
    <2> QED BY <2>1, <1>3, <1>4, <1>6 DEF Minds
  <1>7. ASSUME p \in Listed', state'[p] = "called"
        PROVE  \E i \in DOMAIN todo' : Holds(todo'[i], p)
    <2>1. CASE p \in Listed /\ state[p] = "called" /\ ~ Holds(todo[1], p)
      <3>1. PICK i \in DOMAIN todo : Holds(todo[i], p)
        BY <2>1 DEF Members
      <3> QED BY <2>1, <3>1, <1>5
    <2> QED BY <2>1, <1>3, <1>4, <1>7 DEF Minds
  <1>8. ASSUME NEW i \in DOMAIN todo', todo'[i] = <<"unlink", p>>,
               NEW j \in DOMAIN todo'
        PROVE  /\ state'[p] = "none" /\ p \in Listed'
               /\ j < i => ~ Holds(todo'[j], p) /\ todo'[j] # <<"clear", p>>
               /\ todo'[j] = <<"unlink", p>> => i = j
    <2> DEFINE k == i - Len(new) + 1
               l == j - Len(new) + 1
    <2>1. /\ \/ i \in DOMAIN new /\ todo'[i] = new[i]
             \/ k \in DOMAIN todo /\ k # 1 /\ todo'[i] = todo[k]
          /\ \/ j \in DOMAIN new /\ todo'[j] = new[j]
             \/ l \in DOMAIN todo /\ l # 1 /\ todo'[j] = todo[l]
      <3>1. \A h \in DOMAIN todo' :
              \/ h \in DOMAIN new /\ todo'[h] = new[h]
              \/ /\ h - Len(new) + 1 \in DOMAIN todo /\ h - Len(new) + 1 # 1
                 /\ todo'[h] = todo[h - Len(new) + 1]
        <4> SUFFICES ASSUME NEW h \in DOMAIN todo'
                     PROVE
              \/ h \in DOMAIN new /\ todo'[h] = new[h]
              \/ /\ h - Len(new) + 1 \in DOMAIN todo /\ h - Len(new) + 1 # 1
                 /\ todo'[h] = todo[h - Len(new) + 1]
          OBVIOUS
        <4>1. \/ h \in 1 .. Len(new) /\ todo'[h] = new[h]
              \/ /\ h - Len(new) + 1 \in 2 .. Len(todo)
                 /\ todo'[h] = todo[h - Len(new) + 1]
          BY <1>1
        <4>2. h - Len(new) + 1 \in 2 .. Len(todo) =>
                h - Len(new) + 1 \in DOMAIN todo /\ h - Len(new) + 1 # 1
          BY <1>1, <1>2, SMTT(30)
        <4> QED BY <4>1, <4>2, <1>2
      <3> QED BY <3>1 DEF k, l
    <2>2. /\ j < i <=> l < k
          /\ i = j <=> k = l
      BY <1>1, <1>2
    <2>3. i \in DOMAIN new /\ j \notin DOMAIN new => ~ (j < i)
      BY <1>1, <1>2
    <2> HIDE DEF k, l
    <2>4. CASE i \in DOMAIN new /\ todo'[i] = new[i]
      <3>1. CASE j \in DOMAIN new /\ todo'[j] = new[j]
        BY <2>4, <3>1, <1>3, <1>8 DEF Minds
      <3>2. CASE /\ j \notin DOMAIN new
                 /\ l \in DOMAIN todo /\ l # 1 /\ todo'[j] = todo[l]
        <4>1. todo[l] # <<"unlink", p>>
          <5> SUFFICES ASSUME todo[l] = <<"unlink", p>> PROVE FALSE
            OBVIOUS
          <5>1. Behind(p)
            BY <3>2 DEF Behind
          <5> QED BY <5>1, <2>4, <1>3, <1>8 DEF Minds
        <4> QED BY <2>3, <2>4, <3>2, <4>1, <1>3, <1>8 DEF Minds
      <3>3. CASE j \in DOMAIN new /\ ~ (todo'[j] = new[j])
        BY <3>3, <1>4
      <3> QED BY <3>1, <3>2, <3>3, <2>1
    <2>5. CASE k \in DOMAIN todo /\ k # 1 /\ todo'[i] = todo[k]
      <3>1. Behind(p) /\ todo[k] = <<"unlink", p>>
        BY <2>5, <1>8 DEF Behind
      <3>2. CASE j \in DOMAIN new /\ todo'[j] = new[j]
        BY <3>1, <3>2, <1>3 DEF Minds
      <3>3. CASE l \in DOMAIN todo /\ l # 1 /\ todo'[j] = todo[l]
        BY <3>1, <3>3, <2>2, <2>5, <1>3 DEF Minds, Members
      <3> QED BY <3>2, <3>3, <2>1
    <2> QED BY <2>1, <2>4, <2>5
  <1>9. ASSUME NEW i \in DOMAIN todo',
               todo'[i] \in {<<"thread", p>>} \cup Ending(p)
        PROVE  state'[p] # "none"
    <2>1. CASE i \in DOMAIN new /\ todo'[i] = new[i]
      BY <2>1, <1>3, <1>9 DEF Minds
    <2>2. CASE /\ i - Len(new) + 1 \in 2 .. Len(todo)
               /\ todo'[i] = todo[i - Len(new) + 1]
      <3>1. /\ i - Len(new) + 1 \in DOMAIN todo /\ i - Len(new) + 1 # 1
            /\ todo[i - Len(new) + 1][1] \in {"exit", "kill", "thread"}
        BY <2>2, <1>1, <1>2, <1>9 DEF Ending
      <3> QED BY <3>1 DEF Shape, AtOnce
    <2> QED BY <2>1, <2>2, <1>1, <1>2
  <1> QED BY <1>6, <1>7, <1>8, <1>9

LEMMA AlikeStep ==
  ASSUME Shape, Members, todo # <<>>, NEW new \in Seq(Statement), Then(new),
         \A p \in Procs : Alike(new, p)
  PROVE  Members'
  BY AlikeMinds, MembersStep

(* How p may come and go in a step. *)
Stays(new, p) ==
  /\ state'[p] = "none" <=> state[p] = "none"
  /\ p \in Listed' <=> p \in Listed
  /\ todo[1] # <<"unlink", p>>
  /\ \A i \in DOMAIN new : new[i] # <<"unlink", p>>
  /\ \A i \in DOMAIN new : new[i] = <<"clear", p>> => p \in Listed

Quits(new, p) ==
  /\ state[p] # "none" /\ state'[p] = "none"
  /\ p \in Listed /\ p \in Listed'
  /\ \E k \in DOMAIN new :
       \A i \in DOMAIN new : new[i] = <<"unlink", p>> <=> i = k
  /\ \A i \in DOMAIN new : new[i] # <<"clear", p>>

Goes(new, p) ==
  /\ todo[1] = <<"unlink", p>> /\ state'[p] = "none" /\ p \notin Listed'
  /\ \A i \in DOMAIN new : new[i] \notin {<<"unlink", p>>, <<"clear", p>>}

Comes(new, p) ==
  /\ p \notin Listed /\ p \in Listed' /\ state'[p] # "none"
  /\ \A i \in DOMAIN new : new[i] \notin {<<"unlink", p>>, <<"clear", p>>}

LEMMA LeavesStep ==
  ASSUME Shape, Leaves, todo # <<>>, NEW new \in Seq(Statement), Then(new),
         \A p \in Procs :
           Stays(new, p) \/ Quits(new, p) \/ Goes(new, p) \/ Comes(new, p)
  PROVE  Leaves'
  <1>1. /\ todo' \in Seq(Statement)
        /\ Len(todo) \in Nat \ {0} /\ Len(new) \in Nat
        /\ Len(todo') = Len(new) + Len(todo) - 1
        /\ \A i \in 1 .. Len(new) : todo'[i] = new[i]
        /\ \A i \in 2 .. Len(todo) : todo'[Len(new) + i - 1] = todo[i]
        /\ \A i \in DOMAIN todo' :
              \/ i \in 1 .. Len(new) /\ todo'[i] = new[i]
              \/ /\ i - Len(new) + 1 \in 2 .. Len(todo)
                 /\ todo'[i] = todo[i - Len(new) + 1]
    BY ThenIs DEF Shape
  <1>2. /\ DOMAIN todo = 1 .. Len(todo) /\ DOMAIN new = 1 .. Len(new)
        /\ DOMAIN todo' = 1 .. Len(todo')
    BY <1>1, LenProperties DEF Shape
  <1> SUFFICES ASSUME NEW p \in Procs
               PROVE
    /\ state'[p] # "none" => p \in Listed'
    /\ p \in Listed' /\ state'[p] = "none" =>
         \E i \in DOMAIN todo' : todo'[i] = <<"unlink", p>>
    /\ \A i \in DOMAIN todo' :
         /\ todo'[i] = <<"unlink", p>> => state'[p] = "none" /\ p \in Listed'
         /\ todo'[i] = <<"clear", p>> => p \in Listed'
    /\ \A i, j \in DOMAIN todo' :
         todo'[i] = <<"unlink", p>> /\ todo'[j] = <<"unlink", p>> => i = j
    BY DEF Leaves
  <1>3. ASSUME NEW i \in DOMAIN todo', todo'[i] = <<"clear", p>>
        PROVE  i \in DOMAIN new /\ new[i] = <<"clear", p>>
    <2>1. ASSUME NEW j \in 2 .. Len(todo) PROVE todo[j] # <<"clear", p>>
      <3>1. j \in DOMAIN todo /\ j # 1
        BY <1>1, <1>2
      <3>2. todo[j][1] # "clear"
        BY <3>1 DEF Shape, AtOnce
      <3> QED BY <3>2
    <2> QED BY <2>1, <1>1, <1>2, <1>3
  <1>4. CASE Stays(new, p)
    <2>1. ASSUME NEW i \in DOMAIN todo', todo'[i] = <<"unlink", p>>
          PROVE  /\ i - Len(new) + 1 \in DOMAIN todo
                 /\ todo[i - Len(new) + 1] = <<"unlink", p>>
      <3>1. ~ (i \in 1 .. Len(new) /\ todo'[i] = new[i])
        BY <2>1, <1>2, <1>4 DEF Stays
      <3>2. /\ i - Len(new) + 1 \in 2 .. Len(todo)
            /\ todo'[i] = todo[i - Len(new) + 1]
        BY <3>1, <1>1
      <3> QED BY <2>1, <3>2, <1>1, <1>2
    <2>2. ASSUME NEW i \in DOMAIN todo, todo[i] = <<"unlink", p>>
          PROVE  \E j \in DOMAIN todo' : todo'[j] = <<"unlink", p>>
      <3>1. i \in 2 .. Len(todo)
        BY <2>2, <1>1, <1>2, <1>4 DEF Stays
      <3>2. Len(new) + i - 1 \in DOMAIN todo'
        BY <3>1, <1>1, <1>2
      <3> QED BY <2>2, <3>1, <3>2, <1>1
    <2>3. ASSUME NEW i \in DOMAIN todo', NEW j \in DOMAIN todo',
                 todo'[i] = <<"unlink", p>>, todo'[j] = <<"unlink", p>>
          PROVE  i = j
      <3>1. i - Len(new) + 1 = j - Len(new) + 1
        BY <2>1, <2>3 DEF Leaves
      <3> QED BY <3>1, <1>1, <1>2
    <2>4. ASSUME NEW i \in DOMAIN todo'
          PROVE  /\ todo'[i] = <<"unlink", p>>
                      => state'[p] = "none" /\ p \in Listed'
                 /\ todo'[i] = <<"clear", p>> => p \in Listed'
      BY <2>1, <1>3, <1>4 DEF Leaves, Stays
    <2>5. p \in Listed' /\ state'[p] = "none" =>
            \E i \in DOMAIN todo' : todo'[i] = <<"unlink", p>>
      BY <2>2, <1>4 DEF Leaves, Stays
    <2>6. state'[p] # "none" => p \in Listed'
      BY <1>4 DEF Leaves, Stays
    <2> QED BY <2>3, <2>4, <2>5, <2>6
  <1>5. ASSUME Quits(new, p) \/ Goes(new, p) \/ Comes(new, p),
               NEW i \in 2 .. Len(todo)
        PROVE  todo[i] # <<"unlink", p>>
    <2>1. i \in DOMAIN todo /\ 1 \in DOMAIN todo /\ i # 1
      BY <1>1, <1>2, <1>5
    <2>2. CASE Quits(new, p)
      BY <2>1, <2>2 DEF Leaves, Quits
    <2>3. CASE Goes(new, p)
      BY <2>1, <2>3 DEF Leaves, Goes
    <2>4. CASE Comes(new, p)
      BY <2>1, <2>4 DEF Leaves, Comes
    <2> QED BY <2>2, <2>3, <2>4, <1>5
  <1>6. CASE Quits(new, p)
    <2>1. PICK k \in DOMAIN new :
            \A i \in DOMAIN new : new[i] = <<"unlink", p>> <=> i = k
      BY <1>6 DEF Quits
    <2>2. \A i \in DOMAIN todo' : todo'[i] = <<"unlink", p>> <=> i = k
      <3>1. ASSUME NEW i \in DOMAIN todo'
            PROVE  todo'[i] = <<"unlink", p>> <=> i = k
        <4>1. CASE i \in 1 .. Len(new) /\ todo'[i] = new[i]
          BY <2>1, <1>2, <4>1
        <4>2. CASE /\ i - Len(new) + 1 \in 2 .. Len(todo)
                   /\ todo'[i] = todo[i - Len(new) + 1]
          <5>1. todo'[i] # <<"unlink", p>>
            BY <1>5, <1>6, <4>2
          <5>2. i # k
            BY <1>1, <1>2, <2>1, <4>2
          <5> QED BY <5>1, <5>2
        <4> QED BY <1>1, <4>1, <4>2
      <3> QED BY <3>1
    <2>3. k \in DOMAIN todo'
      BY <1>1, <1>2
    <2> QED BY <2>2, <2>3, <1>3, <1>6 DEF Quits
  <1>7. CASE Goes(new, p) \/ Comes(new, p)
    <2>1. ASSUME NEW i \in DOMAIN todo'
          PROVE  todo'[i] # <<"unlink", p>> /\ todo'[i] # <<"clear", p>>
      <3>1. \A k \in DOMAIN new :
              new[k] # <<"unlink", p>> /\ new[k] # <<"clear", p>>
        BY <1>7 DEF Goes, Comes
      <3>2. todo'[i] # <<"clear", p>>
        BY <3>1, <1>3
      <3>3. todo'[i] # <<"unlink", p>>
        BY <3>1, <1>1, <1>2, <1>5, <1>7
      <3> QED BY <3>2, <3>3
    <2> QED BY <2>1, <1>7 DEF Goes, Comes
  <1> QED BY <1>4, <1>6, <1>7

(* No walk of do_poll goes on, and who is ahead of one stays ahead. *)
LEMMA PollsStep ==
  ASSUME Shape, Polls, todo # <<>>, NEW new \in Seq(Statement), Then(new),
         poll_requested' = poll_requested, owed' \subseteq owed,
         owed' \subseteq Listed',
         \A p \in owed' : needspoll'[p] /\ state'[p] # "none",
         \A p \in Procs \cup {NULL} :
           owed' \subseteq Reach(next, From(process_list, p))
             => owed' \subseteq Reach(next', From(process_list', p)),
         todo[1][1] # "poll",
         \A p \in owed' : todo[1] # <<"clear", p>>
  PROVE  Polls'
  <1>1. /\ Len(todo) \in Nat \ {0} /\ Len(new) \in Nat
        /\ Len(todo') = Len(new) + Len(todo) - 1
        /\ todo' \in Seq(Statement)
        /\ \A i \in 2 .. Len(todo) : todo'[Len(new) + i - 1] = todo[i]
    BY ThenIs DEF Shape
  <1>2. DOMAIN todo = 1 .. Len(todo) /\ DOMAIN todo' = 1 .. Len(todo')
    BY <1>1, LenProperties DEF Shape
  <1>3. ASSUME ~ poll_requested', owed' # {}
        PROVE  \E i \in DOMAIN todo', p \in Procs \cup {NULL} :
                 /\ todo'[i] = <<"poll", p>>
                 /\ owed' \subseteq Reach(next', From(process_list', p))
                 /\ p \in owed' => todo'[1] = <<"clear", p>>
    <2>1. PICK i \in DOMAIN todo, p \in Procs \cup {NULL} :
            /\ todo[i] = <<"poll", p>>
            /\ owed \subseteq Reach(next, From(process_list, p))
            /\ p \in owed => todo[1] = <<"clear", p>>
      BY <1>3 DEF Polls
    <2>2. i # 1
      BY <2>1
    <2>3. /\ Len(new) + i - 1 \in DOMAIN todo'
          /\ todo'[Len(new) + i - 1] = <<"poll", p>>
      BY <2>1, <2>2, <1>1, <1>2
    <2>4. /\ owed' \subseteq Reach(next', From(process_list', p))
          /\ p \notin owed'
      BY <2>1
    <2> QED BY <2>3, <2>4
  <1> QED BY <1>3 DEF Polls, From

(* No walk of a broadcast begins or goes on. *)
LEMMA DuesStep ==
  ASSUME Shape, Dues, todo # <<>>, NEW new \in Seq(Statement), Then(new),
         due' \subseteq due, due' \subseteq Listed',
         \A p \in due' : state'[p] # "none",
         \A p \in Procs \cup {NULL} :
           due' \subseteq Reach(next, From(process_list, p))
             => due' \subseteq Reach(next', From(process_list', p)),
         \A i \in DOMAIN new : new[i][1] # "broadcast",
         \A p \in due' : todo[1] # <<"give", p>>
  PROVE  Dues'
  <1>1. /\ Len(todo) \in Nat \ {0} /\ Len(new) \in Nat
        /\ Len(todo') = Len(new) + Len(todo) - 1
        /\ todo' \in Seq(Statement)
        /\ \A i \in 2 .. Len(todo) : todo'[Len(new) + i - 1] = todo[i]
        /\ \A i \in DOMAIN todo' :
              \/ i \in 1 .. Len(new) /\ todo'[i] = new[i]
              \/ /\ i - Len(new) + 1 \in 2 .. Len(todo)
                 /\ todo'[i] = todo[i - Len(new) + 1]
    BY ThenIs DEF Shape
  <1>2. /\ DOMAIN todo = 1 .. Len(todo) /\ DOMAIN new = 1 .. Len(new)
        /\ DOMAIN todo' = 1 .. Len(todo')
    BY <1>1, LenProperties DEF Shape
  <1>3. ASSUME NEW i \in DOMAIN todo', NEW p \in Procs \cup {NULL},
               todo'[i] = <<"broadcast", p>>
        PROVE  /\ due' \subseteq Reach(next', From(process_list', p))
               /\ p \in due' => i > 1 /\ todo'[i - 1] = <<"give", p>>
    <2>1. PICK j \in 2 .. Len(todo) :
            i = Len(new) + j - 1 /\ todo[j] = <<"broadcast", p>>
      <3>1. /\ i - Len(new) + 1 \in 2 .. Len(todo)
            /\ todo[i - Len(new) + 1] = <<"broadcast", p>>
            /\ i = Len(new) + (i - Len(new) + 1) - 1
        <4>1. ASSUME i \in 1 .. Len(new), todo'[i] = new[i]
              PROVE  FALSE
          <5>1. new[i] = <<"broadcast", p>>
            BY <1>3, <4>1
          <5>2. new[i][1] = "broadcast"
            BY <5>1
          <5> QED BY <1>2, <4>1, <5>2
        <4>2. i \in Int /\ Len(new) \in Int
          BY <1>1, <1>2, <1>3
        <4>3. /\ i - Len(new) + 1 \in 2 .. Len(todo)
              /\ todo'[i] = todo[i - Len(new) + 1]
          BY <1>1, <1>3, <4>1
        <4>4. i = Len(new) + (i - Len(new) + 1) - 1
          BY <4>2
        <4> QED BY <1>3, <4>3, <4>4
      <3> QED BY <3>1
    <2>2. /\ due \subseteq Reach(next, From(process_list, p))
          /\ p \in due => todo[j - 1] = <<"give", p>>
      <3>1. j \in DOMAIN todo
        BY <1>2
      <3> QED BY <2>1, <3>1 DEF Dues
    <2>3. ASSUME p \in due'
          PROVE  i > 1 /\ todo'[i - 1] = <<"give", p>>
      <3>1. todo[j - 1] = <<"give", p>> /\ j - 1 # 1
        BY <2>2, <2>3
      <3>2. j \in Int /\ Len(new) \in Nat /\ Len(todo) \in Nat
        BY <1>1
      <3>3. /\ j - 1 \in 2 .. Len(todo) /\ Len(new) + (j - 1) - 1 = i - 1
            /\ i > 1
        BY <3>1, <3>2, <2>1
      <3>4. todo'[Len(new) + (j - 1) - 1] = todo[j - 1]
        BY <3>3, <1>1
      <3> QED BY <3>1, <3>3, <3>4
    <2> QED BY <2>2, <2>3
  <1> QED BY <1>3 DEF Dues, From

(* A thread that is called from a walk is followed by statements of its     *)
(* own.                                                                     *)
Continues(new) ==
  \A q \in Procs :
    todo[1] \in Turn(q) /\ new # <<>> =>
      new[Len(new)] \in Turn(q) \ {<<"call", q>>}

(* Nobody but the one that is unlinked leaves the list. *)
WalksOn(new) ==
  /\ \A q \in Procs : \A i \in DOMAIN new : new[i] # <<"poll", q>>
  /\ \A q \in Procs :
       todo[1] \in {<<"clear", q>>, <<"unlink", q>>} => new = <<>>
  /\ \A q \in Listed : todo[1] # <<"unlink", q>> => q \in Listed'
  /\ \A q \in Listed : next'[q] \in Listed' \cup {NULL}

LEMMA WalksStep ==
  ASSUME Shape, Threads, Leaves, Walks, todo # <<>>,
         NEW new \in Seq(Statement), Then(new), Continues(new), WalksOn(new)
  PROVE  Walks'
  <1>1. /\ todo' \in Seq(Statement)
        /\ Len(todo) \in Nat \ {0} /\ Len(new) \in Nat
        /\ Len(todo') = Len(new) + Len(todo) - 1
        /\ \A i \in 1 .. Len(new) : todo'[i] = new[i]
        /\ \A i \in 2 .. Len(todo) : todo'[Len(new) + i - 1] = todo[i]
        /\ \A i \in DOMAIN todo' :
              \/ i \in 1 .. Len(new) /\ todo'[i] = new[i]
              \/ /\ i - Len(new) + 1 \in 2 .. Len(todo)
                 /\ todo'[i] = todo[i - Len(new) + 1]
    BY ThenIs DEF Shape
  <1>2. /\ DOMAIN todo = 1 .. Len(todo) /\ DOMAIN new = 1 .. Len(new)
        /\ DOMAIN todo' = 1 .. Len(todo')
    BY <1>1, LenProperties DEF Shape
  <1>3. new = <<>> <=> Len(new) = 0
    BY EmptySeq
  <1> SUFFICES ASSUME NEW q \in Procs, NEW i \in DOMAIN todo',
                      todo'[i] = <<"poll", q>>
               PROVE
    IF i = 1 THEN next'[q] \in Listed' \cup {NULL}
    ELSE /\ q \in Listed' /\ todo'[i - 1] \in Turn(q)
         /\ todo'[i - 1] = <<"call", q>> => i = 2 \/ todo'[1] = <<"clear", q>>
    BY DEF Walks, Turn
  <1>4. PICK j \in 2 .. Len(todo) :
          i = Len(new) + j - 1 /\ todo[j] = <<"poll", q>>
    <2>1. /\ i - Len(new) + 1 \in 2 .. Len(todo)
          /\ todo[i - Len(new) + 1] = <<"poll", q>>
          /\ i = Len(new) + (i - Len(new) + 1) - 1
      <3>1. ~ (i \in 1 .. Len(new) /\ todo'[i] = new[i])
        BY <1>2 DEF WalksOn
      <3>2. /\ i - Len(new) + 1 \in 2 .. Len(todo)
            /\ todo'[i] = todo[i - Len(new) + 1]
        BY <1>1, <3>1
      <3>3. i \in Int /\ Len(new) \in Int
        BY <1>1, <1>2
      <3> QED BY <3>2, <3>3
    <2> QED BY <2>1
  <1>5. /\ q \in Listed /\ todo[j - 1] \in Turn(q)
        /\ todo[j - 1] = <<"call", q>> => j = 2 \/ todo[1] = <<"clear", q>>
    <2>1. j \in DOMAIN todo /\ j # 1
      BY <1>2
    <2> QED BY <2>1, <1>4 DEF Walks
  <1>6. CASE j = 2 /\ new = <<>>
    <2>1. next'[q] \in Listed' \cup {NULL}
      BY <1>5 DEF WalksOn
    <2>2. i = 1
      BY <1>3, <1>4, <1>6
    <2> QED BY <2>1, <2>2
  <1>7. CASE j = 2 /\ new # <<>>
    <2>1. new[Len(new)] \in Turn(q) \ {<<"call", q>>}
      BY <1>5, <1>7 DEF Continues
    <2>2. /\ Len(new) \in 1 .. Len(new) /\ i - 1 = Len(new) /\ i # 1
      BY <1>1, <1>3, <1>4, <1>7
    <2>3. todo'[i - 1] = new[Len(new)]
      BY <2>2, <1>1
    <2>4. q \in Listed'
      BY <1>5, <1>7 DEF WalksOn
    <2> QED BY <2>1, <2>2, <2>3, <2>4
  <1>8. CASE j # 2
    <2>1. /\ j - 1 \in 2 .. Len(todo) /\ Len(new) + (j - 1) - 1 = i - 1
          /\ i # 1 /\ j - 1 \in DOMAIN todo /\ j - 1 # 1 /\ 1 \in DOMAIN todo
      BY <1>1, <1>2, <1>4, <1>8
    <2>2. todo'[i - 1] = todo[j - 1]
      <3>1. todo'[Len(new) + (j - 1) - 1] = todo[j - 1]
        BY <2>1, <1>1
      <3> QED BY <2>1, <3>1
    <2>3. todo[1] # <<"unlink", q>>
      <3> SUFFICES ASSUME todo[1] = <<"unlink", q>> PROVE FALSE
        OBVIOUS
      <3>1. state[q] = "none"
        BY <2>1 DEF Leaves
      <3>2. todo[j - 1] \notin {<<"thread", q>>, <<"waits", q>>}
        BY <2>1, <3>1 DEF Threads
      <3>3. todo[j - 1] # <<"exit", q>>
        BY <2>1, <3>1 DEF Threads, Ending
      <3>4. todo[j - 1] # <<"unlink", q>>
        BY <2>1 DEF Leaves
      <3>5. todo[j - 1] # <<"call", q>>
        BY <1>5, <1>8
      <3> QED BY <1>5, <3>2, <3>3, <3>4, <3>5 DEF Turn
    <2>4. q \in Listed'
      BY <1>5, <2>3 DEF WalksOn
    <2>5. ASSUME todo'[i - 1] = <<"call", q>>
          PROVE  i = 2
      <3>1. todo[1] = <<"clear", q>> /\ new = <<>>
        BY <2>2, <2>5, <1>5, <1>8 DEF WalksOn
      <3>2. todo[3] = <<"poll", q>> /\ 3 \in DOMAIN todo
        BY <3>1, <2>1 DEF Shape, AtOnce
      <3>3. j = 3
        <4>1. /\ todo[3] \in Statement /\ todo[j] \in Statement
              /\ todo[3][1] = "poll" /\ todo[j][1] = "poll"
          <5>1. j \in 1 .. Len(todo) /\ 3 \in 1 .. Len(todo)
            BY <3>2, <1>1, <1>2
          <5>2. \A k \in 1 .. Len(todo) : todo[k] \in Statement
            BY ElementOfSeq DEF Shape
          <5>3. todo[3] \in Statement /\ todo[j] \in Statement
            BY <5>1, <5>2
          <5> QED BY <5>3, <3>2, <1>4
        <4>2. Rank(todo[3]) = 2 /\ Rank(todo[j]) = 2
          BY <4>1, RankIs
        <4>3. ~ (3 < j) /\ ~ (j < 3)
          <5>1. j \in DOMAIN todo
            BY <1>2
          <5>2. \A k, l \in DOMAIN todo : k < l =>
                  Rank(todo[k]) < Rank(todo[l]) \/ Rank(todo[k]) = 0
            BY DEF Shape, Ordered
          <5>3. 3 \in DOMAIN todo
            BY <3>2
          <5>4. ~ Rank(todo[3]) < Rank(todo[j]) /\ Rank(todo[3]) # 0
                /\ ~ Rank(todo[j]) < Rank(todo[3]) /\ Rank(todo[j]) # 0
            BY <4>2
          <5> QED BY <5>1, <5>2, <5>3, <5>4
        <4> QED BY <4>3
      <3> QED BY <3>1, <3>3, <1>3, <1>4
    <2> QED BY <1>5, <2>1, <2>2, <2>4, <2>5
  <1> QED BY <1>6, <1>7, <1>8

-----------------------------------------------------------------------------
(* What the steps have in common. *)

(* The statement that is done next. *)
LEMMA TopIs ==
  ASSUME Shape, NEW op, At(op)
  PROVE  /\ todo # <<>> /\ 1 \in DOMAIN todo /\ todo[1] \in Statement
         /\ todo[1][1] = op
         /\ op \in Ones => Arg \in Procs /\ todo[1] = <<op, Arg>>
         /\ op \in {"poll", "broadcast"} =>
              Arg \in Procs \cup {NULL} /\ todo[1] = <<op, Arg>>
         /\ op = "exited" => Arg \in Procs /\ todo[1][3] \in Procs \cup {NULL}
  <1>1. /\ todo # <<>> /\ todo[1][1] = op /\ todo \in Seq(Statement)
    BY DEF At, Shape
  <1>2. 1 \in DOMAIN todo /\ todo[1] \in Statement
    BY <1>1, EmptySeq, LenProperties, ElementOfSeq
  <1> QED BY <1>1, <1>2, StatementIs DEF Arg

(* Between the events nobody is in the middle of a call. *)
LEMMA Calm ==
  ASSUME TypeOK, Inv, todo = <<>> \/ Rank(todo[1]) > 0 \/ At("clear"),
         NEW p \in Procs
  PROVE  /\ p \in Listed => state[p] = "running"
         /\ ~ cut => state[p] # "called" /\ (p \in Listed <=> state[p] = "running")
  <1>1. state[p] \in {"none", "running", "called"}
    BY DEF TypeOK
  <1>2. ASSUME NEW i \in DOMAIN todo
        PROVE  /\ ~ Holds(todo[i], p) /\ todo[i] # <<"unlink", p>>
    <2>1. /\ todo \in Seq(Statement) /\ DOMAIN todo = 1 .. Len(todo)
          /\ Len(todo) \in Nat /\ todo[i] \in Statement
      BY LenProperties, ElementOfSeq DEF Inv, Core, Shape
    <2>2. Holds(todo[i], p) \/ todo[i] = <<"unlink", p>> => Rank(todo[i]) = 0
      <3>1. ASSUME Holds(todo[i], p) \/ todo[i] = <<"unlink", p>>
            PROVE  todo[i][1] \in Ones \ {"give"}
        BY <3>1 DEF Holds, Ones
      <3> QED BY <2>1, <3>1, RankIs
    <2>3. CASE Rank(todo[1]) > 0
      <3>1. CASE i = 1
        BY <3>1, <2>2, <2>3
      <3>2. CASE i # 1
        <4>1. 1 \in DOMAIN todo /\ 1 < i
          BY <3>2, <2>1
        <4>2. /\ Rank(todo[1]) < Rank(todo[i]) \/ Rank(todo[1]) = 0
              /\ Rank(todo[1]) \in 0 .. 6 /\ Rank(todo[i]) \in 0 .. 6
          BY <4>1, <2>1, RankIs, ElementOfSeq DEF Inv, Core, Shape, Ordered
        <4> QED BY <4>2, <2>2, <2>3
      <3> QED BY <3>1, <3>2
    <2>4. CASE At("clear")
      <3>1. /\ Arg \in Procs /\ todo[1] = <<"clear", Arg>>
            /\ 1 \in DOMAIN todo
        BY <2>4, TopIs DEF Inv, Core, Ones
      <3>2. /\ todo[2] = <<"call", Arg>> /\ todo[3] = <<"poll", Arg>>
            /\ 3 \in DOMAIN todo
        BY <3>1 DEF Inv, Core, Shape, AtOnce
      <3>3. CASE i \in {1, 2, 3}
        BY <3>1, <3>2, <3>3 DEF Holds
      <3>4. CASE i \notin {1, 2, 3}
        <4>1. Rank(todo[3]) = 2 /\ 3 < i
          <5>1. todo[3] \in Statement /\ todo[3][1] = "poll"
            BY <3>2, <2>1, ElementOfSeq
          <5>2. 3 < i
            BY <3>4, <2>1
          <5> QED BY <5>1, <5>2, RankIs
        <4>2. Rank(todo[i]) \in 0 .. 6 /\ Rank(todo[3]) < Rank(todo[i])
          <5>1. Rank(todo[i]) \in 0 .. 6 /\ Ordered(todo)
            BY <2>1, RankIs DEF Inv, Core, Shape
          <5> QED BY <5>1, <4>1, <3>2 DEF Ordered
        <4> QED BY <4>1, <4>2, <2>2
      <3> QED BY <3>3, <3>4
    <2>5. todo # <<>>
      BY <2>1
    <2> QED BY <2>3, <2>4, <2>5
  <1>3. p \in Listed => state[p] = "running"
    BY <1>1, <1>2 DEF Inv, Core, Members
  <1>4. ~ cut => state[p] # "called" /\ (state[p] # "none" => p \in Listed)
    BY <1>2 DEF Inv, Core, Whole, Threads, Leaves
  <1> QED BY <1>1, <1>3, <1>4

LEMMA ContinuesIs ==
  /\ Continues(<<>>)
  /\ todo[1][1] \in {"farewell", "exited", "give", "event", "idle", "sleep",
                     "broadcast", "start", "reset", "poll"} =>
       \A new : Continues(new)
  BY DEF Continues, Turn

LEMMA RestsStep ==
  ASSUME Rests, todo # <<>>, asleep' = asleep
  PROVE  Rests'
  BY DEF Rests

(* What the statements of a call look like. *)
Calling == (Ones \ {"give", "clear"}) \cup {"exited"}

(* Statements that a call puts in front of the rest. *)
Inner(new) ==
  /\ new \in Seq(Statement)
  /\ \A i \in DOMAIN new :
       new[i][1] \in Calling /\ (new[i][1] \in {"exit", "kill", "thread"} => i = 1)

LEMMA InnerTexts ==
  /\ Inner(<<>>)
  /\ \A a \in Statement : a[1] \in Calling =>
       /\ Inner(<<a>>)
       /\ \A b \in Statement : b[1] \in Calling \ {"exit", "kill", "thread"} =>
            /\ Inner(<<a, b>>)
            /\ \A c \in Statement : c[1] \in Calling \ {"exit", "kill", "thread"} =>
                 Inner(<<a, b, c>>)
  <1>1. Inner(<<>>)
    BY Texts DEF Inner
  <1>2. ASSUME NEW a \in Statement, a[1] \in Calling
        PROVE  Inner(<<a>>)
    <2>1. <<a>> \in Seq(Statement) /\ DOMAIN <<a>> = {1}
      BY Texts
    <2> QED BY <2>1, <1>2 DEF Inner
  <1>3. ASSUME NEW a \in Statement, a[1] \in Calling,
               NEW b \in Statement, b[1] \in Calling \ {"exit", "kill", "thread"}
        PROVE  Inner(<<a, b>>)
    <2>1. <<a, b>> \in Seq(Statement) /\ DOMAIN <<a, b>> = {1, 2}
      BY Texts
    <2> QED BY <2>1, <1>3 DEF Inner
  <1>4. ASSUME NEW a \in Statement, a[1] \in Calling,
               NEW b \in Statement, b[1] \in Calling \ {"exit", "kill", "thread"},
               NEW c \in Statement, c[1] \in Calling \ {"exit", "kill", "thread"}
        PROVE  Inner(<<a, b, c>>)
    <2>1. <<a, b, c>> \in Seq(Statement) /\ DOMAIN <<a, b, c>> = {1, 2, 3}
      BY Texts
    <2> QED BY <2>1, <1>4 DEF Inner
  <1> QED BY <1>1, <1>2, <1>3, <1>4

LEMMA CallingIs ==
  /\ {"waits", "call", "start", "farewell", "unlink", "exited"}
       \subseteq Calling \ {"exit", "kill", "thread"}
  /\ "exit" \in Calling /\ "kill" \in Calling /\ "thread" \in Calling
  BY DEF Calling, Ones

LEMMA InnerIs ==
  ASSUME Shape, todo # <<>>, NEW new, Inner(new)
  PROVE  /\ new \in Seq(Statement) /\ Ordered(new) /\ AtOnce(new)
         /\ \A i \in DOMAIN new : Rank(new[i]) <= Rank(todo[1])
  <1>1. /\ Rank(todo[1]) \in 0 .. 6
    <2>1. todo[1] \in Statement
      BY EmptySeq, LenProperties, ElementOfSeq DEF Shape
    <2> QED BY <2>1, RankIs
  <1>2. \A i \in DOMAIN new : new[i] \in Statement /\ Rank(new[i]) = 0
    <2>1. \A i \in DOMAIN new : new[i] \in Statement
      BY LenProperties, ElementOfSeq DEF Inner
    <2> QED BY <2>1, RankIs DEF Inner, Calling
  <1>3. Ordered(new)
    BY <1>2 DEF Ordered
  <1>4. AtOnce(new)
    BY DEF AtOnce, Inner, Calling, Ones
  <1> QED BY <1>1, <1>2, <1>3, <1>4 DEF Inner

(* A step in which nobody comes or goes and no poll or broadcast begins or *)
(* goes on.                                                                *)
LEMMA SameStep ==
  ASSUME TypeOK, Core, todo # <<>>, NEW new \in Seq(Statement), Then(new),
         Ordered(new), AtOnce(new),
         \A i \in DOMAIN new : Rank(new[i]) <= Rank(todo[1]),
         UNCHANGED <<lists, polls>>, due' \subseteq due, cut => cut',
         \A p \in Procs :
           /\ state'[p] = "none" <=> state[p] = "none"
           /\ Minds(new, p)
           /\ ~ cut' => Settled(new, p) \/ Anew(new, p),
         \A i \in DOMAIN new :
           new[i][1] \notin {"unlink", "clear", "broadcast", "poll"},
         todo[1][1] \notin {"unlink", "clear", "poll"},
         \A p \in due' : todo[1] # <<"give", p>>,
         ~ cut' => Continues(new)
  PROVE  Core'
  <1>1. Shape'
    BY ShapeStep DEF Core
  <1>2. ~ cut' => Threads'
    BY ThreadsStep DEF Core, Whole
  <1>12. Members'
    BY MembersStep DEF Core
  <1>3. Listed' = Listed /\ Linear(next, process_list)'
    BY DEF lists, Listed, Core
  <1>10. /\ owed \subseteq Procs /\ due \subseteq Procs
         /\ next \in Links /\ process_list \in Procs \cup {NULL}
    BY DEF TypeOK, Links
  <1>11. ~ cut' => Walks'
    <2>1. WalksOn(new)
      <3>1. Closed(next, Listed) /\ Listed \in SUBSET Procs
        BY <1>10, ReachIs DEF Listed
      <3> QED BY <3>1, <1>3 DEF WalksOn, Closed, lists
    <2> QED BY <2>1, WalksStep DEF Core, Whole
  <1>4. \A p \in Procs : Stays(new, p)
    BY <1>3 DEF Stays
  <1>5. ~ cut' => Leaves'
    BY <1>4, LeavesStep DEF Core, Whole
  <1>6. process_list' = process_list /\ next' = next
    BY DEF lists
  <1>7. Polls'
    <2>1. /\ owed' \subseteq Listed'
          /\ \A p \in owed' : needspoll'[p] /\ state'[p] # "none"
      BY <1>3, <1>10 DEF Core, Polls, polls
    <2> QED BY <2>1, <1>6, <1>10, PollsStep DEF Core, polls
  <1>8. Dues'
    <2>1. due' \subseteq Listed' /\ \A p \in due' : state'[p] # "none"
      BY <1>3, <1>10 DEF Core, Dues
    <2> QED BY <2>1, <1>6, <1>10, DuesStep DEF Core
  <1> QED BY <1>1, <1>2, <1>3, <1>5, <1>7, <1>8, <1>11, <1>12
     DEF Core, Whole

(* The same, for the statements of a call. *)
LEMMA InnerStep ==
  ASSUME TypeOK, Inv, todo # <<>>, NEW new, Inner(new), Then(new),
         ~ cut' => Continues(new), cut => cut',
         UNCHANGED <<lists, polls>>, asleep' = asleep, due' \subseteq due,
         \A p \in Procs :
           /\ state'[p] = "none" <=> state[p] = "none"
           /\ Minds(new, p)
           /\ ~ cut' => Settled(new, p) \/ Anew(new, p),
         \A i \in DOMAIN new : new[i][1] # "unlink",
         todo[1][1] \notin {"unlink", "clear", "poll"},
         \A p \in due' : todo[1] # <<"give", p>>
  PROVE  Inv'
  <1>1. /\ new \in Seq(Statement) /\ Ordered(new) /\ AtOnce(new)
        /\ \A i \in DOMAIN new : Rank(new[i]) <= Rank(todo[1])
    BY InnerIs DEF Inv, Core
  <1>2. \A i \in DOMAIN new :
          new[i][1] \notin {"unlink", "clear", "broadcast", "poll"}
    BY DEF Inner, Calling, Ones
  <1>3. Core'
    BY <1>1, <1>2, SameStep DEF Inv
  <1>4. Rests'
    BY RestsStep DEF Inv
  <1> QED BY <1>3, <1>4 DEF Inv

-----------------------------------------------------------------------------
(* The steps. *)

(* A statement that is done, and nothing has changed. *)
LEMMA NoneStep ==
  ASSUME TypeOK, Inv, todo # <<>>, Then(<<>>),
         UNCHANGED <<lists, polls, state, cut>>, due' \subseteq due,
         \A p \in Procs : ~ Holds(todo[1], p),
         todo[1][1] \notin {"unlink", "clear", "poll"},
         \A p \in due' : todo[1] # <<"give", p>>
  PROVE  Core' /\ (asleep' = asleep => Inv')
  <1>1. /\ Inner(<<>>) /\ Continues(<<>>) /\ DOMAIN <<>> = {}
        /\ \A p \in Procs : Settled(<<>>, p)
    BY InnerTexts, ContinuesIs DEF Settled
  <1>5. \A p \in Procs : Minds(<<>>, p)
    <2>1. Listed' = Listed
      BY DEF lists, Listed
    <2>2. \A p \in Procs : Alike(<<>>, p)
      BY <1>1, <2>1 DEF Alike
    <2> QED BY <2>2, AlikeMinds DEF Inv, Core
  <1>2. /\ <<>> \in Seq(Statement) /\ Ordered(<<>>) /\ AtOnce(<<>>)
    BY <1>1, InnerIs DEF Inv, Core
  <1>3. Core'
    BY <1>1, <1>2, <1>5, SameStep DEF Inv
  <1>4. asleep' = asleep => Rests'
    BY RestsStep DEF Inv
  <1> QED BY <1>3, <1>4 DEF Inv

(* call_process *)
LEMMA CalledStep ==
  ASSUME TypeOK, Inv, NEW op \in {"call", "give"}, At(op), Called(Arg),
         UNCHANGED <<lists, polls, cut>>, asleep' = asleep,
         due' \subseteq due, Arg \in due' => op = "call"
  PROVE  Inv'
  <1>1. /\ todo # <<>> /\ todo[1] = <<op, Arg>> /\ Arg \in Procs
        /\ todo[1][1] = op
    BY TopIs DEF Inv, Core, Ones
  <1>2. /\ \A p \in Procs : ~ Holds(todo[1], p)
        /\ \A p \in due' : todo[1] # <<"give", p>>
    BY <1>1 DEF Holds
  <1>5. Listed' = Listed /\ Shape /\ Members
    BY DEF lists, Listed, Inv, Core
  <1>3. CASE state[Arg] = "running"
    <2> DEFINE new == << <<"thread", Arg>> >>
    <2>1. /\ Then(new) /\ state' = [state EXCEPT ![Arg] = "called"]
      BY <1>3 DEF Called
    <2>2. Inner(new)
      BY <1>1, IsStatement, InnerTexts, CallingIs
    <2>3. ASSUME NEW p \in Procs
          PROVE  /\ state'[p] = "none" <=> state[p] = "none"
                 /\ Minds(new, p)
                 /\ Settled(new, p) \/ Anew(new, p)
      <3>1. CASE p = Arg
        <4>1. ~ Behind(p)
          BY <3>1, <1>1, <1>3, <1>5, BehindIs
        <4>2. /\ DOMAIN new = {1} /\ new[1] = <<"thread", p>>
              /\ state'[p] = "called"
          BY <3>1, <2>1 DEF TypeOK
        <4>3. Minds(new, p)
          BY <4>1, <4>2 DEF Minds, Holds, Ending
        <4> QED BY <3>1, <4>3, <2>1, <1>3 DEF Anew, Holds, Ending, TypeOK
      <3>2. CASE p # Arg
        <4>1. Alike(new, p)
          BY <3>2, <2>1, <1>1, <1>2, <1>5 DEF Alike, Holds, Ending, TypeOK
        <4> QED BY <3>2, <4>1, <2>1, <1>1, <1>2, <1>5, AlikeMinds
              DEF Settled, Holds, Ending, TypeOK
      <3> QED BY <3>1, <3>2
    <2>4. \A i \in DOMAIN new : new[i][1] # "unlink"
      OBVIOUS
    <2>5. Continues(new)
      BY <1>1 DEF Continues, Turn
    <2> HIDE DEF new
    <2> QED BY <1>1, <1>2, <2>1, <2>2, <2>3, <2>4, <2>5, InnerStep
  <1>4. CASE state[Arg] # "running"
    <2>1. Then(<<>>) /\ UNCHANGED state
      BY <1>4 DEF Called
    <2>2. Inner(<<>>)
      BY InnerTexts
    <2>3. \A p \in Procs : Settled(<<>>, p) /\ Minds(<<>>, p)
      <3>1. \A p \in Procs : Alike(<<>>, p)
        BY <1>1, <1>2, <1>5, <2>1 DEF Alike
      <3> QED BY <3>1, <1>1, <1>2, <1>5, <2>1, AlikeMinds DEF Settled
    <2> QED BY <1>1, <1>2, <2>1, <2>2, <2>3, ContinuesIs, InnerStep
  <1> QED BY <1>3, <1>4

LEMMA CallStep ==
  ASSUME TypeOK, Inv, Call
  PROVE  Inv'
  BY CalledStep DEF Call

(* do_event calls the process that the broadcast has come to. *)
LEMMA GiveStep ==
  ASSUME TypeOK, Inv, Give
  PROVE  Inv'
  <1>1. /\ todo[1] \in Statement /\ todo[1][1] = "give" /\ Arg \in Procs
    BY TopIs DEF Give, Inv, Core, Ones
  <1>2. Arg \notin due'
    <2>1. Rank(todo[1]) = 3
      BY <1>1, RankIs
    <2>2. Arg \in Listed => state[Arg] = "running"
      BY <1>1, <2>1, Calm
    <2>3. Arg \in due => state[Arg] = "running"
      BY <1>1, <2>2 DEF Inv, Core, Dues
    <2> QED BY <2>3 DEF Give
  <1> QED BY <1>2, CalledStep DEF Give

(* exit_process tells the others. *)
LEMMA ExitedStep ==
  ASSUME TypeOK, Inv, Exited
  PROVE  Inv'
  <1>1. /\ todo # <<>> /\ todo[1][1] = "exited" /\ Arg \in Procs
        /\ todo[1][3] \in Procs \cup {NULL}
    BY TopIs DEF Exited, Inv, Core
  <1>2. PICK q \in Procs \cup {NULL} : q = After(todo[1][3])
    BY <1>1 DEF After, TypeOK
  <1>3. \/ Then(<<>>)
        \/ q # NULL /\ Then(<< <<"exited", Arg, q>> >>)
        \/ q # NULL /\ Then(<< <<"call", q>>, <<"exited", Arg, q>> >>)
    <2>1. Then(CASE q = NULL -> <<>>
                 [] q = Arg  -> << <<"exited", Arg, q>> >>
                 [] OTHER    -> << <<"call", q>>, <<"exited", Arg, q>> >>)
      BY <1>2 DEF Exited
    <2>2. CASE q = NULL
      BY <1>1, <2>1, <2>2
    <2>3. CASE q = Arg
      BY <1>1, <2>1, <2>3
    <2>4. CASE q # NULL /\ q # Arg
      BY <2>1, <2>4
    <2> QED BY <2>2, <2>3, <2>4
  <1>4. ASSUME NEW new, Then(new), Inner(new),
               \A i \in DOMAIN new : new[i][1] \in {"call", "exited"}
        PROVE  Inv'
    <2>1. \A p \in Procs : Settled(new, p)
      BY <1>1, <1>4 DEF Settled, Holds, Exited
    <2>2. \A p \in Procs : Minds(new, p)
      <3>1. Listed' = Listed
        BY DEF Exited, lists, Listed
      <3>2. \A p \in Procs : Alike(new, p)
        BY <1>1, <1>4, <3>1 DEF Alike, Holds, Exited
      <3> QED BY <3>2, <1>1, AlikeMinds DEF Inv, Core
    <2> QED BY <1>1, <1>4, <2>1, <2>2, ContinuesIs, InnerStep DEF Exited
  <1>5. CASE Then(<<>>)
    BY <1>4, <1>5, InnerTexts
  <1>6. CASE q # NULL /\ Then(<< <<"exited", Arg, q>> >>)
    <2>1. Inner(<< <<"exited", Arg, q>> >>)
      BY <1>1, <1>6, IsStatement, InnerTexts, CallingIs
    <2> QED BY <1>4, <1>6, <2>1
  <1>7. CASE q # NULL /\ Then(<< <<"call", q>>, <<"exited", Arg, q>> >>)
    <2>1. Inner(<< <<"call", q>>, <<"exited", Arg, q>> >>)
      BY <1>1, <1>7, IsStatement, InnerTexts, CallingIs
    <2> QED BY <1>4, <1>7, <2>1
  <1> QED BY <1>3, <1>5, <1>6, <1>7

(* The end of call_process. *)
LEMMA WaitsStep ==
  ASSUME TypeOK, Inv, Waits
  PROVE  Inv'
  <1>1. /\ todo # <<>> /\ todo[1] = <<"waits", Arg>> /\ Arg \in Procs
        /\ 1 \in DOMAIN todo
    BY TopIs DEF Waits, Inv, Core, Ones
  <1>2. ~ cut => state[Arg] = "called"
    BY <1>1 DEF Inv, Core, Whole, Threads
  <1>3. /\ UNCHANGED <<lists, polls, asleep, due, cut>> /\ Then(<<>>)
        /\ state' = [state EXCEPT ![Arg] = "running"]
    BY DEF Waits
  <1>4. /\ <<>> \in Seq(Statement) /\ DOMAIN <<>> = {}
        /\ Ordered(<<>>) /\ AtOnce(<<>>) /\ Continues(<<>>)
    BY Texts, ContinuesIs DEF Ordered, AtOnce
  <1>5. /\ Listed' = Listed /\ Linear(next, process_list)'
        /\ next' = next /\ process_list' = process_list
    BY <1>3 DEF lists, Listed, Inv, Core
  <1>6. \A p \in Procs :
          state'[p] = IF p = Arg THEN "running" ELSE state[p]
    BY <1>3 DEF TypeOK
  <1>7. Shape'
    BY <1>1, <1>3, <1>4, ShapeStep DEF Inv, Core
  <1>8. Members'
    <2>1. ASSUME NEW p \in Procs
          PROVE  Minds(<<>>, p)
      <3>1. CASE p = Arg
        <4>1. ~ Behind(p)
          BY <3>1, <1>1, BehindIs DEF Inv, Core, Holds
        <4> QED BY <4>1, <3>1, <1>4, <1>6 DEF Minds
      <3>2. CASE p # Arg
        <4>1. Alike(<<>>, p)
          BY <3>2, <1>1, <1>4, <1>5, <1>6 DEF Alike, Holds
        <4> QED BY <4>1, <1>1, AlikeMinds DEF Inv, Core
      <3> QED BY <3>1, <3>2
    <2> QED BY <2>1, <1>1, <1>3, <1>4, MembersStep DEF Inv, Core
  <1>9. Polls'
    <2>1. /\ owed' = owed /\ poll_requested' = poll_requested
          /\ owed' \subseteq Listed'
          /\ \A p \in owed' : needspoll'[p] /\ state'[p] # "none"
      BY <1>3, <1>5, <1>6 DEF Inv, Core, Polls, polls, TypeOK
    <2>2. /\ todo[1][1] # "poll" /\ \A p : todo[1] # <<"clear", p>>
      BY <1>1
    <2>3. Shape /\ Polls /\ Then(<<>>)
      BY <1>3 DEF Inv, Core
    <2> QED BY <2>1, <2>2, <2>3, <1>1, <1>4, <1>5, PollsStep
  <1>10. Dues'
    <2>1. /\ due' = due /\ due' \subseteq Listed'
          /\ \A p \in due' : state'[p] # "none"
      BY <1>3, <1>5, <1>6 DEF Inv, Core, Dues, TypeOK
    <2>2. /\ \A p : todo[1] # <<"give", p>>
          /\ \A i \in DOMAIN <<>> : <<>>[i][1] # "broadcast"
      BY <1>1, <1>4
    <2>3. Shape /\ Dues /\ Then(<<>>)
      BY <1>3 DEF Inv, Core
    <2> QED BY <2>1, <2>2, <2>3, <1>1, <1>4, <1>5, DuesStep
  <1>11. Rests'
    BY <1>1, <1>3, RestsStep DEF Inv
  <1>12. ASSUME ~ cut'
         PROVE  Whole'
    <2>1. Whole /\ state[Arg] = "called"
      BY <1>12, <1>2, <1>3 DEF Inv, Core
    <2>2. \A p \in Procs : Settled(<<>>, p) \/ Anew(<<>>, p)
      BY <2>1, <1>1, <1>4, <1>6 DEF Settled, Anew, Holds
    <2>3. Threads'
      BY <2>1, <2>2, <1>1, <1>3, <1>4, ThreadsStep DEF Inv, Core, Whole
    <2>4. Leaves'
      <3>1. \A p \in Procs : Stays(<<>>, p)
        BY <2>1, <1>1, <1>4, <1>5, <1>6 DEF Stays
      <3> QED BY <2>1, <3>1, <1>1, <1>3, <1>4, LeavesStep DEF Inv, Core, Whole
    <2>5. Walks'
      <3>1. next \in Links /\ process_list \in Procs \cup {NULL}
        BY DEF TypeOK, Links
      <3>2. Closed(next, Listed) /\ Listed \in SUBSET Procs
        BY <3>1, ReachIs DEF Listed
      <3>3. WalksOn(<<>>)
        BY <3>2, <1>1, <1>4, <1>5 DEF WalksOn, Closed
      <3> QED BY <2>1, <3>3, <1>1, <1>3, <1>4, WalksStep DEF Inv, Core, Whole
    <2> QED BY <2>3, <2>4, <2>5 DEF Whole
  <1> QED BY <1>5, <1>7, <1>8, <1>9, <1>10, <1>11, <1>12 DEF Inv, Core

(* What a thread does, before the rest of it. *)
LEMMA DoesStep ==
  ASSUME TypeOK, Inv, NEW p \in Procs, NEW rest, 1 \in DOMAIN todo,
         \/ todo[1] = <<"thread", p>> /\ rest = << <<"waits", p>> >>
         \/ todo[1] = <<"farewell", p>> /\ rest = <<>>,
         Does(p, rest)
  PROVE  Inv'
  <1>1. /\ UNCHANGED <<lists, state, polls, asleep, due>> /\ todo # <<>>
        /\ cut => cut'
    <2>1. todo # <<>>
      BY EmptySeq DEF Inv, Core, Shape
    <2>2. UNCHANGED <<lists, state, polls, asleep, due>>
      BY DEF Does, Post
    <2>3. cut => cut'
      BY DEF Does, Post
    <2> QED BY <2>1, <2>2, <2>3
  <1>2. \/ Then(rest)
        \/ \E q \in Procs, op \in {"start", "call", "exit", "kill"} :
             /\ Then(<< <<op, q>> >> \o rest)
             /\ op = "start" => state[q] = "none"
             /\ op = "call" => state[q] = "running"
             /\ op = "exit" => q = p
             /\ op = "kill" => q # p
             /\ op \in {"exit", "kill"} =>
                  state[q] # "none" /\ (~ cut' => state[q] # "called")
    BY DEF Does
  <1>6. Shape /\ Members /\ Listed' = Listed
    BY <1>1 DEF Inv, Core, lists, Listed
  <1>3. ASSUME NEW new, Then(new), Inner(new),
               \A i \in DOMAIN new : new[i][1] # "unlink",
               NEW q,
               \A r \in Procs \ {p, q} : \A i \in DOMAIN new :
                 ~ Holds(new[i], r),
               q # p => \/ \A i \in DOMAIN new : ~ Holds(new[i], q)
                        \/ /\ state[q] # "none" /\ 1 \in DOMAIN new
                           /\ ~ cut' => state[q] = "running"
                           /\ new[1] = <<"kill", q>>
                           /\ \A i \in DOMAIN new : Holds(new[i], q) => i = 1,
               IF todo[1] = <<"thread", p>>
               THEN /\ \E k \in DOMAIN new : Holds(new[k], p)
                    /\ \A i \in DOMAIN new :
                         new[i] \in {<<"thread", p>>} \cup Ending(p) =>
                           state[p] # "none"
                    /\ ~ cut' => \E k \in DOMAIN new :
                         \A i \in DOMAIN new : Holds(new[i], p) <=> i = k
               ELSE \/ \A i \in DOMAIN new : ~ Holds(new[i], p)
                    \/ /\ state[p] # "none" /\ 1 \in DOMAIN new
                       /\ ~ cut' => state[p] = "running"
                       /\ new[1] = <<"exit", p>>
                       /\ \A i \in DOMAIN new : Holds(new[i], p) => i = 1,
               Continues(new)
        PROVE  Inv'
    <2>1. \A i \in DOMAIN new : \A r : new[i] # <<"clear", r>>
                                       /\ new[i] # <<"unlink", r>>
      BY <1>3 DEF Inner, Calling, Ones
    <2>2. ASSUME NEW r \in Procs
          PROVE  /\ Minds(new, r)
                 /\ ~ cut' => Settled(new, r) \/ Anew(new, r)
      <3>1. CASE r = p /\ todo[1] = <<"thread", p>>
        <4>1. ~ Behind(r)
          BY <3>1, <1>1, <1>6, BehindIs DEF Holds
        <4>2. Minds(new, r)
          BY <4>1, <3>1, <2>1, <1>1, <1>3, <1>6 DEF Minds
        <4>3. ASSUME ~ cut'
              PROVE  Anew(new, r)
          <5>1. state[r] = "called"
            BY <4>3, <3>1, <1>1 DEF Inv, Core, Whole, Threads
          <5> QED BY <4>3, <5>1, <3>1, <1>1, <1>3 DEF Anew, Holds
        <4> QED BY <4>2, <4>3
      <3>2. CASE /\ r # p \/ todo[1] # <<"thread", p>>
                 /\ \A i \in DOMAIN new : ~ Holds(new[i], r)
        <4>1. ~ Holds(todo[1], r)
          BY <3>2 DEF Holds
        <4>2. Alike(new, r)
          BY <4>1, <3>2, <2>1, <1>1, <1>6 DEF Alike
        <4> QED BY <4>1, <4>2, <3>2, <1>1, <1>6, AlikeMinds DEF Settled
      <3>3. CASE /\ r # p \/ todo[1] # <<"thread", p>>
                 /\ state[r] # "none" /\ 1 \in DOMAIN new
                 /\ ~ cut' => state[r] = "running"
                 /\ new[1] \in Ending(r)
                 /\ \A i \in DOMAIN new : Holds(new[i], r) => i = 1
        <4>1. ~ Behind(r) /\ ~ Holds(todo[1], r)
          BY <3>3, <1>1, <1>6, BehindIs DEF Holds
        <4>2. Holds(new[1], r)
          BY <3>3 DEF Holds, Ending
        <4>3. Minds(new, r)
          BY <4>1, <4>2, <3>3, <2>1, <1>1, <1>6 DEF Minds
        <4>4. ~ cut' => Anew(new, r)
          BY <4>2, <3>3, <1>1 DEF Anew
        <4> QED BY <4>3, <4>4
      <3> QED BY <3>1, <3>2, <3>3, <1>3 DEF Ending
    <2>3. todo[1][1] \in {"thread", "farewell"}
      OBVIOUS
    <2> QED BY <1>1, <1>3, <2>2, <2>3, InnerStep
  <1>4. CASE Then(rest)
    <2>2. CASE todo[1] = <<"thread", p>>
      <3> DEFINE new == << <<"waits", p>> >>
      <3>1. /\ DOMAIN new = {1} /\ new[1] = <<"waits", p>> /\ new = rest
            /\ Inner(new)
        <4>1. /\ <<"waits", p>> \in Statement
              /\ <<"waits", p>>[1] \in Calling
          BY IsStatement, CallingIs
        <4> QED BY <2>2, <4>1, InnerTexts
      <3>4. Continues(new)
        BY <2>2 DEF Continues, Turn, new
      <3> HIDE DEF new
      <3>2. \A i \in DOMAIN new :
              /\ new[i][1] # "unlink" /\ Holds(new[i], p)
              /\ new[i] \notin {<<"thread", p>>} \cup Ending(p)
              /\ \A r : r # p => ~ Holds(new[i], r)
        BY <3>1 DEF Holds, Ending
      <3>3. 1 \in DOMAIN new /\ \A i \in DOMAIN new : i = 1
        BY <3>1
      <3> QED BY <1>3, <1>4, <2>2, <3>1, <3>2, <3>3, <3>4
    <2>3. CASE todo[1] # <<"thread", p>>
      <3>1. Inner(<<>>) /\ rest = <<>>
        BY <2>3, InnerTexts
      <3>2. /\ Continues(<<>>) /\ Then(<<>>) /\ DOMAIN <<>> = {}
        BY <1>4, <3>1, ContinuesIs
      <3> QED BY <1>3, <2>3, <3>1, <3>2
    <2> QED BY <2>2, <2>3
  <1>5. ASSUME NEW q \in Procs, NEW op \in {"start", "call", "exit", "kill"},
               Then(<< <<op, q>> >> \o rest),
               op = "exit" => q = p,
               op = "kill" => q # p,
               op \in {"exit", "kill"} =>
                 state[q] # "none" /\ (~ cut' => state[q] # "called")
        PROVE  Inv'
    <2> DEFINE s == <<op, q>>
    <2>1. /\ s \in Statement /\ s[1] \in Calling /\ s[1] # "unlink"
          /\ \A r : Holds(s, r) => r = q /\ op \in {"exit", "kill"}
          /\ \A r : s \in {<<"thread", r>>} \cup Ending(r) =>
               r = q /\ op \in {"exit", "kill"}
          /\ op = "exit" => s = <<"exit", q>>
          /\ op = "kill" => s = <<"kill", q>>
      <3>1. CASE op = "start"
        BY <3>1, IsStatement, CallingIs DEF Holds, Ending
      <3>2. CASE op = "call"
        BY <3>2, IsStatement, CallingIs DEF Holds, Ending
      <3>3. CASE op = "exit"
        BY <3>3, IsStatement, CallingIs DEF Holds, Ending
      <3>4. CASE op = "kill"
        BY <3>4, IsStatement, CallingIs DEF Holds, Ending
      <3> QED BY <3>1, <3>2, <3>3, <3>4
    <2>2. Then(<<s>> \o rest)
      BY <1>5
    <2>5. ~ cut' /\ op \in {"exit", "kill"} => state[q] = "running"
      BY <1>5 DEF TypeOK
    <2> HIDE DEF s
    <2>3. CASE todo[1] = <<"thread", p>>
      <3> DEFINE new == <<s, <<"waits", p>> >>
      <3>1. <<"waits", p>> \in Statement /\ "waits" \in Calling \ {"exit", "kill", "thread"}
        BY IsStatement, CallingIs
      <3>2. <<s>> \o rest = new /\ Inner(new)
        <4>1. <<"waits", p>>[1] \in Calling \ {"exit", "kill", "thread"}
          BY <3>1
        <4>2. Inner(new)
          BY <2>1, <3>1, <4>1, InnerTexts
        <4>3. <<s>> \o << <<"waits", p>> >> = new
          BY <2>1, <3>1, Join11
        <4>4. rest = << <<"waits", p>> >>
          BY <2>3
        <4> QED BY <4>2, <4>3, <4>4
      <3>3. /\ DOMAIN new = {1, 2} /\ new[1] = s /\ new[2] = <<"waits", p>>
        OBVIOUS
      <3>10. Continues(new)
        BY <2>3 DEF Continues, Turn, new
      <3> HIDE DEF new
      <3>4. /\ \A r : r # p => ~ Holds(new[2], r)
            /\ Holds(new[2], p) /\ new[2][1] # "unlink"
            /\ new[2] \notin {<<"thread", p>>} \cup Ending(p)
        BY <3>3 DEF Holds, Ending
      <3>5. ASSUME ~ cut'
            PROVE  ~ Holds(new[1], p)
        <4>1. state[p] = "called"
          BY <3>5, <2>3, <1>1 DEF Inv, Core, Whole, Threads
        <4> QED BY <4>1, <3>5, <2>1, <2>5, <3>3
      <3>6. ~ cut' => \A i \in DOMAIN new : Holds(new[i], p) <=> i = 2
        BY <3>3, <3>4, <3>5
      <3>7. \A r \in Procs \ {p, q} : \A i \in DOMAIN new : ~ Holds(new[i], r)
        BY <2>1, <3>3, <3>4
      <3>8. ASSUME q # p
            PROVE  \/ \A i \in DOMAIN new : ~ Holds(new[i], q)
                   \/ /\ state[q] # "none" /\ 1 \in DOMAIN new
                      /\ ~ cut' => state[q] = "running"
                      /\ new[1] = <<"kill", q>>
                      /\ \A i \in DOMAIN new : Holds(new[i], q) => i = 1
        BY <1>5, <2>1, <2>5, <3>3, <3>4, <3>8
      <3>9. 2 \in DOMAIN new /\ \A i \in DOMAIN new : new[i][1] # "unlink"
        BY <2>1, <3>3, <3>4
      <3>11. \A i \in DOMAIN new :
               new[i] \in {<<"thread", p>>} \cup Ending(p) => state[p] # "none"
        BY <1>5, <2>1, <3>3, <3>4
      <3>12. Then(new) /\ Inner(new)
        BY <2>2, <3>2
      <3> QED BY <1>3, <2>3, <3>4, <3>6, <3>7, <3>8, <3>9, <3>10, <3>11,
                 <3>12, SMTT(30)
    <2>4. CASE todo[1] # <<"thread", p>>
      <3> DEFINE new == <<s>>
      <3>1. <<s>> \o rest = new /\ Inner(new)
        <4>1. rest = <<>> /\ <<s>> \in Seq(Statement)
          BY <2>1, <2>4
        <4>2. <<s>> \o <<>> = <<s>>
          BY <4>1, ConcatEmptySeq
        <4> QED BY <2>1, <4>1, <4>2, InnerTexts
      <3>2. DOMAIN new = {1} /\ new[1] = s
        OBVIOUS
      <3> HIDE DEF new
      <3>3. \A r \in Procs \ {q} : \A i \in DOMAIN new : ~ Holds(new[i], r)
        BY <2>1, <3>2
      <3>4. \/ \A i \in DOMAIN new : ~ Holds(new[i], q)
            \/ /\ state[q] # "none" /\ 1 \in DOMAIN new
               /\ ~ cut' => state[q] = "running"
               /\ new[1] = IF q = p THEN <<"exit", q>> ELSE <<"kill", q>>
               /\ \A i \in DOMAIN new : Holds(new[i], q) => i = 1
        BY <1>5, <2>1, <2>5, <3>2
      <3>5. \A i \in DOMAIN new : new[i][1] # "unlink"
        BY <2>1, <3>2
      <3>6. Continues(new)
        <4>1. todo[1][1] = "farewell"
          BY <2>4
        <4> QED BY <4>1, ContinuesIs
      <3>7. q # p => \A i \in DOMAIN new : ~ Holds(new[i], p)
        BY <3>3
      <3> QED BY <1>3, <2>2, <2>4, <3>1, <3>3, <3>4, <3>5, <3>6, <3>7
    <2> QED BY <2>3, <2>4
  <1> QED BY <1>2, <1>4, <1>5

(* The thread of a process. *)
LEMMA ThreadStep ==
  ASSUME TypeOK, Inv, Thread
  PROVE  Inv'
  <1>1. /\ todo # <<>> /\ todo[1] = <<"thread", Arg>> /\ Arg \in Procs
        /\ 1 \in DOMAIN todo
    BY TopIs DEF Thread, Inv, Core, Ones
  <1>2. CASE Does(Arg, << <<"waits", Arg>> >>)
    BY <1>1, <1>2, DoesStep
  <1>3. CASE /\ Then(<< <<"exit", Arg>> >>)
             /\ UNCHANGED <<queue, lists, state, polls, receiver, asleep, due,
                            cut>>
    <2>1. Inner(<< <<"exit", Arg>> >>)
      BY <1>1, IsStatement, InnerTexts, CallingIs
    <2>2. ~ cut' => state[Arg] = "called"
      BY <1>1, <1>3 DEF Inv, Core, Whole, Threads
    <2> DEFINE new == << <<"exit", Arg>> >>
    <2>3. DOMAIN new = {1} /\ new[1] = <<"exit", Arg>> /\ Then(new)
      BY <1>3
    <2>5. Continues(new)
      BY <1>1, <2>3 DEF Continues, Turn, new
    <2> HIDE DEF new
    <2>6. Listed' = Listed /\ Shape /\ Members
      BY <1>3 DEF lists, Listed, Inv, Core
    <2>4. ASSUME NEW p \in Procs
          PROVE  /\ Minds(new, p)
                 /\ ~ cut' => Settled(new, p) \/ Anew(new, p)
      <3>1. CASE p = Arg
        <4>1. ~ Behind(p) /\ Holds(new[1], p)
          BY <3>1, <1>1, <2>3, <2>6, BehindIs DEF Holds
        <4>2. state[p] # "none"
          BY <3>1, <1>1, <2>6 DEF Members
        <4>3. Minds(new, p)
          BY <4>1, <4>2, <3>1, <1>1, <1>3, <2>3, <2>6 DEF Minds
        <4> QED BY <4>3, <3>1, <1>1, <1>3, <2>2, <2>3 DEF Anew, Holds
      <3>2. CASE p # Arg
        <4>1. Alike(new, p) /\ Settled(new, p)
          BY <3>2, <1>1, <1>3, <2>3, <2>6 DEF Alike, Settled, Holds
        <4> QED BY <4>1, <1>1, <2>6, AlikeMinds
      <3> QED BY <3>1, <3>2
    <2> QED BY <1>1, <1>3, <2>1, <2>3, <2>4, <2>5, InnerStep DEF new
  <1> QED BY <1>2, <1>3 DEF Thread

LEMMA FarewellStep ==
  ASSUME TypeOK, Inv, Farewell
  PROVE  Inv'
  <1>1. /\ todo # <<>> /\ todo[1] = <<"farewell", Arg>> /\ Arg \in Procs
        /\ 1 \in DOMAIN todo
    BY TopIs DEF Farewell, Inv, Core, Ones
  <1> QED BY <1>1, DoesStep DEF Farewell

(* process_start *)
LEMMA StartStep ==
  ASSUME TypeOK, Inv, Start
  PROVE  Inv'
  <1>1. /\ todo # <<>> /\ todo[1] = <<"start", Arg>> /\ Arg \in Procs
        /\ 1 \in DOMAIN todo
    BY TopIs DEF Start, Inv, Core, Ones
  <1>2. /\ UNCHANGED <<queue, polls, receiver, asleep, due, cut>>
        /\ \A p \in Procs : ~ Holds(todo[1], p)
    BY <1>1 DEF Start, Holds
  <1>3. CASE Arg \in Listed
    <2>1. Then(<<>>) /\ UNCHANGED <<lists, state>>
      BY <1>3 DEF Start
    <2> QED BY <1>1, <1>2, <2>1, NoneStep
  <1>4. CASE Arg \notin Listed
    <2> DEFINE new == << <<"thread", Arg>> >>
    <2>1. /\ next' = [next EXCEPT ![Arg] = process_list]
          /\ process_list' = Arg
          /\ state' = [state EXCEPT ![Arg] = "called"] /\ Then(new)
      BY <1>4 DEF Start
    <2>2. /\ DOMAIN new = {1} /\ new[1] = <<"thread", Arg>> /\ Inner(new)
      <3>1. <<"thread", Arg>> \in Statement /\ <<"thread", Arg>>[1] \in Calling
        BY <1>1, IsStatement, CallingIs
      <3> QED BY <3>1, InnerTexts
    <2> HIDE DEF new
    <2>12. Then(new) /\ new \in Seq(Statement)
      BY <2>1, <2>2 DEF Inner
    <2>3. /\ next \in Links /\ process_list \in Procs \cup {NULL}
          /\ Linear(next, process_list)
          /\ Arg \notin Reach(next, process_list)
      BY <1>4 DEF TypeOK, Links, Listed, Inv, Core
    <2>4. /\ Listed' = Listed \cup {Arg} /\ Linear(next, process_list)'
          /\ \A D \in SUBSET Listed : \A p \in Procs \cup {NULL} :
               D \subseteq Reach(next, From(process_list, p))
                 => D \subseteq Reach(next', From(process_list', p))
      <3>1. /\ Reach(next', Arg) = Listed \cup {Arg} /\ Linear(next', Arg)
            /\ \A D \in SUBSET Listed : \A h \in Procs \cup {NULL} :
                 D \subseteq Reach(next, h) => D \subseteq Reach(next', h)
            /\ \A D \in SUBSET Listed : D \subseteq Reach(next', Arg)
        <4>1. PICK n, f, x : n = next /\ f = process_list /\ x = Arg
          OBVIOUS
        <4>2. /\ n \in Links /\ f \in Procs \cup {NULL} /\ Linear(n, f)
              /\ x \in Procs /\ x \notin Reach(n, f)
              /\ next' \in Links /\ next'[x] = f
              /\ \A q \in Procs \ {x} : next'[q] = n[q]
          BY <1>1, <2>1, <2>3, <4>1 DEF Links
        <4>3. /\ Reach(next', x) = Reach(n, f) \cup {x} /\ Linear(next', x)
              /\ \A D \in SUBSET Reach(n, f) : \A h \in Procs \cup {NULL} :
                   D \subseteq Reach(n, h) => D \subseteq Reach(next', h)
              /\ \A D \in SUBSET Reach(n, f) : D \subseteq Reach(next', x)
          BY <4>2, Linked
        <4> QED BY <4>1, <4>3 DEF Listed
      <3>2. Listed' = Listed \cup {Arg} /\ Linear(next, process_list)'
        BY <2>1, <3>1 DEF Listed
      <3> QED BY <2>1, <3>1, <3>2 DEF From
    <2>5. ~ cut' => state[Arg] = "none" /\ Whole
      BY <1>1, <1>2, <1>4 DEF Inv, Core, Whole, Leaves
    <2>14. Shape /\ Members
      BY DEF Inv, Core
    <2>15. Members'
      <3>1. ASSUME NEW p \in Procs
            PROVE  Minds(new, p)
        <4>1. CASE p = Arg
          <5>1. ~ Behind(p)
            BY <4>1, <1>1, <1>4, <2>14, BehindIs
          <5>2. state'[p] = "called"
            BY <4>1, <2>1 DEF TypeOK
          <5> QED BY <5>1, <5>2, <4>1, <2>2 DEF Minds, Holds, Ending
        <4>2. CASE p # Arg
          <5>1. Alike(new, p)
            BY <4>2, <1>1, <1>2, <2>1, <2>2, <2>4 DEF Alike, Holds, TypeOK
          <5> QED BY <5>1, <1>1, <2>14, AlikeMinds
        <4> QED BY <4>1, <4>2
      <3> QED BY <3>1, <1>1, <2>12, <2>14, MembersStep
    <2>6. Shape'
      BY <1>1, <2>1, <2>2, InnerIs, ShapeStep DEF Inv, Core
    <2>7. ~ cut' => Threads'
      <3>1. ASSUME ~ cut', NEW p \in Procs
            PROVE  Settled(new, p) \/ Anew(new, p)
        BY <3>1, <1>2, <2>1, <2>2, <2>5 DEF Settled, Anew, Holds, TypeOK
      <3> QED BY <1>1, <2>12, <2>5, <2>14, <3>1, ThreadsStep DEF Whole
    <2>8. ~ cut' => Leaves'
      <3>1. ASSUME NEW p \in Procs
            PROVE  Stays(new, p) \/ Comes(new, p)
        BY <1>1, <1>4, <2>1, <2>2, <2>4 DEF Stays, Comes, TypeOK
      <3> QED BY <1>1, <2>12, <2>5, <2>14, <3>1, LeavesStep DEF Whole
    <2>9. Polls'
      <3>1. /\ owed' = owed /\ poll_requested' = poll_requested
            /\ owed \in SUBSET Listed /\ owed' \subseteq Listed'
            /\ \A p \in owed' : needspoll'[p] /\ state'[p] # "none"
        BY <1>2, <2>1, <2>4 DEF Inv, Core, Polls, polls, TypeOK
      <3>2. \A p \in Procs \cup {NULL} :
              owed' \subseteq Reach(next, From(process_list, p))
                => owed' \subseteq Reach(next', From(process_list', p))
        BY <2>4, <3>1
      <3> QED BY <1>1, <2>12, <2>2, <3>1, <3>2, PollsStep DEF Inv, Core
    <2>10. Dues'
      <3>1. /\ due' = due /\ due \in SUBSET Listed /\ due' \subseteq Listed'
            /\ \A p \in due' : state'[p] # "none"
        BY <1>2, <2>1, <2>4 DEF Inv, Core, Dues, TypeOK
      <3>2. \A p \in Procs \cup {NULL} :
              due' \subseteq Reach(next, From(process_list, p))
                => due' \subseteq Reach(next', From(process_list', p))
        BY <2>4, <3>1
      <3> QED BY <1>1, <2>12, <2>2, <3>1, <3>2, DuesStep DEF Inv, Core
    <2>11. Rests'
      BY <1>1, <1>2, RestsStep DEF Inv, Core
    <2>13. ~ cut' => Walks'
      <3>1. WalksOn(new)
        <4>1. /\ \A q \in Procs : \A i \in DOMAIN new : new[i] # <<"poll", q>>
              /\ \A q \in Procs :
                   todo[1] \notin {<<"clear", q>>, <<"unlink", q>>}
          BY <1>1, <2>2
        <4>2. /\ Listed \in SUBSET Procs /\ Closed(next, Listed)
              /\ process_list \in Listed \cup {NULL}
          BY <2>3, ReachIs DEF Listed
        <4>3. \A q \in Listed : next'[q] = next[q]
          BY <1>4, <2>1, <2>3, <4>2 DEF Links
        <4>4. \A q \in Listed : next'[q] \in Listed' \cup {NULL}
          BY <4>2, <4>3, <2>4 DEF Closed
        <4> QED BY <4>1, <4>4, <2>4 DEF WalksOn
      <3>2. Continues(new)
        BY <1>1, ContinuesIs
      <3> QED BY <1>1, <2>12, <2>5, <2>14, <3>1, <3>2, WalksStep DEF Whole
    <2> QED BY <2>4, <2>6, <2>7, <2>8, <2>9, <2>10, <2>11, <2>13, <2>15
           DEF Inv, Core, Whole
  <1> QED BY <1>3, <1>4

(* What exit_process does, after the process that ends is none any more. *)
Leaving(new, k) ==
  /\ Then(new) /\ Inner(new) /\ DOMAIN new = 1 .. k
  /\ \A i \in DOMAIN new : new[i] = <<"unlink", Arg>> <=> i = k
  /\ \A i \in DOMAIN new :
       \A p \in Procs : new[i] = <<"unlink", p>> => p = Arg
  /\ \A i \in DOMAIN new :
       /\ new[i][1] # "clear" /\ new[i][1] # "broadcast"
       /\ \A p : ~ Holds(new[i], p)
  /\ new[k] = <<"unlink", Arg>> /\ Len(new) = k
  /\ \A i \in DOMAIN new : \A p : new[i] # <<"poll", p>>

LEMMA LeavingIs ==
  ASSUME Exit, Arg \in Procs, Arg \in Listed
  PROVE  \E new, k : k \in {2, 3} /\ Leaving(new, k)
  <1> DEFINE x == <<"exited", Arg, NULL>>
             f == <<"farewell", Arg>>
             u == <<"unlink", Arg>>
  <1>1. /\ x \in Statement /\ f \in Statement /\ u \in Statement
        /\ x[1] \in Calling \ {"exit", "kill", "thread"} /\ f[1] \in Calling \ {"exit", "kill", "thread"}
        /\ u[1] \in Calling \ {"exit", "kill", "thread"}
    BY IsStatement, CallingIs
  <1>2. /\ x # u /\ f # u
        /\ \A p \in Procs : x # <<"unlink", p>> /\ f # <<"unlink", p>>
                            /\ (u = <<"unlink", p>> => p = Arg)
        /\ \A s \in {x, f, u} : s[1] # "clear" /\ s[1] # "broadcast"
                                /\ \A p : ~ Holds(s, p)
    BY DEF Holds
  <1>3. Then(<<x>> \o (IF At("kill") THEN <<f>> ELSE <<>>)
                  \o <<u>>)
    BY DEF Exit
  <1> HIDE DEF x, f, u
  <1>4. CASE At("kill")
    <2>1. Then(<<x, f, u>>)
      <3>1. <<x>> \o <<f>> = <<x, f>>
        BY <1>1, Join11
      <3>2. <<x, f>> \o <<u>> = <<x, f, u>>
        BY <1>1, Join21
      <3> QED BY <1>3, <1>4, <3>1, <3>2
    <2>2. /\ DOMAIN <<x, f, u>> = 1 .. 3 /\ <<x, f, u>>[1] = x
          /\ <<x, f, u>>[2] = f /\ <<x, f, u>>[3] = u
      OBVIOUS
    <2>3. Inner(<<x, f, u>>)
      BY <1>1, InnerTexts
    <2> DEFINE n == <<x, f, u>>
    <2>4. /\ DOMAIN n = 1 .. 3 /\ n[1] = x /\ n[2] = f /\ n[3] = u
          /\ Then(n) /\ Inner(n)
      BY <2>1, <2>2, <2>3
    <2> HIDE DEF n
    <2>5. /\ \A i \in DOMAIN n : n[i] = u <=> i = 3
          /\ \A i \in DOMAIN n : n[i] \in {x, f, u}
      BY <1>2, <2>4
    <2>6. /\ \A i \in DOMAIN n : n[i] = <<"unlink", Arg>> <=> n[i] = u
          /\ \A i \in DOMAIN n : \A p \in Procs :
               n[i] = <<"unlink", p>> => p = Arg
          /\ \A i \in DOMAIN n :
               /\ n[i][1] # "clear" /\ n[i][1] # "broadcast"
               /\ \A p : ~ Holds(n[i], p)
      BY <1>2, <2>5 DEF u
    <2>8. /\ n[3] = <<"unlink", Arg>> /\ Len(n) = 3
          /\ \A i \in DOMAIN n : \A p : n[i] # <<"poll", p>>
      <3>1. Len(n) = 3
        BY DEF n
      <3>2. \A s \in {x, f, u} : \A p : s # <<"poll", p>>
        BY DEF x, f, u
      <3> QED BY <2>4, <2>5, <3>1, <3>2 DEF u
    <2>7. Leaving(n, 3)
      BY <2>4, <2>5, <2>6, <2>8 DEF Leaving
    <2> QED BY <2>7
  <1>5. CASE ~ At("kill")
    <2>1. Then(<<x, u>>)
      <3>1. <<x>> \o <<>> = <<x>>
        BY <1>1, Texts, ConcatEmptySeq
      <3> QED BY <1>1, <1>3, <1>5, <3>1, Join11
    <2>2. /\ DOMAIN <<x, u>> = 1 .. 2 /\ <<x, u>>[1] = x
          /\ <<x, u>>[2] = u
      OBVIOUS
    <2>3. Inner(<<x, u>>)
      BY <1>1, InnerTexts
    <2> DEFINE n == <<x, u>>
    <2>4. /\ DOMAIN n = 1 .. 2 /\ n[1] = x /\ n[2] = u
          /\ Then(n) /\ Inner(n)
      BY <2>1, <2>2, <2>3
    <2> HIDE DEF n
    <2>5. /\ \A i \in DOMAIN n : n[i] = u <=> i = 2
          /\ \A i \in DOMAIN n : n[i] \in {x, f, u}
      BY <1>2, <2>4
    <2>6. /\ \A i \in DOMAIN n : n[i] = <<"unlink", Arg>> <=> n[i] = u
          /\ \A i \in DOMAIN n : \A p \in Procs :
               n[i] = <<"unlink", p>> => p = Arg
          /\ \A i \in DOMAIN n :
               /\ n[i][1] # "clear" /\ n[i][1] # "broadcast"
               /\ \A p : ~ Holds(n[i], p)
      BY <1>2, <2>5 DEF u
    <2>8. /\ n[2] = <<"unlink", Arg>> /\ Len(n) = 2
          /\ \A i \in DOMAIN n : \A p : n[i] # <<"poll", p>>
      <3>1. Len(n) = 2
        BY DEF n
      <3>2. \A s \in {x, f, u} : \A p : s # <<"poll", p>>
        BY DEF x, f, u
      <3> QED BY <2>4, <2>5, <3>1, <3>2 DEF u
    <2>7. Leaving(n, 2)
      BY <2>4, <2>5, <2>6, <2>8 DEF Leaving
    <2> QED BY <2>7
  <1> QED BY <1>4, <1>5

(* exit_process, its beginning: who ends is neither polled nor due any      *)
(* more.                                                                    *)
LEMMA ExitStep ==
  ASSUME TypeOK, Inv, Exit
  PROVE  Inv'
  <1> DEFINE op == todo[1][1]
  <1>1. /\ todo # <<>> /\ todo[1] \in Ending(Arg) /\ Arg \in Procs
        /\ 1 \in DOMAIN todo /\ op \in {"exit", "kill"}
    <2>1. CASE At("exit")
      BY <2>1, TopIs DEF Inv, Core, Ones, Ending
    <2>2. CASE At("kill")
      BY <2>2, TopIs DEF Inv, Core, Ones, Ending
    <2> QED BY <2>1, <2>2 DEF Exit
  <1>2. state[Arg] # "none" /\ (~ cut => Arg \in Listed)
    BY <1>1 DEF Inv, Core, Members, Whole, Leaves
  <1>17. Shape /\ Members
    BY DEF Inv, Core
  <1>18. /\ UNCHANGED <<queue, lists, needspoll, poll_requested, receiver,
                        asleep, cut>>
         /\ Listed' = Listed /\ Linear(next, process_list)'
         /\ process_list' = process_list /\ next' = next
    BY DEF Exit, lists, Listed, Inv, Core
  <1>19. \A p \in Procs : p # Arg => ~ Holds(todo[1], p)
    BY <1>1 DEF Holds, Ending
  <1>20. /\ \A p : todo[1] # <<"clear", p>> /\ todo[1] # <<"unlink", p>>
                   /\ todo[1] # <<"give", p>>
         /\ todo[1][1] # "poll"
    BY <1>1 DEF Ending
  <1>21. Rests'
    BY <1>1, <1>18, RestsStep DEF Inv, Core
  <1>22. CASE Arg \notin Listed
    <2>1. Then(<<>>) /\ UNCHANGED <<state, owed, due>>
      BY <1>22 DEF Exit
    <2>2. /\ DOMAIN <<>> = {} /\ Inner(<<>>) /\ <<>> \in Seq(Statement)
      BY InnerTexts DEF Inner
    <2>3. cut'
      BY <1>2, <1>18, <1>22
    <2>4. ASSUME NEW p \in Procs
          PROVE  Minds(<<>>, p)
      <3>1. CASE p = Arg
        <4>1. ~ Behind(p)
          BY <3>1, <1>1, <1>17, <1>22, BehindIs
        <4> QED BY <4>1, <3>1, <1>18, <1>22, <2>2 DEF Minds
      <3>2. CASE p # Arg
        <4>1. Alike(<<>>, p)
          BY <3>2, <1>18, <1>19, <1>20, <2>1, <2>2 DEF Alike
        <4> QED BY <4>1, <1>1, <1>17, AlikeMinds
      <3> QED BY <3>1, <3>2
    <2>5. Members'
      BY <2>1, <2>2, <2>4, <1>1, <1>17, MembersStep
    <2>6. Shape'
      BY <1>1, <2>1, <2>2, InnerIs, ShapeStep DEF Inv, Core
    <2>7. Polls'
      <3>1. /\ \A p \in owed' : needspoll'[p] /\ state'[p] # "none"
            /\ owed' \subseteq Listed' /\ owed' \subseteq owed
            /\ poll_requested' = poll_requested
        BY <1>18, <2>1 DEF Inv, Core, Polls
      <3> QED BY <1>1, <1>18, <1>20, <2>1, <2>2, <3>1, PollsStep DEF Inv, Core
    <2>8. Dues'
      <3>1. /\ \A p \in due' : state'[p] # "none"
            /\ due' \subseteq Listed' /\ due' \subseteq due
        BY <1>18, <2>1 DEF Inv, Core, Dues
      <3> QED BY <1>1, <1>18, <1>20, <2>1, <2>2, <3>1, DuesStep DEF Inv, Core
    <2> QED BY <1>18, <1>21, <2>3, <2>5, <2>6, <2>7, <2>8 DEF Inv, Core
  <1>23. CASE Arg \in Listed
    <2>3. PICK new, k : k \in {2, 3} /\ Leaving(new, k)
      BY <1>1, <1>23, LeavingIs
    <2>4. Then(new) /\ Inner(new) /\ new \in Seq(Statement)
      BY <2>3 DEF Leaving, Inner
    <2>5. \A i \in DOMAIN new :
            /\ new[i][1] # "clear" /\ new[i][1] # "broadcast"
            /\ \A p : ~ Holds(new[i], p)
      BY <2>3 DEF Leaving
    <2>6. /\ \A i \in DOMAIN new : new[i] = <<"unlink", Arg>> <=> i = k
          /\ k \in DOMAIN new
      BY <2>3 DEF Leaving
    <2>7. \A i \in DOMAIN new :
            \A p \in Procs : new[i] = <<"unlink", p>> => p = Arg
      BY <2>3 DEF Leaving
    <2>8. /\ state' = [state EXCEPT ![Arg] = "none"]
          /\ owed' = owed \ {Arg} /\ due' = due \ {Arg}
      BY <1>23 DEF Exit
    <2>17. \A p : \A i \in DOMAIN new : new[i] # <<"clear", p>>
      BY <2>5
    <2>10. Shape'
      BY <1>1, <2>4, InnerIs, ShapeStep DEF Inv, Core
    <2>18. Members'
      <3>1. ASSUME NEW p \in Procs
            PROVE  Minds(new, p)
        <4>1. CASE p = Arg
          <5>1. ~ Behind(p)
            BY <4>1, <1>1, <1>2, <1>17, BehindIs
          <5>2. /\ state'[p] = "none" /\ p \in Listed'
                /\ \A i \in DOMAIN new :
                     new[i] \notin {<<"thread", p>>} \cup Ending(p)
            BY <4>1, <1>1, <1>18, <1>23, <2>5, <2>8
               DEF TypeOK, Holds, Ending
          <5> QED BY <5>1, <5>2, <4>1, <2>5, <2>6, <2>17 DEF Minds
        <4>2. CASE p # Arg
          <5>1. Alike(new, p)
            BY <4>2, <1>1, <1>18, <1>19, <1>20, <2>5, <2>7, <2>8, <2>17
               DEF Alike, TypeOK
          <5> QED BY <5>1, <1>1, <1>17, AlikeMinds
        <4> QED BY <4>1, <4>2
      <3> QED BY <3>1, <1>1, <1>17, <2>4, MembersStep
    <2>11. ~ cut' => Threads'
      <3>1. ASSUME NEW p \in Procs
            PROVE  Settled(new, p) \/ Anew(new, p)
        BY <1>1, <2>8, <2>5 DEF Settled, Anew, Holds, Ending, TypeOK
      <3> QED BY <1>1, <1>18, <2>4, <3>1, ThreadsStep DEF Inv, Core, Whole
    <2>12. ~ cut' => Leaves'
      <3>1. ASSUME NEW p \in Procs
            PROVE  Stays(new, p) \/ Quits(new, p)
        <4>1. CASE p = Arg
          <5>1. /\ state[p] # "none" /\ state'[p] = "none"
                /\ p \in Listed /\ p \in Listed'
            BY <4>1, <1>2, <1>18, <1>23, <2>8 DEF TypeOK
          <5>2. \A i \in DOMAIN new : new[i] # <<"clear", p>>
            BY <2>17
          <5>3. \A i \in DOMAIN new : new[i] = <<"unlink", p>> <=> i = k
            BY <4>1, <2>6
          <5> QED BY <2>6, <5>1, <5>2, <5>3 DEF Quits
        <4>2. CASE p # Arg
          BY <4>2, <1>20, <2>8, <1>18, <2>17, <2>7 DEF Stays, TypeOK
        <4> QED BY <4>1, <4>2
      <3> QED BY <1>1, <1>18, <2>4, <3>1, LeavesStep DEF Inv, Core, Whole
    <2>13. Polls'
      <3>1. /\ \A p \in owed' : needspoll'[p] /\ state'[p] # "none"
            /\ owed' \subseteq Listed' /\ owed' \subseteq owed
            /\ poll_requested' = poll_requested
        BY <2>8, <1>18 DEF Inv, Core, Polls, TypeOK
      <3> QED BY <1>1, <1>18, <1>20, <2>4, <3>1, PollsStep DEF Inv, Core
    <2>14. Dues'
      <3>1. /\ \A p \in due' : state'[p] # "none"
            /\ due' \subseteq Listed' /\ due' \subseteq due
        BY <2>8, <1>18 DEF Inv, Core, Dues, TypeOK
      <3> QED BY <1>1, <1>18, <1>20, <2>4, <2>5, <3>1, DuesStep DEF Inv, Core
    <2>16. ~ cut' => Walks'
      <3>1. /\ new[Len(new)] = <<"unlink", Arg>>
            /\ \A i \in DOMAIN new : \A p : new[i] # <<"poll", p>>
        BY <2>3 DEF Leaving
      <3>2. Continues(new)
        <4>1. \A q \in Procs : todo[1] \in Turn(q) => q = Arg
          BY <1>1 DEF Turn, Ending
        <4> QED BY <1>1, <3>1, <4>1 DEF Continues, Turn
      <3>3. WalksOn(new)
        <4>1. next \in Links /\ process_list \in Procs \cup {NULL}
          BY DEF TypeOK, Links
        <4>2. /\ Listed \in SUBSET Procs /\ Closed(next, Listed)
          BY <4>1, ReachIs DEF Listed
        <4> QED BY <1>1, <1>18, <1>20, <3>1, <4>2 DEF WalksOn, Closed
      <3> QED BY <1>1, <1>18, <2>4, <3>2, <3>3, WalksStep DEF Inv, Core, Whole
    <2> QED BY <1>18, <1>21, <2>10, <2>11, <2>12, <2>13, <2>14, <2>16, <2>18
           DEF Inv, Core, Whole
  <1> QED BY <1>22, <1>23

(* exit_process, its end. *)
LEMMA UnlinkStep ==
  ASSUME TypeOK, Inv, Unlink
  PROVE  Inv'
  <1>1. /\ todo # <<>> /\ todo[1] = <<"unlink", Arg>> /\ Arg \in Procs
        /\ 1 \in DOMAIN todo /\ todo[1][1] = "unlink"
    BY TopIs DEF Unlink, Inv, Core, Ones
  <1>2. /\ Then(<<>>) /\ UNCHANGED <<queue, state, polls, asleep, due, cut>>
    BY DEF Unlink
  <1>3. /\ next \in Links /\ process_list \in Procs \cup {NULL}
        /\ Linear(next, process_list) /\ Arg \in Listed
        /\ state[Arg] = "none"
    BY <1>1 DEF TypeOK, Links, Inv, Core, Members
  <1>4. /\ Listed \in SUBSET Procs /\ Closed(next, Listed)
    BY <1>3, ReachIs DEF Listed
  <1>5. /\ next' \in Links
        /\ \A q \in Procs :
             next'[q] = IF process_list # Arg /\ q \in Listed /\ next[q] = Arg
                        THEN next[Arg] ELSE next[q]
        /\ process_list' = IF process_list = Arg THEN next[Arg]
                           ELSE process_list
    <2>1. CASE process_list = Arg
      BY <2>1, <1>3 DEF Unlink, Links
    <2>2. CASE process_list # Arg
      <3>1. next' = [q \in Procs |-> IF q \in Listed /\ next[q] = Arg
                                     THEN next[Arg] ELSE next[q]]
        BY <2>2 DEF Unlink, Unlinked
      <3> QED BY <3>1, <2>2, <1>1, <1>3 DEF Unlink, Links
    <2> QED BY <2>1, <2>2
  <1>6. /\ process_list' \in Procs \cup {NULL} /\ next[Arg] # Arg
        /\ Listed' = Listed \ {Arg} /\ Linear(next', process_list')
        /\ \A D \in SUBSET (Listed \ {Arg}) : \A p \in Procs \cup {NULL} :
             D \subseteq Reach(next, From(process_list, p))
               => D \subseteq Reach(next', From(process_list', p))
    <2>1. PICK f, x, g : f = process_list /\ x = Arg /\ g = process_list'
      OBVIOUS
    <2>2. /\ f \in Procs \cup {NULL} /\ Linear(next, f)
          /\ x \in Reach(next, f) /\ g = IF f = x THEN next[x] ELSE f
          /\ \A q \in Procs :
               next'[q] = IF f # x /\ q \in Reach(next, f) /\ next[q] = x
                          THEN next[x] ELSE next[q]
      BY <2>1, <1>3, <1>5 DEF Listed
    <2>3. /\ g \in Procs \cup {NULL}
          /\ Reach(next', g) = Reach(next, f) \ {x} /\ Linear(next', g)
          /\ next[x] # x
          /\ \A D \in SUBSET (Reach(next, f) \ {x}) :
               \A h \in Procs \cup {NULL} :
                 D \subseteq Reach(next, h) => D \subseteq Reach(next', h)
          /\ \A D \in SUBSET (Reach(next, f) \ {x}) :
               D \subseteq Reach(next', g)
      BY <2>2, <1>3, <1>5, Unlinks
    <2>4. Listed' = Listed \ {Arg}
      BY <2>1, <2>3 DEF Listed
    <2>5. ASSUME NEW D \in SUBSET (Listed \ {Arg}),
                 NEW p \in Procs \cup {NULL},
                 D \subseteq Reach(next, From(process_list, p))
          PROVE  D \subseteq Reach(next', From(process_list', p))
      <3>1. D \in SUBSET (Reach(next, f) \ {x})
        BY <2>1, <2>5 DEF Listed
      <3>2. CASE p = NULL
        BY <3>1, <3>2, <2>1, <2>3 DEF From
      <3>3. CASE p # NULL
        BY <3>1, <3>3, <2>3, <2>5 DEF From
      <3> QED BY <3>2, <3>3
    <2> QED BY <2>1, <2>3, <2>4, <2>5
  <1>7. /\ <<>> \in Seq(Statement) /\ DOMAIN <<>> = {} /\ Continues(<<>>)
        /\ Ordered(<<>>) /\ AtOnce(<<>>)
    BY Texts, ContinuesIs DEF Ordered, AtOnce
  <1>8. Shape'
    BY <1>1, <1>2, <1>7, ShapeStep DEF Inv, Core
  <1>15. Members'
    <2>1. Shape /\ Members
      BY DEF Inv, Core
    <2>2. ASSUME NEW p \in Procs
          PROVE  Minds(<<>>, p)
      <3>1. CASE p = Arg
        <4>1. ~ Behind(p) /\ p \notin Listed'
          BY <3>1, <1>1, <1>6, <2>1, BehindIs
        <4> QED BY <4>1, <1>7 DEF Minds
      <3>2. CASE p # Arg
        <4>1. Alike(<<>>, p)
          BY <3>2, <1>1, <1>2, <1>6, <1>7 DEF Alike, Holds
        <4> QED BY <4>1, <1>1, <2>1, AlikeMinds
      <3> QED BY <3>1, <3>2
    <2> QED BY <2>1, <2>2, <1>1, <1>2, <1>7, MembersStep
  <1>9. ~ cut' => Threads'
    <2>1. \A p \in Procs : Settled(<<>>, p)
      BY <1>1, <1>2, <1>7 DEF Settled, Holds
    <2> QED BY <2>1, <1>1, <1>2, <1>7, ThreadsStep DEF Inv, Core, Whole
  <1>10. ~ cut' => Leaves'
    <2>1. \A p \in Procs : Stays(<<>>, p) \/ Goes(<<>>, p)
      BY <1>1, <1>2, <1>3, <1>6, <1>7 DEF Stays, Goes
    <2> QED BY <2>1, <1>1, <1>2, <1>7, LeavesStep DEF Inv, Core, Whole
  <1>11. ~ cut' => Walks'
    <2>2. WalksOn(<<>>)
      <3>1. \A q \in Listed : todo[1] # <<"unlink", q>> => q \in Listed'
        BY <1>1, <1>6
      <3>2. ASSUME NEW q \in Listed
            PROVE  next'[q] \in Listed' \cup {NULL}
        <4>1. next[q] \in Listed \cup {NULL} /\ next[q] # process_list
          BY <1>3, <1>4 DEF Linear, Closed, Listed
        <4>2. next[Arg] \in (Listed \ {Arg}) \cup {NULL}
          BY <1>3, <1>4, <1>6 DEF Closed
        <4>3. next'[q] = IF process_list # Arg /\ next[q] = Arg
                         THEN next[Arg] ELSE next[q]
          BY <1>4, <1>5
        <4> QED BY <1>6, <4>1, <4>2, <4>3
      <3> QED BY <3>1, <3>2, <1>7 DEF WalksOn
    <2> QED BY <2>2, <1>1, <1>2, <1>7, WalksStep DEF Inv, Core, Whole
  <1>12. Polls'
    <2>1. owed \in SUBSET (Listed \ {Arg})
      BY <1>3 DEF Inv, Core, Polls, TypeOK
    <2>2. /\ owed' = owed /\ poll_requested' = poll_requested
          /\ \A p \in owed' : needspoll'[p] /\ state'[p] # "none"
      BY <1>2 DEF polls, Inv, Core, Polls
    <2>3. \A p \in Procs \cup {NULL} :
            owed' \subseteq Reach(next, From(process_list, p))
              => owed' \subseteq Reach(next', From(process_list', p))
      BY <2>1, <2>2, <1>6
    <2>4. /\ todo[1][1] # "poll" /\ owed' \subseteq owed /\ owed' \subseteq Listed'
          /\ \A p \in owed' : todo[1] # <<"clear", p>>
      BY <2>1, <2>2, <1>1, <1>6
    <2>5. /\ <<>> \in Seq(Statement) /\ \A i \in DOMAIN <<>> : FALSE
      BY <1>7
    <2> QED BY <2>2, <2>3, <2>4, <2>5, <1>1, <1>2, PollsStep DEF Inv, Core
  <1>13. Dues'
    <2>1. due \in SUBSET (Listed \ {Arg})
      BY <1>3 DEF Inv, Core, Dues, TypeOK
    <2>2. due' = due /\ \A p \in due' : state'[p] # "none"
      BY <1>2 DEF Inv, Core, Dues
    <2>3. \A p \in Procs \cup {NULL} :
            due' \subseteq Reach(next, From(process_list, p))
              => due' \subseteq Reach(next', From(process_list', p))
      BY <2>1, <2>2, <1>6
    <2>4. /\ todo[1][1] # "poll" /\ due' \subseteq due /\ due' \subseteq Listed'
          /\ \A p \in due' : todo[1] # <<"give", p>>
      BY <2>1, <2>2, <1>1, <1>6
    <2>5. /\ <<>> \in Seq(Statement) /\ \A i \in DOMAIN <<>> : FALSE
      BY <1>7
    <2> QED BY <2>2, <2>3, <2>4, <2>5, <1>1, <1>2, DuesStep DEF Inv, Core
  <1>14. Rests'
    BY <1>1, <1>2, RestsStep DEF Inv, Core
  <1> QED BY <1>6, <1>8, <1>9, <1>10, <1>11, <1>12, <1>13, <1>14,
     <1>15 DEF Inv, Core, Whole

(* The main loop looks whether to go on. *)
LEMMA IdleStep ==
  ASSUME TypeOK, Inv, Idle
  PROVE  Inv'
  <1>1. /\ todo # <<>> /\ todo[1] \in Statement /\ todo[1][1] = "idle"
    BY TopIs DEF Idle, Inv, Core
  <1>2. /\ Rank(todo[1]) = 6 /\ \A p \in Procs : ~ Holds(todo[1], p)
    BY <1>1, RankIs DEF Holds
  <1>3. UNCHANGED <<queue, lists, state, polls, receiver, asleep, due, cut>>
    BY DEF Idle
  <1>4. CASE nevents > 0 \/ poll_requested
    <2>1. Then(<<>>)
      BY <1>4 DEF Idle
    <2> QED BY <2>1, <1>1, <1>2, <1>3, NoneStep
  <1>5. CASE ~ (nevents > 0 \/ poll_requested)
    <2> DEFINE new == << <<"sleep">> >>
    <2>1. /\ Then(new) /\ DOMAIN new = {1} /\ new[1] = <<"sleep">>
          /\ new \in Seq(Statement) /\ <<"sleep">> \in Statement
      BY <1>5, IsStatement, Texts DEF Idle
    <2> HIDE DEF new
    <2>2. Ordered(new) /\ AtOnce(new)
      BY <2>1 DEF Ordered, AtOnce
    <2>3. Rank(new[1]) = 6
      BY <2>1, RankIs
    <2>4. \A p \in Procs : Settled(new, p)
      BY <1>2, <1>3, <2>1 DEF Settled, Holds
    <2>8. \A p \in Procs : Minds(new, p)
      <3>1. Listed' = Listed
        BY <1>3 DEF lists, Listed
      <3>2. \A p \in Procs : Alike(new, p)
        BY <1>1, <1>2, <1>3, <2>1, <3>1 DEF Alike, Holds
      <3> QED BY <3>2, <1>1, AlikeMinds DEF Inv, Core
    <2>5. Continues(new)
      BY <1>1, ContinuesIs
    <2>6. Core'
      BY <1>1, <1>2, <1>3, <2>1, <2>2, <2>3, <2>4, <2>5, <2>8,
         SameStep DEF Inv
    <2>7. Rests'
      BY <1>1, <1>3, RestsStep DEF Inv
    <2> QED BY <2>6, <2>7 DEF Inv
  <1> QED BY <1>4, <1>5

(* At its end the list has nothing but one statement. *)
LEMMA LastIs ==
  ASSUME Shape, At("sleep"), Then(<<>>)
  PROVE  todo' = <<>> /\ \A p : \A i \in DOMAIN todo : todo[i] # <<"poll", p>>
  <1>1. /\ todo # <<>> /\ todo \in Seq(Statement) /\ Rank(todo[1]) = 6
        /\ 1 \in DOMAIN todo /\ todo[1][1] = "sleep"
    BY TopIs, RankIs DEF Shape
  <1>2. DOMAIN todo = 1 .. Len(todo) /\ Len(todo) \in Nat
    BY <1>1, LenProperties
  <1>3. ASSUME NEW i \in DOMAIN todo PROVE i = 1
    <2>1. Rank(todo[i]) \in 0 .. 6
      BY <1>1, <1>2, ElementOfSeq, RankIs
    <2>2. ~ (1 < i)
      BY <2>1, <1>1 DEF Shape, Ordered
    <2> QED BY <2>2, <1>2
  <1>4. Len(todo) = 1
    <2>1. Len(todo) \in DOMAIN todo
      BY <1>1, <1>2
    <2> QED BY <2>1, <1>3
  <1>5. todo' = <<>>
    <2>1. /\ <<>> \in Seq(Statement) /\ Len(<<>>) = 0
      BY Texts
    <2>2. /\ todo' \in Seq(Statement) /\ Len(todo') = 0 + 1 - 1
      BY <1>1, <1>4, <2>1, ThenIs
    <2> QED BY <2>2, EmptySeq
  <1> QED BY <1>1, <1>3, <1>5

(* The main loop goes to sleep, if nothing has come meanwhile. *)
LEMMA SleepStep ==
  ASSUME TypeOK, Inv, Sleep
  PROVE  Inv'
  <1>1. /\ todo # <<>> /\ todo[1] \in Statement /\ todo[1][1] = "sleep"
    BY TopIs DEF Sleep, Inv, Core
  <1>2. /\ Then(<<>>) /\ UNCHANGED <<queue, lists, state, polls, due, cut>>
        /\ \A p \in Procs : ~ Holds(todo[1], p)
    BY <1>1 DEF Sleep, Holds
  <1>3. CASE asleep' = asleep
    BY <1>1, <1>2, <1>3, NoneStep
  <1>4. CASE asleep' # asleep
    <2>1. ~ Awake
      BY <1>4 DEF Sleep
    <2>2. todo' = <<>> /\ \A p : \A i \in DOMAIN todo : todo[i] # <<"poll", p>>
      BY <1>2, LastIs DEF Sleep, Inv, Core
    <2>3. nevents = 0 /\ ~ poll_requested
      BY <2>1 DEF Awake, TypeOK
    <2>4. owed = {}
      BY <2>2, <2>3 DEF Inv, Core, Polls
    <2>5. Rests'
      BY <1>2, <2>2, <2>3, <2>4 DEF Rests, queue, polls
    <2>6. Core'
      BY <1>1, <1>2, NoneStep
    <2> QED BY <2>5, <2>6 DEF Inv
  <1> QED BY <1>3, <1>4

(* The requests of the interrupts are seen by the walk that begins now.    *)
LEMMA OwedListed ==
  ASSUME TypeOK, Inv
  PROVE  owed \subseteq Reach(next, From(process_list, NULL))
  BY DEF Inv, Core, Polls, Listed, From, TypeOK

(* do_poll, its beginning: all requests up to here are met by the walk that *)
(* begins.                                                                  *)
LEMMA ResetStep ==
  ASSUME TypeOK, Inv, Reset
  PROVE  Inv'
  <1>1. /\ todo # <<>> /\ todo[1] = <<"reset">> /\ todo[1] \in Statement
        /\ todo[1][1] = "reset" /\ 1 \in DOMAIN todo
    BY TopIs, StatementIs DEF Reset, Inv, Core
  <1>2. /\ Then(<<>>) /\ asleep' = asleep
        /\ UNCHANGED <<lists, state, needspoll, owed, due, cut>>
        /\ \A p \in Procs : ~ Holds(todo[1], p)
    BY <1>1 DEF Reset, Holds
  <1>3. /\ <<>> \in Seq(Statement) /\ DOMAIN <<>> = {} /\ Continues(<<>>)
        /\ Ordered(<<>>) /\ AtOnce(<<>>) /\ Len(<<>>) = 0
    BY Texts, ContinuesIs DEF Ordered, AtOnce
  <1>4. Shape'
    BY <1>1, <1>2, <1>3, ShapeStep DEF Inv, Core
  <1>5. ~ cut' => Threads'
    <2>1. \A p \in Procs : Settled(<<>>, p)
      BY <1>2, <1>3 DEF Settled
    <2> QED BY <2>1, <1>1, <1>2, <1>3, ThreadsStep DEF Inv, Core, Whole
  <1>6. Listed' = Listed /\ Linear(next, process_list)'
    BY <1>2 DEF lists, Listed, Inv, Core
  <1>13. Members'
    <2>1. \A p \in Procs : Alike(<<>>, p)
      BY <1>1, <1>2, <1>3, <1>6 DEF Alike
    <2> QED BY <2>1, <1>1, <1>2, <1>3, AlikeStep DEF Inv, Core
  <1>7. ~ cut' => Leaves'
    <2>1. \A p \in Procs : Stays(<<>>, p)
      BY <1>1, <1>2, <1>3, <1>6 DEF Stays
    <2> QED BY <2>1, <1>1, <1>2, <1>3, LeavesStep DEF Inv, Core, Whole
  <1>8. ~ cut' => Walks'
    <2>1. WalksOn(<<>>)
      <3>1. Closed(next, Listed) /\ Listed \in SUBSET Procs
        BY ReachIs DEF Listed, TypeOK, Links
      <3> QED BY <3>1, <1>1, <1>2, <1>3, <1>6 DEF WalksOn, Closed, lists
    <2> QED BY <2>1, <1>1, <1>2, <1>3, WalksStep DEF Inv, Core, Whole
  <1>9. Polls'
    <2>1. todo[2] = <<"poll", NULL>> /\ 2 \in DOMAIN todo
      BY <1>1 DEF Inv, Core, Shape, AtOnce
    <2>2. todo'[1] = <<"poll", NULL>> /\ 1 \in DOMAIN todo'
      <3>1. /\ todo' \in Seq(Statement) /\ Len(todo) \in Nat
            /\ Len(todo') = 0 + Len(todo) - 1
            /\ \A i \in 2 .. Len(todo) : todo'[0 + i - 1] = todo[i]
        BY <1>1, <1>2, <1>3, ThenIs DEF Inv, Core, Shape
      <3>2. DOMAIN todo = 1 .. Len(todo) /\ DOMAIN todo' = 1 .. Len(todo')
        BY <3>1, LenProperties DEF Inv, Core, Shape
      <3>3. 2 \in 2 .. Len(todo) /\ 0 + 2 - 1 = 1
        BY <2>1, <3>1, <3>2
      <3>4. todo'[0 + 2 - 1] = todo[2]
        BY <3>1, <3>3
      <3> QED BY <2>1, <3>1, <3>2, <3>3, <3>4
    <2>3. owed' \subseteq Reach(next', From(process_list', NULL))
      BY <1>2, OwedListed DEF lists
    <2>4. /\ \A p \in owed' : needspoll'[p] /\ state'[p] # "none"
          /\ owed' \subseteq Listed'
      BY <1>2, <1>6 DEF Inv, Core, Polls
    <2>5. NULL \notin owed'
      BY <1>2 DEF TypeOK
    <2> QED BY <2>2, <2>3, <2>4, <2>5 DEF Polls, From
  <1>10. Dues'
    <2>1. /\ \A p \in due' : state'[p] # "none"
          /\ due' \subseteq Listed'
      BY <1>2, <1>6 DEF Inv, Core, Dues
    <2>2. /\ \A p \in due' : todo[1] # <<"give", p>>
          /\ process_list' = process_list /\ next' = next /\ due' = due
      BY <1>1, <1>2 DEF lists
    <2> QED BY <2>1, <2>2, <1>1, <1>2, <1>3, DuesStep DEF Inv, Core
  <1>11. Rests'
    BY <1>1, <1>2, RestsStep DEF Inv, Core
  <1> QED BY <1>4, <1>5, <1>6, <1>7, <1>8, <1>9, <1>10, <1>11,
     <1>13 DEF Inv, Core, Whole

(* do_event: nobody is in a call, so everybody on the list runs. *)
LEMMA TakeEventStep ==
  ASSUME TypeOK, Inv, TakeEvent
  PROVE  Inv'
  <1>1. /\ todo # <<>> /\ todo[1] \in Statement /\ todo[1][1] = "event"
    BY TopIs DEF TakeEvent, Inv, Core
  <1>2. /\ UNCHANGED <<lists, state, polls, asleep, cut>>
        /\ Rank(todo[1]) = 5 /\ \A p \in Procs : ~ Holds(todo[1], p)
    BY <1>1, RankIs DEF TakeEvent, Holds
  <1>3. CASE nevents = 0
    <2>1. Then(<<>>) /\ due' = due
      BY <1>3 DEF TakeEvent
    <2> QED BY <2>1, <1>1, <1>2, NoneStep
  <1>4. CASE nevents # 0 /\ events[fevent] # BROADCAST
    <2>1. PICK e : e = events[fevent]
      OBVIOUS
    <2>2. e \in Procs /\ Then(<< <<"call", e>> >>) /\ due' = due
      BY <2>1, <1>4 DEF TakeEvent, TypeOK, Event
    <2> DEFINE new == << <<"call", e>> >>
    <2>3. /\ DOMAIN new = {1} /\ new[1] = <<"call", e>> /\ Then(new)
          /\ Inner(new)
      <3>1. <<"call", e>> \in Statement /\ <<"call", e>>[1] \in Calling
        BY <2>2, IsStatement, CallingIs
      <3> QED BY <2>2, <3>1, InnerTexts
    <2> HIDE DEF new
    <2>4. /\ \A p \in Procs : Settled(new, p)
          /\ \A i \in DOMAIN new : new[i][1] # "unlink"
      BY <1>2, <2>3 DEF Settled, Holds
    <2>5. Continues(new)
      BY <1>1, ContinuesIs
    <2>6. \A p \in Procs : Minds(new, p)
      <3>1. Listed' = Listed
        BY <1>2 DEF lists, Listed
      <3>2. \A p \in Procs : Alike(new, p)
        BY <1>1, <1>2, <2>3, <3>1 DEF Alike, Holds
      <3> QED BY <3>2, <1>1, AlikeMinds DEF Inv, Core
    <2> QED BY <1>1, <1>2, <2>2, <2>3, <2>4, <2>5, <2>6, InnerStep
  <1>5. CASE nevents # 0 /\ events[fevent] = BROADCAST
    <2> DEFINE new == << <<"broadcast", NULL>> >>
    <2>1. due' = Listed /\ Then(new)
      BY <1>5 DEF TakeEvent
    <2>2. /\ DOMAIN new = {1} /\ new[1] = <<"broadcast", NULL>>
          /\ new[1] \in Statement /\ new \in Seq(Statement) /\ Len(new) = 1
      <3>1. <<"broadcast", NULL>> \in Statement
        BY IsStatement
      <3>2. new \in Seq(Statement) /\ Len(new) = 1
        BY <3>1, Texts
      <3> QED BY <3>1, <3>2
    <2> HIDE DEF new
    <2>3. /\ Ordered(new) /\ AtOnce(new)
          /\ \A i \in DOMAIN new : Rank(new[i]) <= Rank(todo[1])
      <3>1. Rank(new[1]) = 4
        BY <2>2, RankIs
      <3> QED BY <2>2, <3>1, <1>2 DEF Ordered, AtOnce
    <2>4. Shape'
      BY <1>1, <2>1, <2>2, <2>3, ShapeStep DEF Inv, Core
    <2>5. ~ cut' => Threads'
      <3>1. \A p \in Procs : Settled(new, p)
        BY <1>2, <2>2 DEF Settled, Holds
      <3> QED BY <3>1, <1>1, <1>2, <2>1, <2>2, ThreadsStep
          DEF Inv, Core, Whole
    <2>6. /\ Listed' = Listed /\ Linear(next, process_list)'
          /\ process_list' = process_list /\ next' = next
      BY <1>2 DEF lists, Listed, Inv, Core
    <2>12. Members'
      <3>1. \A p \in Procs : Alike(new, p)
        BY <1>1, <1>2, <2>2, <2>6 DEF Alike, Holds
      <3> QED BY <3>1, <1>1, <2>1, <2>2, AlikeStep DEF Inv, Core
    <2>7. ~ cut' => Leaves'
      <3>1. \A p \in Procs : Stays(new, p)
        BY <1>1, <1>2, <2>2, <2>6 DEF Stays
      <3> QED BY <3>1, <1>1, <1>2, <2>1, <2>2, LeavesStep
          DEF Inv, Core, Whole
    <2>8. ~ cut' => Walks'
      <3>1. WalksOn(new)
        <4>1. Closed(next, Listed) /\ Listed \in SUBSET Procs
          BY ReachIs DEF Listed, TypeOK, Links
        <4> QED BY <4>1, <1>1, <2>2, <2>6 DEF WalksOn, Closed
      <3>2. Continues(new)
        BY <1>1, ContinuesIs
      <3> QED BY <3>1, <3>2, <1>1, <1>2, <2>1, <2>2, WalksStep
          DEF Inv, Core, Whole
    <2>9. Polls'
      <3>1. /\ owed' = owed /\ poll_requested' = poll_requested
            /\ \A p \in owed' : needspoll'[p] /\ state'[p] # "none"
            /\ owed' \subseteq Listed'
        BY <1>2, <2>6 DEF Inv, Core, Polls, polls
      <3> QED BY <3>1, <1>1, <2>1, <2>2, <2>6, PollsStep DEF Inv, Core
    <2>10. Dues'
      <3>1. \A p \in due' : state'[p] # "none"
        <4>1. ASSUME NEW p \in Listed PROVE state[p] = "running"
          BY <1>2, <4>1, Calm DEF Listed, Reach
        <4> QED BY <4>1, <2>1, <1>2
      <3>2. ASSUME NEW i \in DOMAIN todo', NEW p \in Procs \cup {NULL},
                   todo'[i] = <<"broadcast", p>>
            PROVE  p = NULL
        <4>1. /\ todo' \in Seq(Statement) /\ todo'[1] = new[1]
              /\ 1 \in DOMAIN todo'
              /\ DOMAIN todo' = 1 .. Len(todo') /\ Len(todo') \in Nat
          <5>1. /\ todo' \in Seq(Statement) /\ Len(todo) \in Nat \ {0}
                /\ Len(todo') = 1 + Len(todo) - 1
                /\ \A j \in 1 .. 1 : todo'[j] = new[j]
            BY <1>1, <2>1, <2>2, ThenIs DEF Inv, Core, Shape
          <5> QED BY <5>1, LenProperties
        <4>2. Rank(todo'[1]) = 4
          BY <4>1, <2>2, RankIs
        <4>3. Rank(todo'[i]) = 4
          <5>1. todo'[i] \in Statement /\ todo'[i][1] = "broadcast"
            BY <3>2, <4>1, ElementOfSeq
          <5> QED BY <5>1, RankIs
        <4>4. ~ (1 < i)
          BY <2>4, <4>1, <4>2, <4>3 DEF Shape, Ordered
        <4>5. i = 1
          BY <4>1, <4>4
        <4> QED BY <4>1, <4>5, <2>2, <3>2
      <3>3. due' \subseteq Reach(next', From(process_list', NULL))
        BY <2>1, <2>6 DEF Listed, From
      <3>4. NULL \notin due'
        BY <2>1 DEF Listed, Reach
      <3> QED BY <3>1, <3>2, <3>3, <3>4, <2>1, <2>6 DEF Dues, From
    <2>11. Rests'
      BY <1>1, <1>2, RestsStep DEF Inv, Core
    <2> QED BY <2>4, <2>5, <2>6, <2>7, <2>8, <2>9, <2>10, <2>11,
           <2>12 DEF Inv, Core, Whole
  <1> QED BY <1>3, <1>4, <1>5

(* do_poll calls a process that was polled. *)
LEMMA ClearStep ==
  ASSUME TypeOK, Inv, Clear
  PROVE  Inv'
  <1>1. /\ todo # <<>> /\ todo[1] = <<"clear", Arg>> /\ Arg \in Procs
        /\ todo[1][1] = "clear" /\ 1 \in DOMAIN todo
    BY TopIs DEF Clear, Inv, Core, Ones
  <1>2. /\ Then(<<>>) /\ asleep' = asleep
        /\ UNCHANGED <<lists, poll_requested, due, cut>>
        /\ owed' = owed \ {Arg}
        /\ needspoll' = [needspoll EXCEPT ![Arg] = FALSE]
        /\ \A p \in Procs : ~ Holds(todo[1], p)
    BY <1>1 DEF Clear, Holds
  <1>3. /\ <<>> \in Seq(Statement) /\ DOMAIN <<>> = {} /\ Continues(<<>>)
        /\ Ordered(<<>>) /\ AtOnce(<<>>)
    BY Texts, ContinuesIs DEF Ordered, AtOnce
  <1>4. /\ \A p \in Procs : p # Arg => state'[p] = state[p]
        /\ state'[Arg] = "running"
        /\ ~ cut' => \A p \in Procs : state'[p] = state[p]
    <2>1. state' = [state EXCEPT ![Arg] = "running"]
      BY DEF Clear
    <2>2. ~ cut => state[Arg] = "running"
      <3>1. ~ cut => Arg \in Listed
        BY <1>1 DEF Inv, Core, Whole, Leaves
      <3> QED BY <1>1, <3>1, Calm DEF Clear
    <2> QED BY <2>1, <2>2, <1>1, <1>2 DEF TypeOK
  <1>5. Shape'
    BY <1>1, <1>2, <1>3, ShapeStep DEF Inv, Core
  <1>6. ~ cut' => Threads'
    <2>1. ~ cut' => \A p \in Procs : Settled(<<>>, p)
      BY <1>2, <1>3, <1>4 DEF Settled
    <2> QED BY <2>1, <1>1, <1>2, <1>3, ThreadsStep DEF Inv, Core, Whole
  <1>7. /\ Listed' = Listed /\ Linear(next, process_list)'
        /\ process_list' = process_list /\ next' = next
    BY <1>2 DEF lists, Listed, Inv, Core
  <1>13. Members'
    <2>1. Shape /\ Members
      BY DEF Inv, Core
    <2>2. ASSUME NEW p \in Procs
          PROVE  Minds(<<>>, p)
      <3>1. CASE p = Arg
        <4>1. ~ Behind(p)
          BY <3>1, <1>1, <2>1, BehindIs
        <4> QED BY <4>1, <3>1, <1>3, <1>4 DEF Minds
      <3>2. CASE p # Arg
        <4>1. Alike(<<>>, p)
          BY <3>2, <1>1, <1>2, <1>3, <1>4, <1>7 DEF Alike
        <4> QED BY <4>1, <1>1, <2>1, AlikeMinds
      <3> QED BY <3>1, <3>2
    <2> QED BY <2>1, <2>2, <1>1, <1>2, <1>3, MembersStep
  <1>8. ~ cut' => Leaves'
    <2>1. ~ cut' => \A p \in Procs : Stays(<<>>, p)
      BY <1>1, <1>3, <1>4, <1>7 DEF Stays
    <2> QED BY <2>1, <1>1, <1>2, <1>3, LeavesStep DEF Inv, Core, Whole
  <1>9. ~ cut' => Walks'
    <2>1. WalksOn(<<>>)
      <3>1. Closed(next, Listed) /\ Listed \in SUBSET Procs
        BY ReachIs DEF Listed, TypeOK, Links
      <3> QED BY <3>1, <1>1, <1>3, <1>7 DEF WalksOn, Closed
    <2> QED BY <2>1, <1>1, <1>2, <1>3, WalksStep DEF Inv, Core, Whole
  <1>10. Polls'
    <2>1. \A p \in owed' : needspoll'[p] /\ state'[p] # "none"
      BY <1>1, <1>2, <1>4 DEF Inv, Core, Polls, TypeOK
    <2>2. /\ todo[1][1] # "poll" /\ owed' \subseteq owed /\ owed' \subseteq Listed'
          /\ \A p \in owed' : todo[1] # <<"clear", p>>
          /\ poll_requested' = poll_requested
      BY <1>1, <1>2, <1>7 DEF Inv, Core, Polls
    <2> QED BY <2>1, <2>2, <1>1, <1>2, <1>3, <1>7, PollsStep DEF Inv, Core
  <1>11. Dues'
    <2>1. /\ \A p \in due' : state'[p] # "none"
          /\ due' \subseteq Listed'
      BY <1>1, <1>2, <1>4, <1>7 DEF Inv, Core, Dues, TypeOK
    <2>2. due' = due /\ \A p \in due' : todo[1] # <<"give", p>>
      BY <1>1, <1>2
    <2> QED BY <2>1, <2>2, <1>1, <1>2, <1>3, <1>7, DuesStep DEF Inv, Core
  <1>12. Rests'
    BY <1>1, <1>2, RestsStep DEF Inv, Core
  <1> QED BY <1>5, <1>6, <1>7, <1>8, <1>9, <1>10, <1>11, <1>12,
     <1>13 DEF Inv, Core, Whole

(* The statements that a broadcast puts in front of the rest. *)
LEMMA BroadcastIs ==
  ASSUME TypeOK, Inv, Broadcast, NEW p \in Procs, p = After(Arg)
  PROVE  \E new, k :
           /\ new \in Seq(Statement) /\ Then(new) /\ k = Len(new)
           /\ k \in {2, 4} /\ DOMAIN new = 1 .. k
           /\ new[k - 1] = <<"give", p>> /\ new[k] = <<"broadcast", p>>
           /\ k = 4 => new[1] = <<"reset">> /\ new[2] = <<"poll", NULL>>
  <1> DEFINE r == <<"reset">>
             w == <<"poll", NULL>>
             g == <<"give", p>>
             b == <<"broadcast", p>>
  <1>1. /\ r \in Statement /\ w \in Statement
        /\ g \in Statement /\ b \in Statement
    BY IsStatement
  <1>2. Then((IF poll_requested THEN <<r, w>> ELSE <<>>) \o <<g, b>>)
    BY DEF Broadcast, do_poll
  <1> HIDE DEF r, w, g, b
  <1>3. CASE poll_requested
    <2> DEFINE new == <<r, w, g, b>>
    <2>1. Then(new)
      <3>1. <<r, w>> \o <<g, b>> = <<r, w, g, b>>
        BY <1>1, Join22
      <3> QED BY <1>2, <1>3, <3>1
    <2>2. /\ new \in Seq(Statement) /\ Len(new) = 4 /\ DOMAIN new = 1 .. 4
          /\ new[1] = r /\ new[2] = w /\ new[3] = g /\ new[4] = b
      BY <1>1, Texts
    <2> HIDE DEF new
    <2>3. 4 - 1 = 3
      OBVIOUS
    <2> QED BY <2>1, <2>2, <2>3 DEF r, w, g, b
  <1>4. CASE ~ poll_requested
    <2> DEFINE new == <<g, b>>
    <2>1. Then(new)
      <3>1. <<>> \o <<g, b>> = <<g, b>>
        BY <1>1, Texts, ConcatEmptySeq
      <3> QED BY <1>2, <1>4, <3>1
    <2>2. /\ new \in Seq(Statement) /\ Len(new) = 2 /\ DOMAIN new = 1 .. 2
          /\ new[1] = g /\ new[2] = b
      BY <1>1, Texts
    <2> HIDE DEF new
    <2>3. /\ 2 = Len(new) /\ 2 \in {2, 4} /\ DOMAIN new = 1 .. 2
          /\ new[2 - 1] = <<"give", p>> /\ new[2] = <<"broadcast", p>>
          /\ 2 # 4
      BY <2>2 DEF g, b
    <2> QED BY <2>1, <2>2, <2>3
  <1> QED BY <1>3, <1>4

(* do_event, the walk of a broadcast. *)
LEMMA BroadcastStep ==
  ASSUME TypeOK, Inv, Broadcast
  PROVE  Inv'
  <1>1. /\ todo # <<>> /\ todo[1] = <<"broadcast", Arg>> /\ 1 \in DOMAIN todo
        /\ Arg \in Procs \cup {NULL} /\ todo[1][1] = "broadcast"
        /\ todo[1] \in Statement
    BY TopIs DEF Broadcast, Inv, Core
  <1>2. /\ UNCHANGED <<lists, state, polls, asleep, due, cut>>
        /\ Rank(todo[1]) = 4 /\ \A p \in Procs : ~ Holds(todo[1], p)
    BY <1>1, RankIs DEF Broadcast, Holds
  <1>3. /\ After(Arg) \in Procs \cup {NULL}
        /\ next \in Links /\ process_list \in Procs \cup {NULL}
    BY <1>1 DEF After, TypeOK, Links
  <1>4. CASE After(Arg) = NULL
    <2>1. Then(<<>>)
      BY <1>4 DEF Broadcast
    <2> QED BY <2>1, <1>1, <1>2, NoneStep
  <1>5. CASE After(Arg) # NULL
    <2>1. PICK p \in Procs : p = After(Arg)
      BY <1>3, <1>5
    <2>2. PICK new, k :
           /\ new \in Seq(Statement) /\ Then(new) /\ k = Len(new)
           /\ k \in {2, 4} /\ DOMAIN new = 1 .. k
           /\ new[k - 1] = <<"give", p>> /\ new[k] = <<"broadcast", p>>
           /\ k = 4 => new[1] = <<"reset">> /\ new[2] = <<"poll", NULL>>
      BY <2>1, BroadcastIs
    <2>3. /\ 1 \in DOMAIN new /\ k \in DOMAIN new /\ k - 1 \in DOMAIN new
          /\ \A i \in DOMAIN new :
               \/ i = k - 1 /\ new[i] = <<"give", p>>
               \/ i = k /\ new[i] = <<"broadcast", p>>
               \/ i = 1 /\ k = 4 /\ new[i] = <<"reset">>
               \/ i = 2 /\ k = 4 /\ new[i] = <<"poll", NULL>>
      BY <2>2
    <2>4. \A i \in DOMAIN new :
            /\ new[i][1] \notin {"clear", "exit", "kill", "thread", "unlink"}
            /\ new[i][1] = "reset" => i = 1 /\ k = 4
            /\ \A q : ~ Holds(new[i], q)
            /\ \A q \in Procs : new[i] # <<"poll", q>>
            /\ \A q : new[i] = <<"broadcast", q>> => i = k /\ q = p
      BY <2>3 DEF Holds
    <2>5. Ordered(new) /\ AtOnce(new)
          /\ \A i \in DOMAIN new : Rank(new[i]) <= Rank(todo[1])
      <3>1. \A i \in DOMAIN new :
              \/ i = k - 1 /\ Rank(new[i]) = 3
              \/ i = k /\ Rank(new[i]) = 4
              \/ i = 1 /\ k = 4 /\ Rank(new[i]) = 1
              \/ i = 2 /\ k = 4 /\ Rank(new[i]) = 2
        <4>1. \A s : /\ s = <<"give", p>> => Rank(s) = 3
                     /\ s = <<"broadcast", p>> => Rank(s) = 4
                     /\ s = <<"reset">> => Rank(s) = 1
                     /\ s = <<"poll", NULL>> => Rank(s) = 2
          BY DEF Rank
        <4> QED BY <2>3, <4>1
      <3>2. Ordered(new)
        BY <2>2, <3>1 DEF Ordered
      <3>3. AtOnce(new)
        BY <2>2, <2>4 DEF AtOnce
      <3>4. \A i \in DOMAIN new : Rank(new[i]) <= Rank(todo[1])
        BY <3>1, <1>2
      <3> QED BY <3>2, <3>3, <3>4
    <2>6. Shape'
      BY <1>1, <2>2, <2>5, ShapeStep DEF Inv, Core
    <2>7. ~ cut' => Threads'
      <3>1. \A q \in Procs : Settled(new, q)
        BY <1>2, <2>4 DEF Settled
      <3> QED BY <3>1, <1>1, <1>2, <2>2, ThreadsStep
          DEF Inv, Core, Whole
    <2>8. /\ Listed' = Listed /\ Linear(next, process_list)'
          /\ process_list' = process_list /\ next' = next
      BY <1>2 DEF lists, Listed, Inv, Core
    <2>14. Members'
      <3>1. ASSUME NEW q \in Procs PROVE Alike(new, q)
        <4>1. \A i \in DOMAIN new :
                /\ ~ Holds(new[i], q)
                /\ new[i] # <<"unlink", q>> /\ new[i] # <<"clear", q>>
          BY <2>4
        <4> QED BY <4>1, <1>1, <1>2, <2>8 DEF Alike
      <3> QED BY <3>1, <1>1, <2>2, AlikeStep DEF Inv, Core
    <2>9. ~ cut' => Leaves'
      <3>1. ASSUME NEW q \in Procs PROVE Stays(new, q)
        <4>1. \A i \in DOMAIN new :
                new[i] # <<"unlink", q>> /\ new[i] # <<"clear", q>>
          BY <2>4
        <4> QED BY <4>1, <1>1, <1>2, <2>8 DEF Stays
      <3> QED BY <3>1, <1>1, <1>2, <2>2, LeavesStep
          DEF Inv, Core, Whole
    <2>10. ~ cut' => Walks'
      <3>1. WalksOn(new)
        <4>1. Closed(next, Listed) /\ Listed \in SUBSET Procs
          BY <1>3, ReachIs DEF Listed
        <4> QED BY <4>1, <1>1, <2>4, <2>8 DEF WalksOn, Closed
      <3>2. Continues(new)
        BY <1>1, ContinuesIs
      <3> QED BY <3>1, <3>2, <1>1, <1>2, <2>2, WalksStep
          DEF Inv, Core, Whole
    <2>11. Polls'
      <3>1. /\ owed' = owed /\ poll_requested' = poll_requested
            /\ \A q \in owed' : needspoll'[q] /\ state'[q] # "none"
            /\ owed' \subseteq Listed'
        BY <1>2, <2>8 DEF Inv, Core, Polls, polls
      <3>2. /\ todo[1][1] # "poll" /\ owed' \subseteq owed
            /\ \A q \in owed' : todo[1] # <<"clear", q>>
        BY <3>1, <1>1
      <3> QED BY <3>1, <3>2, <1>1, <2>2, <2>8, PollsStep DEF Inv, Core
    <2>12. Dues'
      <3>1. /\ due' = due /\ \A q \in due' : state'[q] # "none"
            /\ due' \subseteq Listed'
        BY <1>2, <2>8 DEF Inv, Core, Dues
      <3>2. /\ todo' \in Seq(Statement) /\ Len(todo') \in Nat
            /\ DOMAIN todo' = 1 .. Len(todo') /\ k \in DOMAIN todo'
            /\ k - 1 \in DOMAIN todo'
            /\ todo'[k] = new[k] /\ todo'[k - 1] = new[k - 1]
        <4>1. /\ todo' \in Seq(Statement) /\ Len(todo) \in Nat \ {0}
              /\ Len(todo') = Len(new) + Len(todo) - 1
              /\ \A j \in 1 .. Len(new) : todo'[j] = new[j]
          BY <1>1, <2>2, ThenIs DEF Inv, Core, Shape
        <4>2. Len(todo') \in Nat /\ DOMAIN todo' = 1 .. Len(todo')
          BY <4>1, LenProperties
        <4>3. /\ k \in 1 .. Len(new) /\ k - 1 \in 1 .. Len(new)
              /\ Len(new) <= Len(todo')
          BY <4>1, <2>2
        <4>4. todo'[k] = new[k] /\ todo'[k - 1] = new[k - 1]
          BY <4>1, <4>3
        <4>5. k \in 1 .. Len(todo') /\ k - 1 \in 1 .. Len(todo')
          <5>1. Len(new) \in Nat
            BY <2>2
          <5> QED BY <4>2, <4>3, <5>1
        <4> QED BY <4>1, <4>2, <4>4, <4>5
      <3>3. ASSUME NEW i \in DOMAIN todo', NEW q \in Procs \cup {NULL},
                   todo'[i] = <<"broadcast", q>>
            PROVE  i = k /\ q = p
        <4>1. Rank(todo'[k]) = 4
          <5>1. todo'[k] = <<"broadcast", p>>
            BY <2>2, <3>2
          <5>2. <<"broadcast", p>> \in Statement
            BY IsStatement
          <5> QED BY <5>1, <5>2, RankIs
        <4>2. Rank(todo'[i]) = 4
          <5>1. todo'[i] \in Statement
            BY <3>2, <3>3, ElementOfSeq
          <5>2. todo'[i][1] = "broadcast"
            BY <3>3
          <5> QED BY <5>1, <5>2, RankIs
        <4>3. ~ (k < i) /\ ~ (i < k)
          BY <2>6, <3>2, <4>1, <4>2 DEF Shape, Ordered
        <4>4. i = k
          BY <3>2, <4>3
        <4> QED BY <4>4, <2>2, <3>2, <3>3
      <3>4. due \subseteq Reach(next, p)
        <4>1. /\ due \subseteq Reach(next, From(process_list, Arg))
              /\ Arg \notin due
          BY <1>1 DEF Inv, Core, Dues
        <4>2. CASE Arg = NULL
          BY <4>1, <4>2, <2>1 DEF From, After
        <4>3. CASE Arg # NULL
          <5>1. Reach(next, Arg) \subseteq {Arg} \cup Reach(next, next[Arg])
            BY <4>3, <1>1, <1>3, ReachNext
          <5> QED BY <4>1, <4>3, <5>1, <2>1 DEF From, After
        <4> QED BY <4>2, <4>3
      <3>5. ASSUME NEW i \in DOMAIN todo', NEW q \in Procs \cup {NULL},
                   todo'[i] = <<"broadcast", q>>
            PROVE  /\ due' \subseteq Reach(next', From(process_list', q))
                   /\ q \in due' => i > 1 /\ todo'[i - 1] = <<"give", q>>
        <4>1. i = k /\ q = p
          BY <3>3, <3>5
        <4>2. i > 1 /\ todo'[i - 1] = <<"give", q>>
          BY <4>1, <2>2, <3>2
        <4>3. due' \subseteq Reach(next', From(process_list', q))
          BY <4>1, <3>1, <3>4, <2>8 DEF From
        <4> QED BY <4>2, <4>3
      <3> QED BY <3>1, <3>5 DEF Dues, From
    <2>13. Rests'
      BY <1>1, <1>2, RestsStep DEF Inv, Core
    <2> QED BY <2>6, <2>7, <2>8, <2>9, <2>10, <2>11, <2>12, <2>13,
           <2>14 DEF Inv, Core, Whole
  <1> QED BY <1>4, <1>5

(* The statements that a step of do_poll puts in front of the rest. *)
PollText(new, p) ==
  /\ new \in Seq(Statement) /\ Then(new) /\ DOMAIN new = 1 .. Len(new)
  /\ \/ p = NULL /\ Len(new) = 0
     \/ /\ p # NULL /\ Len(new) = 1 /\ new[1] = <<"poll", p>>
        /\ ~ needspoll[p]
     \/ /\ p # NULL /\ Len(new) = 3 /\ new[1] = <<"clear", p>>
        /\ new[2] = <<"call", p>> /\ new[3] = <<"poll", p>>

LEMMA PollIs ==
  ASSUME TypeOK, Inv, Poll, NEW p \in Procs \cup {NULL}, p = After(Arg)
  PROVE  \E new : PollText(new, p)
  <1>1. CASE p = NULL
    <2>1. Then(<<>>)
      BY <1>1 DEF Poll
    <2>2. /\ <<>> \in Seq(Statement) /\ Len(<<>>) = 0
          /\ DOMAIN <<>> = 1 .. Len(<<>>)
      BY Texts, LenProperties
    <2>3. PollText(<<>>, p)
      BY <1>1, <2>1, <2>2 DEF PollText
    <2> QED BY <2>3
  <1>2. CASE p # NULL
    <2> DEFINE c == <<"clear", p>>
               d == <<"call", p>>
               w == <<"poll", p>>
    <2>1. c \in Statement /\ d \in Statement /\ w \in Statement
      BY <1>2, IsStatement
    <2>2. Then((IF needspoll[p] THEN <<c, d>> ELSE <<>>) \o <<w>>)
      BY <1>2 DEF Poll
    <2> HIDE DEF c, d, w
    <2>5. <<c, d>> \o <<w>> = <<c, d, w>> /\ <<>> \o <<w>> = <<w>>
      BY <2>1, Join21, Texts, ConcatEmptySeq
    <2>3. CASE needspoll[p]
      <3> DEFINE new == <<c, d, w>>
      <3>1. /\ new \in Seq(Statement) /\ Len(new) = 3
            /\ DOMAIN new = 1 .. 3 /\ new[1] = c /\ new[2] = d /\ new[3] = w
            /\ Then(new)
        <4>1. new \in Seq(Statement) /\ Len(new) = 3
          BY <2>1, Texts
        <4>2. DOMAIN new = 1 .. 3 /\ new[1] = c /\ new[2] = d /\ new[3] = w
          OBVIOUS
        <4>3. Then(new)
          BY <2>2, <2>3, <2>5
        <4> HIDE DEF new
        <4> QED BY <4>1, <4>2, <4>3
      <3> HIDE DEF new
      <3>2. PollText(new, p)
        BY <3>1, <1>2 DEF PollText, c, d, w
      <3> QED BY <3>2
    <2>4. CASE ~ needspoll[p]
      <3> DEFINE new == <<w>>
      <3>1. /\ new \in Seq(Statement) /\ Len(new) = 1
            /\ DOMAIN new = 1 .. 1 /\ new[1] = w /\ Then(new)
        BY <2>1, <2>2, <2>4, <2>5, Texts
      <3> HIDE DEF new
      <3>2. PollText(new, p)
        BY <3>1, <1>2, <2>4 DEF PollText, w
      <3> QED BY <3>2
    <2> QED BY <2>3, <2>4
  <1> QED BY <1>1, <1>2

(* do_poll, the walk. *)
LEMMA PollStep ==
  ASSUME TypeOK, Inv, Poll
  PROVE  Inv'
  <1>1. /\ todo # <<>> /\ todo[1] = <<"poll", Arg>> /\ 1 \in DOMAIN todo
        /\ Arg \in Procs \cup {NULL} /\ todo[1][1] = "poll"
        /\ todo[1] \in Statement
    BY TopIs DEF Poll, Inv, Core
  <1>2. /\ UNCHANGED <<lists, state, polls, asleep, due, cut>>
        /\ Rank(todo[1]) = 2 /\ \A p \in Procs : ~ Holds(todo[1], p)
    BY <1>1, RankIs DEF Poll, Holds
  <1>3. /\ After(Arg) \in Procs \cup {NULL}
        /\ next \in Links /\ process_list \in Procs \cup {NULL}
    BY <1>1 DEF After, TypeOK, Links
  <1>4. /\ Closed(next, Listed) /\ Listed \in SUBSET Procs
        /\ process_list \in Listed \cup {NULL}
    BY <1>3, ReachIs DEF Listed
  <1>5. PICK p \in Procs \cup {NULL} : p = After(Arg)
    BY <1>3
  <1>6. ~ cut => p \in Listed \cup {NULL}
    <2>1. CASE Arg = NULL
      BY <2>1, <1>4, <1>5 DEF After
    <2>2. CASE Arg # NULL
      BY <2>2, <1>1, <1>5 DEF After, Inv, Core, Whole, Walks
    <2> QED BY <2>1, <2>2
  <1>7. PICK new : PollText(new, p)
    BY <1>5, PollIs
  <1>8. /\ new \in Seq(Statement) /\ Then(new) /\ DOMAIN new = 1 .. Len(new)
        /\ Len(new) \in Nat
    BY <1>7 DEF PollText
  <1>9. \A i \in DOMAIN new :
          /\ \/ i = 1 /\ new[i] = <<"clear", p>> /\ Len(new) = 3
             \/ i = 2 /\ new[i] = <<"call", p>> /\ Len(new) = 3
             \/ i = Len(new) /\ new[i] = <<"poll", p>>
          /\ p \in Procs /\ (~ cut => p \in Listed)
    BY <1>5, <1>6, <1>7, <1>8 DEF PollText
  <1>10. \A i \in DOMAIN new :
           /\ new[i][1] \notin {"exit", "kill", "thread", "unlink", "reset",
                             "broadcast"}
           /\ new[i][1] = "clear" => i = 1
           /\ \A q : ~ Holds(new[i], q)
           /\ \A q : new[i] = <<"clear", q>> => (~ cut => q \in Listed)
    BY <1>9 DEF Holds
  <1>11. /\ Ordered(new) /\ AtOnce(new)
         /\ \A i \in DOMAIN new : Rank(new[i]) <= Rank(todo[1])
    <2>1. \A i \in DOMAIN new :
            \/ i = 1 /\ Rank(new[i]) = 0
            \/ i = 2 /\ Rank(new[i]) = 0
            \/ i = Len(new) /\ Rank(new[i]) = 2
      <3>1. \A s : /\ s = <<"clear", p>> => Rank(s) = 0
                   /\ s = <<"call", p>> => Rank(s) = 0
                   /\ s = <<"poll", p>> => Rank(s) = 2
        BY DEF Rank
      <3> QED BY <1>9, <3>1
    <2>2. Ordered(new)
      BY <1>8, <2>1 DEF Ordered
    <2>3. AtOnce(new)
      <3>1. ASSUME NEW q \in Procs, 1 \in DOMAIN new, new[1] = <<"clear", q>>
            PROVE  /\ 3 \in DOMAIN new /\ new[2] = <<"call", q>>
                   /\ new[3] = <<"poll", q>>
        BY <3>1, <1>7 DEF PollText
      <3> QED BY <3>1, <1>10 DEF AtOnce
    <2> QED BY <2>1, <2>2, <2>3, <1>2
  <1>12. Shape'
    BY <1>1, <1>8, <1>11, ShapeStep DEF Inv, Core
  <1>13. ~ cut' => Threads'
    <2>1. \A q \in Procs : Settled(new, q)
      BY <1>2, <1>10 DEF Settled
    <2> QED BY <2>1, <1>1, <1>2, <1>8, ThreadsStep
          DEF Inv, Core, Whole
  <1>14. /\ Listed' = Listed /\ Linear(next, process_list)'
         /\ process_list' = process_list /\ next' = next
    BY <1>2 DEF lists, Listed, Inv, Core
  <1>23. Members'
    <2>1. Shape /\ Members
      BY DEF Inv, Core
    <2>2. ASSUME NEW q \in Procs PROVE Minds(new, q)
      <3>1. ~ Behind(q)
        BY <1>1, <1>2, <2>1, BehindIs
      <3>2. \A i \in DOMAIN new :
              /\ new[i] # <<"unlink", q>>
              /\ new[i] \notin {<<"thread", q>>} \cup Ending(q)
        BY <1>10 DEF Ending
      <3> QED BY <3>1, <3>2, <1>1, <1>2, <1>14 DEF Minds
    <2> QED BY <2>1, <2>2, <1>1, <1>8, MembersStep
  <1>15. ~ cut' => Leaves'
    <2>1. ASSUME ~ cut', NEW q \in Procs PROVE Stays(new, q)
      <3>1. \A i \in DOMAIN new : new[i] = <<"clear", q>> => q \in Listed
        BY <2>1, <1>2, <1>10
      <3>2. \A i \in DOMAIN new : new[i] # <<"unlink", q>>
        BY <1>10
      <3> QED BY <3>1, <3>2, <1>1, <1>2, <1>14 DEF Stays
    <2> QED BY <2>1, <1>1, <1>2, <1>8, LeavesStep
          DEF Inv, Core, Whole
  <1>16. Dues'
    <2>1. /\ due' = due /\ \A q \in due' : state'[q] # "none"
          /\ due' \subseteq Listed'
      BY <1>2, <1>14 DEF Inv, Core, Dues
    <2>2. /\ \A q \in due' : todo[1] # <<"give", q>>
          /\ \A i \in DOMAIN new : new[i][1] # "broadcast"
      BY <1>1, <1>10
    <2> QED BY <2>1, <2>2, <1>1, <1>8, <1>14, DuesStep DEF Inv, Core
  <1>17. Rests'
    BY <1>1, <1>2, RestsStep DEF Inv, Core
  <1>18. /\ todo' \in Seq(Statement) /\ DOMAIN todo' = 1 .. Len(todo')
         /\ Len(todo') \in Nat
         /\ \A i \in 1 .. Len(new) : i \in DOMAIN todo' /\ todo'[i] = new[i]
         /\ \A i \in DOMAIN todo' :
              \/ i \in 1 .. Len(new) /\ todo'[i] = new[i]
              \/ /\ i - Len(new) + 1 \in 2 .. Len(todo)
                 /\ todo'[i] = todo[i - Len(new) + 1]
    <2>1. /\ todo' \in Seq(Statement) /\ Len(todo) \in Nat \ {0}
          /\ Len(todo') = Len(new) + Len(todo) - 1
          /\ \A i \in 1 .. Len(new) : todo'[i] = new[i]
          /\ \A i \in DOMAIN todo' :
              \/ i \in 1 .. Len(new) /\ todo'[i] = new[i]
              \/ /\ i - Len(new) + 1 \in 2 .. Len(todo)
                 /\ todo'[i] = todo[i - Len(new) + 1]
      BY <1>1, <1>8, ThenIs DEF Inv, Core, Shape
    <2> QED BY <2>1, <1>8, LenProperties
  (* There is no other poll. *)
  <1>19. ASSUME NEW j \in DOMAIN todo, NEW q \in Procs \cup {NULL},
                todo[j] = <<"poll", q>>
         PROVE  j = 1 /\ q = Arg
    <2>1. Rank(todo[j]) = 2
      <3>1. <<"poll", q>> \in Statement
        BY IsStatement
      <3> QED BY <3>1, <1>19, RankIs
    <2>2. ~ (1 < j)
      BY <2>1, <1>1, <1>2 DEF Inv, Core, Shape, Ordered
    <2>3. j \in 1 .. Len(todo) /\ Len(todo) \in Nat
      BY LenProperties DEF Inv, Core, Shape
    <2>4. j = 1
      BY <2>2, <2>3
    <2> QED BY <2>4, <1>1, <1>19
  <1>20. ASSUME NEW i \in DOMAIN todo', NEW q \in Procs \cup {NULL},
                todo'[i] = <<"poll", q>>
         PROVE  /\ i = Len(new) /\ q = p /\ (~ cut => p \in Listed)
                /\ i # 1 => todo'[2] = <<"call", p>> /\ i = 3
                            /\ todo'[1] = <<"clear", p>>
    <2>1. i \in 1 .. Len(new) /\ todo'[i] = new[i]
      <3>1. ASSUME i - Len(new) + 1 \in 2 .. Len(todo),
                   todo'[i] = todo[i - Len(new) + 1]
            PROVE  FALSE
        <4>1. PICK j : j \in 2 .. Len(todo) /\ todo[j] = <<"poll", q>>
          BY <3>1, <1>20
        <4>2. j \in DOMAIN todo /\ j # 1
          BY <4>1, LenProperties DEF Inv, Core, Shape
        <4> QED BY <4>1, <4>2, <1>19
      <3> QED BY <3>1, <1>18
    <2>2. i \in DOMAIN new
      BY <2>1, <1>8
    <2>3. i = Len(new) /\ q = p /\ (~ cut => p \in Listed)
      <3>1. new[i] = <<"poll", q>> /\ new[i][1] = "poll"
        BY <2>1, <1>20
      <3>2. i = Len(new) /\ new[i] = <<"poll", p>>
              /\ (~ cut => p \in Listed)
        BY <2>2, <3>1, <1>9
      <3> QED BY <3>1, <3>2
    <2>4. ASSUME i # 1
          PROVE  /\ todo'[2] = <<"call", p>> /\ i = 3
                 /\ todo'[1] = <<"clear", p>>
      <3>1. /\ Len(new) = 3 /\ new[1] = <<"clear", p>>
            /\ new[2] = <<"call", p>>
        BY <2>1, <2>3, <2>4, <1>7 DEF PollText
      <3> QED BY <3>1, <2>3, <1>18
    <2> QED BY <2>3, <2>4
  <1>21. ~ cut' => Walks'
    <2> SUFFICES ASSUME ~ cut', NEW q \in Procs, NEW i \in DOMAIN todo',
                        todo'[i] = <<"poll", q>>
                 PROVE
      IF i = 1 THEN next'[q] \in Listed' \cup {NULL}
      ELSE /\ q \in Listed' /\ todo'[i - 1] \in Turn(q)
           /\ todo'[i - 1] = <<"call", q>>
                => i = 2 \/ todo'[1] = <<"clear", q>>
      BY DEF Walks, Turn
    <2>3. ~ cut
      BY <1>2
    <2>1. CASE i = 1
      BY <2>1, <2>3, <1>4, <1>14, <1>20 DEF Closed
    <2>2. CASE i # 1
      <3>1. /\ i = 3 /\ q = p /\ q \in Listed' /\ 3 - 1 = 2
            /\ todo'[2] = <<"call", q>> /\ todo'[1] = <<"clear", q>>
        BY <2>2, <2>3, <1>14, <1>20
      <3> QED BY <2>2, <3>1 DEF Turn
    <2> QED BY <2>1, <2>2
  <1>22. Polls'
    <2>1. /\ owed' = owed /\ poll_requested' = poll_requested
          /\ needspoll' = needspoll
          /\ \A q \in owed' : needspoll'[q] /\ state'[q] # "none"
          /\ owed' \subseteq Listed'
      BY <1>2, <1>14 DEF Inv, Core, Polls, polls
    <2>2. ASSUME ~ poll_requested, owed # {}
          PROVE  \E i \in DOMAIN todo', q \in Procs \cup {NULL} :
                   /\ todo'[i] = <<"poll", q>>
                   /\ owed' \subseteq Reach(next', From(process_list', q))
                   /\ q \in owed' => todo'[1] = <<"clear", q>>
      <3>1. /\ owed \subseteq Reach(next, From(process_list, Arg))
            /\ Arg \notin owed
        <4>1. PICK j \in DOMAIN todo, q \in Procs \cup {NULL} :
                /\ todo[j] = <<"poll", q>>
                /\ owed \subseteq Reach(next, From(process_list, q))
                /\ q \in owed => todo[1] = <<"clear", q>>
          BY <2>2 DEF Inv, Core, Polls
        <4>2. j = 1 /\ q = Arg
          BY <4>1, <1>19
        <4> QED BY <4>1, <4>2, <1>1
      <3>2. owed \subseteq Reach(next, p)
        <4>1. CASE Arg = NULL
          BY <3>1, <4>1, <1>5 DEF From, After
        <4>2. CASE Arg # NULL
          <5>1. Reach(next, Arg) \subseteq {Arg} \cup Reach(next, next[Arg])
            BY <4>2, <1>1, <1>3, ReachNext
          <5> QED BY <3>1, <4>2, <5>1, <1>5 DEF From, After
        <4> QED BY <4>1, <4>2
      <3>3. p # NULL
        BY <3>2, <2>2, ReachNothing
      <3>4. owed' \subseteq Reach(next', From(process_list', p))
        BY <3>2, <3>3, <2>1, <1>14 DEF From
      <3>5. CASE Len(new) = 1
        <4>1. /\ 1 \in DOMAIN todo' /\ todo'[1] = <<"poll", p>>
              /\ ~ needspoll[p]
          BY <3>3, <3>5, <1>7, <1>18 DEF PollText
        <4>2. p \notin owed'
          BY <4>1, <2>1
        <4> QED BY <4>1, <4>2, <3>4
      <3>6. CASE Len(new) = 3
        <4>1. /\ 3 \in DOMAIN todo' /\ todo'[3] = <<"poll", p>>
              /\ todo'[1] = <<"clear", p>>
          BY <3>3, <3>6, <1>7, <1>18 DEF PollText
        <4> QED BY <4>1, <3>4
      <3>7. Len(new) \in {1, 3}
        BY <3>3, <1>7 DEF PollText
      <3> QED BY <3>5, <3>6, <3>7
    <2> QED BY <2>1, <2>2 DEF Polls, From
  <1> QED BY <1>12, <1>13, <1>14, <1>15, <1>16, <1>17, <1>21, <1>22,
     <1>23 DEF Inv, Core, Whole

(* The statements of a turn of the main loop. *)
RunText(k) ==
  /\ todo' \in Seq(Statement) /\ DOMAIN todo' = 1 .. k /\ k \in {2, 4}
  /\ todo'[k - 1] = <<"event">> /\ todo'[k] = <<"idle">>
  /\ k = 4 => todo'[1] = <<"reset">> /\ todo'[2] = <<"poll", NULL>>

LEMMA RunIs ==
  ASSUME Run
  PROVE  \E k : RunText(k)
  <1> DEFINE r == <<"reset">>
             w == <<"poll", NULL>>
             g == <<"event">>
             b == <<"idle">>
  <1>1. /\ r \in Statement /\ w \in Statement
        /\ g \in Statement /\ b \in Statement
    BY IsStatement
  <1>2. todo' = (IF poll_requested THEN <<r, w>> ELSE <<>>) \o <<g, b>>
    BY DEF Run, do_poll
  <1> HIDE DEF r, w, g, b
  <1>3. CASE poll_requested
    <2>1. todo' = <<r, w, g, b>>
      <3>1. <<r, w>> \o <<g, b>> = <<r, w, g, b>>
        BY <1>1, Join22
      <3> QED BY <1>2, <1>3, <3>1
    <2>2. /\ todo' \in Seq(Statement) /\ DOMAIN todo' = 1 .. 4
          /\ todo'[1] = r /\ todo'[2] = w /\ todo'[3] = g /\ todo'[4] = b
      BY <1>1, <2>1, Texts
    <2>3. RunText(4)
      BY <2>2 DEF RunText, r, w, g, b
    <2> QED BY <2>3
  <1>4. CASE ~ poll_requested
    <2>1. todo' = <<g, b>>
      <3>1. <<>> \o <<g, b>> = <<g, b>>
        BY <1>1, Texts, ConcatEmptySeq
      <3> QED BY <1>2, <1>4, <3>1
    <2>2. /\ todo' \in Seq(Statement) /\ DOMAIN todo' = 1 .. 2
          /\ todo'[1] = g /\ todo'[2] = b
      BY <1>1, <2>1, Texts
    <2>3. RunText(2)
      BY <2>2 DEF RunText, g, b
    <2> QED BY <2>3
  <1> QED BY <1>3, <1>4

(* process_run *)
LEMMA RunStep ==
  ASSUME TypeOK, Inv, Run
  PROVE  Inv'
  <1>1. /\ todo = <<>> /\ DOMAIN todo = {} /\ ~ asleep
        /\ UNCHANGED <<lists, state, polls, asleep, due, cut>>
    BY DEF Run
  <1>2. PICK k : RunText(k)
    BY RunIs
  <1>3. /\ todo' \in Seq(Statement) /\ DOMAIN todo' = 1 .. k
        /\ \A i \in DOMAIN todo' :
             \/ i = k - 1 /\ todo'[i] = <<"event">>
             \/ i = k /\ todo'[i] = <<"idle">>
             \/ i = 1 /\ k = 4 /\ todo'[i] = <<"reset">>
             \/ i = 2 /\ k = 4 /\ todo'[i] = <<"poll", NULL>>
    BY <1>2 DEF RunText
  <1>4. \A i \in DOMAIN todo' :
          /\ \A p \in Procs :
               /\ ~ Holds(todo'[i], p) /\ todo'[i] # <<"unlink", p>>
               /\ todo'[i] \notin Ending(p) \cup {<<"thread", p>>}
               /\ todo'[i] # <<"clear", p>> /\ todo'[i] # <<"poll", p>>
          /\ \A p : todo'[i] # <<"broadcast", p>>
          /\ todo'[i][1] \notin {"clear", "exit", "kill", "thread"}
          /\ todo'[i][1] = "reset" => i = 1
          /\ todo'[i] = <<"reset">> => k = 4
    BY <1>3 DEF Holds, Ending
  <1>5. \A p \in Procs :
          /\ p \in Listed => state[p] = "running"
          /\ ~ cut => state[p] # "called" /\ (p \in Listed <=> state[p] = "running")
    BY <1>1, Calm
  <1>6. Shape'
    <2>1. \A i \in DOMAIN todo' :
            \/ i = k - 1 /\ Rank(todo'[i]) = 5
            \/ i = k /\ Rank(todo'[i]) = 6
            \/ i = 1 /\ k = 4 /\ Rank(todo'[i]) = 1
            \/ i = 2 /\ k = 4 /\ Rank(todo'[i]) = 2
      <3>1. \A s : /\ s = <<"event">> => Rank(s) = 5
                   /\ s = <<"idle">> => Rank(s) = 6
                   /\ s = <<"reset">> => Rank(s) = 1
                   /\ s = <<"poll", NULL>> => Rank(s) = 2
        BY DEF Rank
      <3> QED BY <1>3, <3>1
    <2>2. Ordered(todo')
      BY <1>2, <2>1 DEF Ordered, RunText
    <2>3. AtOnce(todo')
      BY <1>2, <1>4 DEF AtOnce, RunText
    <2> QED BY <2>2, <2>3, <1>3 DEF Shape
  <1>7. ~ cut' => Threads'
    <2>1. \A p \in Procs : state'[p] = state[p]
      BY <1>1
    <2>2. \A p \in Procs : \A i \in DOMAIN todo' : ~ Holds(todo'[i], p)
      BY <1>4
    <2>3. \A p \in Procs : \A i \in DOMAIN todo' : todo'[i] \notin Ending(p)
      BY <1>4
    <2> QED BY <2>1, <2>2, <2>3, <1>1, <1>5 DEF Threads, Holds
  <1>8. /\ Listed' = Listed /\ Linear(next, process_list)'
        /\ process_list' = process_list /\ next' = next
    BY <1>1 DEF lists, Listed, Inv, Core
  <1>14. Members'
    <2>1. \A p \in Procs : p \in Listed' => state'[p] = "running"
      BY <1>1, <1>5, <1>8
    <2>2. ASSUME NEW p \in Procs, NEW i \in DOMAIN todo'
          PROVE  /\ todo'[i] # <<"unlink", p>>
                 /\ todo'[i] \notin {<<"thread", p>>} \cup Ending(p)
      BY <1>4
    <2> QED BY <2>1, <2>2 DEF Members, Ending
  <1>9. ~ cut' => Leaves'
    <2>1. ~ cut' => ~ cut /\ \A p \in Procs : state'[p] = state[p]
      BY <1>1
    <2>2. ~ cut => \A p \in Procs : p \in Listed <=> state[p] = "running"
      BY <1>5
    <2>3. \A p \in Procs : state[p] \in {"none", "running", "called"}
      BY DEF TypeOK
    <2>4. ~ cut => \A p \in Procs : state[p] # "called"
      BY <1>5
    <2>5. ~ cut' => \A p \in Procs :
                     /\ state'[p] # "none" => p \in Listed'
                     /\ p \in Listed' => state'[p] # "none"
      BY <2>1, <2>2, <2>3, <2>4, <1>8
    <2> QED BY <2>5, <1>4 DEF Leaves
  <1>10. Walks'
    BY <1>4 DEF Walks
  <1>11. Polls'
    <2>1. /\ owed' = owed /\ poll_requested' = poll_requested
          /\ \A p \in owed' : needspoll'[p] /\ state'[p] # "none"
          /\ owed' \subseteq Listed'
      BY <1>1, <1>8 DEF Inv, Core, Polls, polls
    <2>2. poll_requested \/ owed = {}
      BY <1>1 DEF Inv, Core, Polls
    <2> QED BY <2>1, <2>2 DEF Polls
  <1>12. Dues'
    <2>1. /\ due' = due /\ \A p \in due' : state'[p] # "none"
          /\ due' \subseteq Listed'
      BY <1>1, <1>8 DEF Inv, Core, Dues
    <2> QED BY <2>1, <1>4 DEF Dues
  <1>13. Rests'
    BY <1>1 DEF Rests
  <1> QED BY <1>6, <1>7, <1>8, <1>9, <1>10, <1>11, <1>12, <1>13, <1>14
     DEF Inv, Core, Whole

(* Between two statements nothing changes but what an interrupt does. *)
LEMMA SameText ==
  ASSUME Inv, UNCHANGED <<lists, state, todo, due, cut>>,
         Polls', Rests'
  PROVE  Inv'
  <1>1. /\ todo' = todo /\ next' = next /\ process_list' = process_list
        /\ state' = state /\ due' = due /\ Listed' = Listed /\ cut' = cut
    BY DEF lists, Listed
  <1>2. Shape' /\ Linear(next, process_list)' /\ (~ cut' => Threads')
    BY <1>1 DEF Inv, Core, Shape, Whole, Threads
  <1>5. Members'
    BY <1>1 DEF Inv, Core, Members
  <1>3. ~ cut' => Leaves'
    BY <1>1 DEF Inv, Core, Whole, Leaves
  <1>4. (~ cut' => Walks') /\ Dues'
    BY <1>1 DEF Inv, Core, Whole, Walks, Dues
  <1> QED BY <1>2, <1>3, <1>4, <1>5 DEF Inv, Core, Whole

(* process_poll *)
LEMMA InterruptStep ==
  ASSUME TypeOK, Inv, NEW p \in Procs, Interrupt(p)
  PROVE  Inv'
  <1>1. UNCHANGED <<queue, lists, state, todo, due, cut>>
    BY DEF Interrupt
  <1>2. CASE state[p] # "none"
    <2>1. /\ needspoll' = [needspoll EXCEPT ![p] = TRUE]
          /\ poll_requested' /\ owed' = owed \cup ({p} \cap Listed) /\ ~ asleep'
      BY <1>2 DEF Interrupt
    <2>2. /\ \A q \in owed' : needspoll'[q] /\ state'[q] # "none"
          /\ owed' \subseteq Listed'
      BY <2>1, <1>1, <1>2 DEF Listed, lists, Inv, Core, Polls, TypeOK
    <2>3. Polls'
      BY <2>1, <2>2 DEF Polls
    <2>4. Rests'
      BY <2>1 DEF Rests
    <2> QED BY <2>3, <2>4, <1>1, SameText
  <1>3. CASE state[p] = "none"
    <2>1. UNCHANGED <<polls, asleep>>
      BY <1>3 DEF Interrupt
    <2>2. Polls'
      <3>1. /\ owed' = owed /\ needspoll' = needspoll /\ todo' = todo
            /\ poll_requested' = poll_requested /\ state' = state
            /\ next' = next /\ process_list' = process_list
            /\ Listed' = Listed
        BY <2>1, <1>1 DEF polls, lists, Listed
      <3> QED BY <3>1 DEF Inv, Core, Polls
    <2>3. Rests'
      BY <2>1, <1>1 DEF Inv, Rests, polls, queue
    <2> QED BY <2>2, <2>3, <1>1, SameText
  <1> QED BY <1>2, <1>3

LEMMA StutterStep ==
  ASSUME Inv, UNCHANGED vars
  PROVE  Inv'
  <1>1. UNCHANGED <<lists, state, todo, due, cut, polls, asleep, queue>>
    BY DEF vars, lists, polls, queue
  <1>2. Polls'
    <2>1. /\ owed' = owed /\ needspoll' = needspoll /\ todo' = todo
          /\ poll_requested' = poll_requested /\ state' = state
          /\ next' = next /\ process_list' = process_list
          /\ Listed' = Listed
      BY <1>1 DEF polls, lists, Listed
    <2> QED BY <2>1 DEF Inv, Core, Polls
  <1>3. Rests'
    BY <1>1 DEF Inv, Rests, polls, queue
  <1> QED BY <1>1, <1>2, <1>3, SameText

-----------------------------------------------------------------------------
(* The invariant holds. *)

LEMMA InitInv == Init => Inv
  <1> SUFFICES ASSUME Init PROVE Inv
    OBVIOUS
  <1>1. /\ todo = <<>> /\ DOMAIN todo = {} /\ owed = {} /\ due = {}
        /\ ~ asleep /\ Listed = Procs
        /\ \A p \in Procs : state[p] = "running"
        /\ Linear(next, process_list)
    BY DEF Init
  <1>2. Shape
    BY <1>1, Texts DEF Shape, Ordered, AtOnce
  <1>3. Threads /\ Leaves /\ Walks /\ Members
    BY <1>1 DEF Threads, Leaves, Walks, Members
  <1>4. Polls /\ Dues /\ Rests
    BY <1>1 DEF Polls, Dues, Rests
  <1> QED BY <1>1, <1>2, <1>3, <1>4 DEF Inv, Core, Whole

LEMMA InitType == Init => TypeOK
  <1> SUFFICES ASSUME Init PROVE TypeOK
    OBVIOUS
  <1>1. /\ events \in [Slots -> Event] /\ nevents \in 0 .. NumEvents
        /\ fevent \in Slots
    BY DEF Init, Slots, Event
  <1> QED BY <1>1 DEF Init, TypeOK, Event

LEMMA PostType ==
  ASSUME TypeOK, NEW e \in Event, Post(e)
  PROVE  TypeOK'
  <1>1. Place(fevent, nevents) \in Slots \/ nevents = NumEvents
    BY DEF TypeOK, Place, Slots
  <1>2. UNCHANGED <<lists, state, polls, receiver, asleep, due, cut>>
    BY DEF Post
  <1>3. /\ events' \in [Slots -> Event] /\ nevents' \in 0 .. NumEvents
        /\ fevent' \in Slots
    BY <1>1 DEF Post, TypeOK, snum, queue
  <1> QED BY <1>2, <1>3 DEF TypeOK, lists, polls

LEMMA CalledType ==
  ASSUME TypeOK, NEW p \in Procs, Called(p)
  PROVE  state' \in [Procs -> {"none", "running", "called"}]
  BY DEF Called, TypeOK

LEMMA MainType ==
  ASSUME TypeOK, Shape, Main
  PROVE  TypeOK'
  <1>1. CASE Start
    <2>1. Arg \in Procs
      BY <1>1, TopIs DEF Start, Ones
    <2> QED BY <1>1, <2>1 DEF Start, TypeOK, lists, queue, polls
  <1>2. CASE Call
    <2>1. Arg \in Procs
      BY <1>2, TopIs DEF Call, Ones
    <2> QED BY <1>2, <2>1, CalledType DEF Call, TypeOK, lists, queue, polls
  <1>3. CASE Exit
    <2>1. Arg \in Procs
      <3>1. CASE At("exit")
        BY <3>1, TopIs DEF Ones
      <3>2. CASE At("kill")
        BY <3>2, TopIs DEF Ones
      <3> QED BY <3>1, <3>2, <1>3 DEF Exit
    <2> QED BY <1>3, <2>1 DEF Exit, TypeOK, lists, queue, polls
  <1>4. CASE Exited
    BY <1>4 DEF Exited, TypeOK, lists, queue, polls
  <1>5. CASE Unlink
    <2>1. Arg \in Procs
      BY <1>5, TopIs DEF Unlink, Ones
    <2> QED BY <1>5, <2>1 DEF Unlink, Unlinked, TypeOK, lists, queue, polls
  <1>6. CASE Thread \/ Farewell
    <2>1. CASE \E e \in Posted : Post(e)
      <3>1. Posted \subseteq Event
        BY ProcessAssumption DEF Event
      <3> QED BY <2>1, <3>1, PostType
    <2>2. CASE /\ UNCHANGED <<queue, lists, state, polls, receiver, asleep, due>>
               /\ cut' \in BOOLEAN
      BY <2>2 DEF TypeOK, lists, queue, polls
    <2>3. ASSUME NEW p, NEW rest, Does(p, rest)
          PROVE  \/ \E e \in Posted : Post(e)
                 \/ /\ UNCHANGED <<queue, lists, state, polls, receiver, asleep,
                                   due>>
                    /\ cut' \in BOOLEAN
      <3>1. ASSUME NEW q \in Procs, cut' = (cut \/ state[q] = "called")
            PROVE  cut' \in BOOLEAN
        BY <3>1
      <3>2. UNCHANGED cut => cut' \in BOOLEAN
        BY DEF TypeOK
      <3> QED BY <2>3, <3>1, <3>2 DEF Does
    <2>4. UNCHANGED cut => cut' \in BOOLEAN
      BY DEF TypeOK
    <2> QED BY <1>6, <2>1, <2>2, <2>3, <2>4 DEF Thread, Farewell
  <1>7. CASE Waits
    <2>1. Arg \in Procs
      BY <1>7, TopIs DEF Waits, Ones
    <2> QED BY <1>7, <2>1 DEF Waits, TypeOK, lists, queue, polls
  <1>8. CASE Run \/ Poll \/ Broadcast \/ Idle
    BY <1>8 DEF Run, Poll, Broadcast, Idle, TypeOK, lists, queue, polls
  <1>9. CASE Reset
    BY <1>9 DEF Reset, TypeOK, lists, queue
  <1>10. CASE Clear
    <2>1. Arg \in Procs
      BY <1>10, TopIs DEF Clear, Ones
    <2> QED BY <1>10, <2>1 DEF Clear, TypeOK, lists, queue
  <1>11. CASE TakeEvent
    <2>1. UNCHANGED <<lists, state, polls, asleep, cut>>
      BY <1>11 DEF TakeEvent
    <2>2. /\ events' \in [Slots -> Event] /\ nevents' \in 0 .. NumEvents
          /\ fevent' \in Slots /\ receiver' \in Event /\ due' \subseteq Procs
      <3>1. CASE nevents = 0
        BY <3>1, <1>11 DEF TakeEvent, TypeOK, queue
      <3>2. CASE nevents # 0
        <4>1. /\ receiver' = events[fevent] /\ events' = events
              /\ fevent' = Place(fevent, 1) /\ nevents' = nevents - 1
              /\ due' = Listed \/ due' = due
          BY <3>2, <1>11 DEF TakeEvent
        <4>2. Place(fevent, 1) \in Slots /\ Listed \subseteq Procs
          BY DEF TypeOK, Place, Slots, Listed, Reach
        <4> QED BY <3>2, <4>1, <4>2 DEF TypeOK
      <3> QED BY <3>1, <3>2
    <2> QED BY <2>1, <2>2 DEF TypeOK, lists, polls
  <1>12. CASE Give
    <2>1. Arg \in Procs
      BY <1>12, TopIs DEF Give, Ones
    <2> QED BY <1>12, <2>1, CalledType DEF Give, TypeOK, lists, queue, polls
  <1>13. CASE Sleep
    BY <1>13 DEF Sleep, TypeOK, lists, queue, polls
  <1> QED BY <1>1, <1>2, <1>3, <1>4, <1>5, <1>6, <1>7, <1>8, <1>9, <1>10,
     <1>11, <1>12, <1>13 DEF Main

LEMMA KernelStep == KernelInv /\ [Next]_vars => KernelInv'
  <1> SUFFICES ASSUME TypeOK, Inv, [Next]_vars
               PROVE  TypeOK' /\ Inv'
    BY DEF KernelInv
  <1>1. CASE Main
    <2>1. TypeOK'
      BY <1>1, MainType DEF Inv, Core
    <2>2. Inv'
      BY <1>1, StartStep, CallStep, ExitStep, ExitedStep, FarewellStep,
         UnlinkStep, ThreadStep, WaitsStep, RunStep, ResetStep, PollStep,
         ClearStep, TakeEventStep, BroadcastStep, GiveStep, IdleStep, SleepStep
         DEF Main
    <2> QED BY <2>1, <2>2
  <1>2. ASSUME NEW p \in Polled, Interrupt(p)
        PROVE  TypeOK' /\ Inv'
    <2>1. p \in Procs
      OBVIOUS
    <2>2. TypeOK'
      BY <1>2, <2>1 DEF Interrupt, TypeOK, lists, queue, polls
    <2> QED BY <1>2, <2>1, <2>2, InterruptStep
  <1>3. CASE UNCHANGED vars
    BY <1>3, StutterStep DEF vars, TypeOK
  <1> QED BY <1>1, <1>2, <1>3 DEF Next

LEMMA KernelAlways == Spec => []KernelInv
  <1>1. Init => KernelInv
    BY InitInv, InitType DEF KernelInv
  <1> QED BY <1>1, KernelStep, PTL DEF Spec

-----------------------------------------------------------------------------
(* What follows from it. *)

(* process.c:100-122, 125-173, 187-206: nobody is left on the list who does *)
(* not run, but for one that is about to be unlinked; and whoever runs is on *)
(* the list, where polls and broadcasts find it, until somebody is ended     *)
(* while a call of it lasts. Starts, calls and ends may be inside each other *)
(* in any way.                                                               *)
THEOREM RunningAreListed == Spec => []ListedRun
  <1>1. ASSUME KernelInv
        PROVE  ListedRun
    <2>1. ~ cut => \A p \in Procs : state[p] # "none" => p \in Listed
      BY <1>1 DEF KernelInv, Inv, Core, Whole, Leaves
    <2>2. ASSUME NEW p \in Listed, state[p] = "none"
          PROVE  \E i \in DOMAIN todo : todo[i] = <<"unlink", p>>
      <3>1. p \in Procs
        BY DEF Listed, Reach
      <3> QED BY <1>1, <2>2, <3>1 DEF KernelInv, Inv, Core, Members
    <2> QED BY <1>1, <2>1, <2>2 DEF KernelInv, ListedRun
  <1> QED BY <1>1, KernelAlways, PTL

(* process.c:277-285: a broadcast reaches everybody who was there when it   *)
(* was taken and has not left, even when processes start, end and are       *)
(* polled between two of its calls.                                         *)
THEOREM BroadcastReaches == Spec => []BroadcastReachesAll
  <1>1. KernelInv => BroadcastReachesAll
    <2> SUFFICES ASSUME KernelInv, At("broadcast"), After(Arg) = NULL
                 PROVE  due = {}
      BY DEF BroadcastReachesAll
    <2>1. /\ todo[1] = <<"broadcast", Arg>> /\ 1 \in DOMAIN todo
          /\ Arg \in Procs \cup {NULL}
      BY TopIs DEF KernelInv, Inv, Core
    <2>2. /\ due \subseteq Reach(next, From(process_list, Arg))
          /\ Arg \notin due
      BY <2>1 DEF KernelInv, Inv, Core, Dues
    <2>3. next \in Links
      BY DEF KernelInv, TypeOK, Links
    <2>4. CASE Arg = NULL
      BY <2>2, <2>4, ReachNothing DEF From, After
    <2>5. CASE Arg # NULL
      <3>1. Reach(next, Arg) \subseteq {Arg} \cup Reach(next, NULL)
        BY <2>1, <2>3, <2>5, ReachNext DEF After
      <3> QED BY <3>1, <2>2, <2>5, ReachNothing DEF From
    <2> QED BY <2>4, <2>5
  <1> QED BY <1>1, KernelAlways, PTL

(* contiki-sky-main.c:439-442: no request of an interrupt is slept over,    *)
(* wherever between two statements it comes.                                *)
THEOREM SleepsWhenIdle == Spec => []SleepsIdle
  <1>1. KernelInv => SleepsIdle
    BY DEF KernelInv, Inv, Rests, SleepsIdle
  <1> QED BY <1>1, KernelAlways, PTL
=============================================================================
