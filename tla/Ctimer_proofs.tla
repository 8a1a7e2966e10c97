---------------------------- MODULE Ctimer_proofs ----------------------------
(***************************************************************************)
(* Callback timers, for any number of timers, length of the queue and      *)
(* interval, and however often a timer is set while its event waits: when  *)
(* the interrupt of the rtimer comes between the turns of the main loop, a *)
(* timer that is set is waited for.                                        *)
(*                                                                         *)
(* Then only one of main and isr has statements to do.  The inductive      *)
(* invariant, CtimerInv, says which lists of statements there are (Shape)  *)
(* and what each of them may rely on (Adding, Stopping, Walking, Within),  *)
(* besides what the two lists of timers look like (Lists) and that every   *)
(* timer of the ctimer process is waited for (Waited).                     *)
(***************************************************************************)
EXTENDS Ctimer, SequenceTheorems, WellFoundedInduction, TLAPS

USE CtimerAssumption

(***************************************************************************)
(* Lists of statements.                                                    *)
(***************************************************************************)
SetText(c, k) ==
  << <<"set", c, k>>, <<"request">>, <<"find", c>>, <<"remove", c>>,
     <<"append", c>> >>

ResetText(c) ==
  << <<"reset", c>>, <<"request">>, <<"find", c>>, <<"remove", c>>,
     <<"append", c>> >>

RequestText(c) ==
  << <<"request">>, <<"find", c>>, <<"remove", c>>, <<"append", c>> >>

FindText(c) == << <<"find", c>>, <<"remove", c>>, <<"append", c>> >>

PushText(c) ==
  << <<"push", c>>, <<"measure">>, <<"store">>, <<"remove", c>>,
     <<"append", c>> >>

AddMeasure(c) ==
  << <<"measure">>, <<"store">>, <<"remove", c>>, <<"append", c>> >>

AddStore(c) == << <<"store">>, <<"remove", c>>, <<"append", c>> >>

AddRemove(c) == << <<"remove", c>>, <<"append", c>> >>

AppendText(c) == << <<"append", c>> >>

StopText(c) == << <<"stop", c>>, <<"disown", c>>, <<"remove", c>> >>

StopMeasure(c) ==
  << <<"measure">>, <<"store">>, <<"disown", c>>, <<"remove", c>> >>

StopStore(c) == << <<"store">>, <<"disown", c>>, <<"remove", c>> >>

DisownText(c) == << <<"disown", c>>, <<"remove", c>> >>

RemoveText(c) == << <<"remove", c>> >>

VisitText(u) == << <<"visit", u>> >>

ExpireText(t, u) ==
  << <<"expire", t, u>>, <<"measure">>, <<"store">>, <<"visit", NULL>> >>

WalkMeasure == << <<"measure">>, <<"store">>, <<"visit", NULL>> >>

WalkStore == << <<"store">>, <<"visit", NULL>> >>

CallbackText(c) == << <<"callback", c>> >>

IsText(s) ==
  \/ s = << >>
  \/ \E c \in Timers :
       \/ \E k \in 1 .. MaxTime : s = SetText(c, k)
       \/ s = ResetText(c) \/ s = RequestText(c) \/ s = FindText(c)
       \/ s = PushText(c) \/ s = AddMeasure(c) \/ s = AddStore(c)
       \/ s = AddRemove(c) \/ s = AppendText(c)
       \/ s = StopText(c) \/ s = StopMeasure(c) \/ s = StopStore(c)
       \/ s = DisownText(c) \/ s = RemoveText(c)
       \/ s = CallbackText(c)
  \/ \E u \in Timers \cup {NULL} :
       s = VisitText(u) \/ \E t \in Timers : s = ExpireText(t, u)
  \/ s = WalkMeasure \/ s = WalkStore

\* What is to be done first, and what last.
Op(s) == IF s = << >> THEN "nothing" ELSE s[1][1]

Last(s) == s[Len(s)]

(***************************************************************************)
(* The invariant.                                                          *)
(***************************************************************************)

\* The one list of statements there is.
Now == IF todo["isr"] = << >> THEN todo["main"] ELSE todo["isr"]

Shape ==
  /\ DOMAIN todo = Contexts
  /\ todo["main"] = << >> \/ todo["isr"] = << >>
  /\ IsText(Now)

Lists ==
  /\ Linear(enext, timerlist)
  /\ Linear(cnext, ctimer_list) /\ Ends(cnext, ctimer_list)
  /\ \A c \in Elist : own[c]

\* A timer is put on the event timers' list first, and then on the other.
Adding(s) ==
  \A c \in Timers :
    Op(s) # "nothing" /\ Last(s) = <<"append", c>> =>
      /\ Op(s) = "push" =>
           c \notin Elist /\ enext[c] = timerlist /\ own[c]
      /\ Op(s) \in {"measure", "store", "remove", "append"} => c \in Elist
      /\ Op(s) = "append" => c \notin Clist

\* A timer leaves the event timers' list first, and then the other.
Leaving(s, c) ==
  /\ Op(s) \in {"measure", "store", "disown", "remove"}
  /\ Last(s) = <<"remove", c>>

Stopping(s) ==
  \A c \in Timers : Leaving(s, c) /\ Op(s) # "remove" => c \notin Elist

\* A walk over the event timers stands at one of them.
Walking(s) ==
  /\ \A u \in Timers : Op(s) = "visit" /\ s[1][2] = u => u \in Elist
  /\ Op(s) = "expire" =>
       /\ s[1][2] \in Elist \cap Waiting
       /\ s[1][3] = NULL => timerlist = s[1][2]
       /\ s[1][3] # NULL =>
            s[1][3] \in Elist /\ enext[s[1][3]] = s[1][2]

\* A timer goes on only to a time that is an interval.
Within(s) ==
  Op(s) = "reset" => left[s[1][2]] + interval[s[1][2]] <= MaxTime

Waited(s) ==
  \A c \in Clist : c \in Elist \cup Waiting \/ Leaving(s, c)

CtimerInv ==
  /\ TypeOK /\ Shape /\ Lists
  /\ Adding(Now) /\ Stopping(Now) /\ Walking(Now) /\ Within(Now)
  /\ Waited(Now)

-----------------------------------------------------------------------------
(* Lists of statements: their ends, and what \o and Tail make of them.      *)

LEMMA Join12 ==
  ASSUME NEW a, NEW b, NEW c
  PROVE  <<a>> \o <<b, c>> = <<a, b, c>>
<1> DEFINE S == {a, b, c}
           l == <<a>> \o <<b, c>>
<1>1. /\ <<a>> \in Seq(S) /\ <<b, c>> \in Seq(S)
      /\ <<a, b, c>> \in Seq(S)
      /\ Len(<<a>>) = 1 /\ Len(<<b, c>>) = 2 /\ Len(<<a, b, c>>) = 3
  OBVIOUS
<1>2. /\ l \in Seq(S) /\ Len(l) = 3
      /\ l[1] = a /\ l[2] = b /\ l[3] = c
  BY <1>1, ConcatProperties
<1> HIDE DEF l
<1>3. \A i \in 1 .. 3 : l[i] = <<a, b, c>>[i]
  BY <1>2
<1>4. l = <<a, b, c>>
  BY <1>1, <1>2, <1>3, SeqEqual
<1> QED BY <1>4 DEF l

LEMMA Join22 ==
  ASSUME NEW a, NEW b, NEW c, NEW d
  PROVE  <<a, b>> \o <<c, d>> = <<a, b, c, d>>
<1> DEFINE S == {a, b, c, d}
           l == <<a, b>> \o <<c, d>>
<1>1. /\ <<a, b>> \in Seq(S) /\ <<c, d>> \in Seq(S)
      /\ <<a, b, c, d>> \in Seq(S)
      /\ Len(<<a, b>>) = 2 /\ Len(<<c, d>>) = 2 /\ Len(<<a, b, c, d>>) = 4
  OBVIOUS
<1>2. /\ l \in Seq(S) /\ Len(l) = 4
      /\ l[1] = a /\ l[2] = b /\ l[3] = c /\ l[4] = d
  BY <1>1, ConcatProperties
<1> HIDE DEF l
<1>3. \A i \in 1 .. 4 : l[i] = <<a, b, c, d>>[i]
  BY <1>2
<1>4. l = <<a, b, c, d>>
  BY <1>1, <1>2, <1>3, SeqEqual
<1> QED BY <1>4 DEF l

LEMMA Join31 ==
  ASSUME NEW a, NEW b, NEW c, NEW d
  PROVE  <<a, b, c>> \o <<d>> = <<a, b, c, d>>
<1> DEFINE S == {a, b, c, d}
           l == <<a, b, c>> \o <<d>>
<1>1. /\ <<a, b, c>> \in Seq(S) /\ <<d>> \in Seq(S)
      /\ <<a, b, c, d>> \in Seq(S)
      /\ Len(<<a, b, c>>) = 3 /\ Len(<<d>>) = 1 /\ Len(<<a, b, c, d>>) = 4
  OBVIOUS
<1>2. /\ l \in Seq(S) /\ Len(l) = 4
      /\ l[1] = a /\ l[2] = b /\ l[3] = c /\ l[4] = d
  BY <1>1, ConcatProperties
<1> HIDE DEF l
<1>3. \A i \in 1 .. 4 : l[i] = <<a, b, c, d>>[i]
  BY <1>2
<1>4. l = <<a, b, c, d>>
  BY <1>1, <1>2, <1>3, SeqEqual
<1> QED BY <1>4 DEF l

LEMMA Join32 ==
  ASSUME NEW a, NEW b, NEW c, NEW d, NEW e
  PROVE  <<a, b, c>> \o <<d, e>> = <<a, b, c, d, e>>
<1> DEFINE S == {a, b, c, d, e}
           l == <<a, b, c>> \o <<d, e>>
<1>1. /\ <<a, b, c>> \in Seq(S) /\ <<d, e>> \in Seq(S)
      /\ <<a, b, c, d, e>> \in Seq(S)
      /\ Len(<<a, b, c>>) = 3 /\ Len(<<d, e>>) = 2 /\ Len(<<a, b, c, d, e>>) = 5
  OBVIOUS
<1>2. /\ l \in Seq(S) /\ Len(l) = 5
      /\ l[1] = a /\ l[2] = b /\ l[3] = c /\ l[4] = d /\ l[5] = e
  BY <1>1, ConcatProperties
<1> HIDE DEF l
<1>3. \A i \in 1 .. 5 : l[i] = <<a, b, c, d, e>>[i]
  BY <1>2
<1>4. l = <<a, b, c, d, e>>
  BY <1>1, <1>2, <1>3, SeqEqual
<1> QED BY <1>4 DEF l

LEMMA Tails ==
  ASSUME NEW a, NEW b, NEW c, NEW d, NEW e
  PROVE  /\ Tail(<<a>>) = << >> /\ Tail(<<a, b>>) = <<b>>
         /\ Tail(<<a, b, c>>) = <<b, c>>
         /\ Tail(<<a, b, c, d>>) = <<b, c, d>>
         /\ Tail(<<a, b, c, d, e>>) = <<b, c, d, e>>
  OBVIOUS

LEMMA NothingJoined ==
  ASSUME NEW a, NEW b, NEW c, NEW d, NEW e
  PROVE  /\ << >> \o << >> = << >>
         /\ << >> \o <<a>> = <<a>> /\ << >> \o <<a, b>> = <<a, b>>
         /\ << >> \o <<a, b, c>> = <<a, b, c>>
         /\ << >> \o <<a, b, c, d>> = <<a, b, c, d>>
         /\ <<a>> \o << >> = <<a>> /\ <<a, b, c>> \o << >> = <<a, b, c>>
         /\ <<a, b, c, d>> \o << >> = <<a, b, c, d>>
         /\ <<a, b, c, d, e>> \o << >> = <<a, b, c, d, e>>
  OBVIOUS

\* What a list of statements begins and ends with.
Begins(s, op, t) == Op(s) = op /\ s[1][2] = t

LEMMA TextEnds ==
  ASSUME NEW c \in Timers
  PROVE  /\ \A k \in 1 .. MaxTime :
              /\ IsText(SetText(c, k)) /\ Begins(SetText(c, k), "set", c)
              /\ Last(SetText(c, k)) = <<"append", c>>
         /\ IsText(ResetText(c)) /\ Begins(ResetText(c), "reset", c)
         /\ Last(ResetText(c)) = <<"append", c>>
         /\ IsText(RequestText(c)) /\ Op(RequestText(c)) = "request"
         /\ Last(RequestText(c)) = <<"append", c>>
         /\ IsText(FindText(c)) /\ Begins(FindText(c), "find", c)
         /\ Last(FindText(c)) = <<"append", c>>
         /\ IsText(PushText(c)) /\ Begins(PushText(c), "push", c)
         /\ Last(PushText(c)) = <<"append", c>>
         /\ IsText(AddMeasure(c)) /\ Op(AddMeasure(c)) = "measure"
         /\ Last(AddMeasure(c)) = <<"append", c>>
         /\ IsText(AddStore(c)) /\ Op(AddStore(c)) = "store"
         /\ Last(AddStore(c)) = <<"append", c>>
         /\ IsText(AddRemove(c)) /\ Begins(AddRemove(c), "remove", c)
         /\ Last(AddRemove(c)) = <<"append", c>>
         /\ IsText(AppendText(c)) /\ Begins(AppendText(c), "append", c)
         /\ Last(AppendText(c)) = <<"append", c>>
<1>1. /\ \A k \in 1 .. MaxTime : IsText(SetText(c, k))
      /\ IsText(ResetText(c)) /\ IsText(RequestText(c))
      /\ IsText(FindText(c)) /\ IsText(PushText(c))
      /\ IsText(AddMeasure(c)) /\ IsText(AddStore(c))
      /\ IsText(AddRemove(c)) /\ IsText(AppendText(c))
  BY DEF IsText
<1>2. /\ \A k \in 1 .. MaxTime :
           /\ Begins(SetText(c, k), "set", c)
           /\ Last(SetText(c, k)) = <<"append", c>>
      /\ Begins(ResetText(c), "reset", c)
      /\ Last(ResetText(c)) = <<"append", c>>
      /\ Op(RequestText(c)) = "request"
      /\ Last(RequestText(c)) = <<"append", c>>
  BY DEF SetText, ResetText, RequestText, Begins, Op, Last
<1>3. /\ Begins(FindText(c), "find", c) /\ Last(FindText(c)) = <<"append", c>>
      /\ Begins(PushText(c), "push", c) /\ Last(PushText(c)) = <<"append", c>>
      /\ Op(AddMeasure(c)) = "measure"
      /\ Last(AddMeasure(c)) = <<"append", c>>
  BY DEF FindText, PushText, AddMeasure, Begins, Op, Last
<1>4. /\ Op(AddStore(c)) = "store" /\ Last(AddStore(c)) = <<"append", c>>
      /\ Begins(AddRemove(c), "remove", c)
      /\ Last(AddRemove(c)) = <<"append", c>>
      /\ Begins(AppendText(c), "append", c)
      /\ Last(AppendText(c)) = <<"append", c>>
  BY DEF AddStore, AddRemove, AppendText, Begins, Op, Last
<1> QED BY <1>1, <1>2, <1>3, <1>4

LEMMA StopEnds ==
  ASSUME NEW c \in Timers
  PROVE  /\ IsText(StopText(c)) /\ Begins(StopText(c), "stop", c)
         /\ Last(StopText(c)) = <<"remove", c>>
         /\ IsText(StopMeasure(c)) /\ Op(StopMeasure(c)) = "measure"
         /\ Last(StopMeasure(c)) = <<"remove", c>>
         /\ IsText(StopStore(c)) /\ Op(StopStore(c)) = "store"
         /\ Last(StopStore(c)) = <<"remove", c>>
         /\ IsText(DisownText(c)) /\ Begins(DisownText(c), "disown", c)
         /\ Last(DisownText(c)) = <<"remove", c>>
         /\ IsText(RemoveText(c)) /\ Begins(RemoveText(c), "remove", c)
         /\ Last(RemoveText(c)) = <<"remove", c>>
<1>1. /\ IsText(StopText(c)) /\ IsText(StopMeasure(c)) /\ IsText(StopStore(c))
      /\ IsText(DisownText(c)) /\ IsText(RemoveText(c))
  BY DEF IsText
<1>2. /\ Begins(StopText(c), "stop", c) /\ Last(StopText(c)) = <<"remove", c>>
      /\ Op(StopMeasure(c)) = "measure"
      /\ Last(StopMeasure(c)) = <<"remove", c>>
      /\ Op(StopStore(c)) = "store" /\ Last(StopStore(c)) = <<"remove", c>>
  BY DEF StopText, StopMeasure, StopStore, Begins, Op, Last
<1>3. /\ Begins(DisownText(c), "disown", c)
      /\ Last(DisownText(c)) = <<"remove", c>>
      /\ Begins(RemoveText(c), "remove", c)
      /\ Last(RemoveText(c)) = <<"remove", c>>
  BY DEF DisownText, RemoveText, Begins, Op, Last
<1> QED BY <1>1, <1>2, <1>3

LEMMA WalkEnds ==
  ASSUME NEW u \in Timers \cup {NULL}, NEW t \in Timers
  PROVE  /\ IsText(VisitText(u)) /\ Begins(VisitText(u), "visit", u)
         /\ Last(VisitText(u)) = <<"visit", u>>
         /\ IsText(ExpireText(t, u)) /\ Begins(ExpireText(t, u), "expire", t)
         /\ ExpireText(t, u)[1][3] = u
         /\ Last(ExpireText(t, u)) = <<"visit", NULL>>
         /\ IsText(WalkMeasure) /\ Op(WalkMeasure) = "measure"
         /\ Last(WalkMeasure) = <<"visit", NULL>>
         /\ IsText(WalkStore) /\ Op(WalkStore) = "store"
         /\ Last(WalkStore) = <<"visit", NULL>>
         /\ IsText(CallbackText(t)) /\ Begins(CallbackText(t), "callback", t)
         /\ Last(CallbackText(t)) = <<"callback", t>>
         /\ IsText(<< >>) /\ Op(<< >>) = "nothing"
<1>1. /\ IsText(VisitText(u)) /\ IsText(ExpireText(t, u))
      /\ IsText(WalkMeasure) /\ IsText(WalkStore) /\ IsText(CallbackText(t))
      /\ IsText(<< >>)
  BY DEF IsText
<1>2. /\ Begins(VisitText(u), "visit", u) /\ Last(VisitText(u)) = <<"visit", u>>
      /\ Begins(ExpireText(t, u), "expire", t)
      /\ ExpireText(t, u)[1][3] = u
      /\ Last(ExpireText(t, u)) = <<"visit", NULL>>
  BY DEF VisitText, ExpireText, Begins, Op, Last
<1>3. /\ Op(WalkMeasure) = "measure" /\ Last(WalkMeasure) = <<"visit", NULL>>
      /\ Op(WalkStore) = "store" /\ Last(WalkStore) = <<"visit", NULL>>
      /\ Begins(CallbackText(t), "callback", t)
      /\ Last(CallbackText(t)) = <<"callback", t>>
      /\ Op(<< >>) = "nothing"
  BY DEF WalkMeasure, WalkStore, CallbackText, Begins, Op, Last
<1> QED BY <1>1, <1>2, <1>3

\* The first statement tells which list it is, but for update_time.
LEMMA TextIs ==
  ASSUME NEW s, IsText(s), s # << >>
  PROVE  \/ \E c \in Timers :
              \/ \E k \in 1 .. MaxTime : s = SetText(c, k)
              \/ s = ResetText(c) \/ s = RequestText(c) \/ s = FindText(c)
              \/ s = PushText(c) \/ s = AddMeasure(c) \/ s = AddStore(c)
              \/ s = AddRemove(c) \/ s = AppendText(c)
         \/ \E c \in Timers :
              \/ s = StopText(c) \/ s = StopMeasure(c) \/ s = StopStore(c)
              \/ s = DisownText(c) \/ s = RemoveText(c)
         \/ \E u \in Timers \cup {NULL}, t \in Timers :
              \/ s = VisitText(u) \/ s = ExpireText(t, u)
              \/ s = WalkMeasure \/ s = WalkStore \/ s = CallbackText(t)
<1>1. Led \in Timers
  OBVIOUS
<1> QED BY <1>1 DEF IsText

LEMMA WhichText ==
  ASSUME NEW s, IsText(s)
  PROVE  /\ Op(s) = "set" =>
              \E c \in Timers, k \in 1 .. MaxTime : s = SetText(c, k)
         /\ Op(s) = "reset" => \E c \in Timers : s = ResetText(c)
         /\ Op(s) = "request" => \E c \in Timers : s = RequestText(c)
         /\ Op(s) = "find" => \E c \in Timers : s = FindText(c)
         /\ Op(s) = "push" => \E c \in Timers : s = PushText(c)
         /\ Op(s) = "measure" =>
              \/ \E c \in Timers : s = AddMeasure(c) \/ s = StopMeasure(c)
              \/ s = WalkMeasure
         /\ Op(s) = "store" =>
              \/ \E c \in Timers : s = AddStore(c) \/ s = StopStore(c)
              \/ s = WalkStore
         /\ Op(s) = "remove" =>
              \E c \in Timers : s = AddRemove(c) \/ s = RemoveText(c)
         /\ Op(s) = "append" => \E c \in Timers : s = AppendText(c)
         /\ Op(s) = "stop" => \E c \in Timers : s = StopText(c)
         /\ Op(s) = "disown" => \E c \in Timers : s = DisownText(c)
         /\ Op(s) = "visit" => \E u \in Timers \cup {NULL} : s = VisitText(u)
         /\ Op(s) = "expire" =>
              \E t \in Timers, u \in Timers \cup {NULL} : s = ExpireText(t, u)
         /\ Op(s) = "callback" => \E c \in Timers : s = CallbackText(c)
         /\ s # << >> => Op(s) \in Statements
<1>1. CASE s = << >>
  BY <1>1, WalkEnds
<1>2. CASE \E c \in Timers :
             \/ \E k \in 1 .. MaxTime : s = SetText(c, k)
             \/ s = ResetText(c) \/ s = RequestText(c) \/ s = FindText(c)
             \/ s = PushText(c) \/ s = AddMeasure(c) \/ s = AddStore(c)
             \/ s = AddRemove(c) \/ s = AppendText(c)
  BY <1>2, TextEnds DEF Begins, Statements
<1>3. CASE \E c \in Timers :
             \/ s = StopText(c) \/ s = StopMeasure(c) \/ s = StopStore(c)
             \/ s = DisownText(c) \/ s = RemoveText(c)
  BY <1>3, StopEnds DEF Begins, Statements
<1>4. CASE \E u \in Timers \cup {NULL}, t \in Timers :
             \/ s = VisitText(u) \/ s = ExpireText(t, u)
             \/ s = WalkMeasure \/ s = WalkStore \/ s = CallbackText(t)
  BY <1>4, WalkEnds DEF Begins, Statements
<1> QED BY <1>1, <1>2, <1>3, <1>4, TextIs

\* Every statement of a list is one that there is.
LEMMA TextType ==
  ASSUME NEW s, IsText(s)
  PROVE  \A i \in DOMAIN s : s[i][1] \in Statements
<1>1. CASE s = << >>
  BY <1>1
<1>2. CASE \E c \in Timers :
             \/ \E k \in 1 .. MaxTime : s = SetText(c, k)
             \/ s = ResetText(c) \/ s = RequestText(c) \/ s = FindText(c)
             \/ s = PushText(c) \/ s = AddMeasure(c) \/ s = AddStore(c)
             \/ s = AddRemove(c) \/ s = AppendText(c)
  BY <1>2 DEF Statements, SetText, ResetText, RequestText, FindText, PushText,
              AddMeasure, AddStore, AddRemove, AppendText
<1>3. CASE \E c \in Timers :
             \/ s = StopText(c) \/ s = StopMeasure(c) \/ s = StopStore(c)
             \/ s = DisownText(c) \/ s = RemoveText(c)
  BY <1>3 DEF Statements, StopText, StopMeasure, StopStore, DisownText,
              RemoveText
<1>4. CASE \E u \in Timers \cup {NULL}, t \in Timers :
             \/ s = VisitText(u) \/ s = ExpireText(t, u)
             \/ s = WalkMeasure \/ s = WalkStore \/ s = CallbackText(t)
  BY <1>4 DEF Statements, VisitText, ExpireText, WalkMeasure, WalkStore,
              CallbackText
<1> QED BY <1>1, <1>2, <1>3, <1>4, TextIs

\* The operations, written out.
LEMMA Operations ==
  ASSUME NEW c \in Timers
  PROVE  /\ \A k \in 1 .. MaxTime : ctimer_set(c, k) = SetText(c, k)
         /\ ctimer_reset(c) = ResetText(c) /\ ctimer_stop(c) = StopText(c)
<1>1. \A s : (<<s>> \o add_timer(c)) \o list_add(c)
               = <<s, <<"request">>, <<"find", c>>, <<"remove", c>>,
                   <<"append", c>> >>
  <2> SUFFICES ASSUME NEW s
               PROVE  (<<s>> \o add_timer(c)) \o list_add(c)
                        = <<s, <<"request">>, <<"find", c>>, <<"remove", c>>,
                            <<"append", c>> >>
    OBVIOUS
  <2>1. <<s>> \o add_timer(c) = <<s, <<"request">>, <<"find", c>> >>
    BY Join12 DEF add_timer
  <2>2. <<s, <<"request">>, <<"find", c>> >> \o list_add(c)
          = <<s, <<"request">>, <<"find", c>>, <<"remove", c>>,
              <<"append", c>> >>
    BY Join32 DEF list_add
  <2> QED BY <2>1, <2>2
<1> QED BY <1>1 DEF ctimer_set, ctimer_reset, ctimer_stop, SetText, ResetText,
                    StopText

\* What a statement leaves to be done.
LEMMA NextAdd ==
  ASSUME NEW c \in Timers
  PROVE  /\ \A k \in 1 .. MaxTime : << >> \o Tail(SetText(c, k)) = RequestText(c)
         /\ << >> \o Tail(ResetText(c)) = RequestText(c)
         /\ << >> \o Tail(RequestText(c)) = FindText(c)
         /\ update_time \o Tail(FindText(c)) = AddMeasure(c)
         /\ (<< <<"push", c>> >> \o update_time) \o Tail(FindText(c))
              = PushText(c)
         /\ << >> \o Tail(PushText(c)) = AddMeasure(c)
         /\ << >> \o Tail(AddMeasure(c)) = AddStore(c)
         /\ << >> \o Tail(AddStore(c)) = AddRemove(c)
         /\ << >> \o Tail(AddRemove(c)) = AppendText(c)
         /\ << >> \o Tail(AppendText(c)) = << >>
<1>1. /\ \A k \in 1 .. MaxTime : Tail(SetText(c, k)) = RequestText(c)
      /\ Tail(ResetText(c)) = RequestText(c)
      /\ Tail(RequestText(c)) = FindText(c)
      /\ Tail(FindText(c)) = << <<"remove", c>>, <<"append", c>> >>
  BY Tails DEF SetText, ResetText, RequestText, FindText
<1>2. /\ Tail(PushText(c)) = AddMeasure(c) /\ Tail(AddMeasure(c)) = AddStore(c)
      /\ Tail(AddStore(c)) = AddRemove(c) /\ Tail(AddRemove(c)) = AppendText(c)
      /\ Tail(AppendText(c)) = << >>
  BY Tails DEF PushText, AddMeasure, AddStore, AddRemove, AppendText
<1>3. /\ << >> \o RequestText(c) = RequestText(c)
      /\ << >> \o FindText(c) = FindText(c)
      /\ << >> \o AddMeasure(c) = AddMeasure(c)
      /\ << >> \o AddStore(c) = AddStore(c)
      /\ << >> \o AddRemove(c) = AddRemove(c)
      /\ << >> \o AppendText(c) = AppendText(c)
      /\ << >> \o << >> = << >>
  BY NothingJoined DEF RequestText, FindText, AddMeasure, AddStore, AddRemove,
                       AppendText
<1>4. update_time \o << <<"remove", c>>, <<"append", c>> >> = AddMeasure(c)
  BY Join22 DEF update_time, AddMeasure
<1>5. (<< <<"push", c>> >> \o update_time)
        \o << <<"remove", c>>, <<"append", c>> >> = PushText(c)
  <2>1. << <<"push", c>> >> \o update_time
          = << <<"push", c>>, <<"measure">>, <<"store">> >>
    BY Join12 DEF update_time
  <2>2. << <<"push", c>>, <<"measure">>, <<"store">> >>
          \o << <<"remove", c>>, <<"append", c>> >> = PushText(c)
    BY Join32 DEF PushText
  <2> QED BY <2>1, <2>2
<1> QED BY <1>1, <1>2, <1>3, <1>4, <1>5

LEMMA NextStop ==
  ASSUME NEW c \in Timers
  PROVE  /\ update_time \o Tail(StopText(c)) = StopMeasure(c)
         /\ << >> \o Tail(StopText(c)) = DisownText(c)
         /\ << >> \o Tail(StopMeasure(c)) = StopStore(c)
         /\ << >> \o Tail(StopStore(c)) = DisownText(c)
         /\ << >> \o Tail(DisownText(c)) = RemoveText(c)
         /\ << >> \o Tail(RemoveText(c)) = << >>
<1>1. /\ Tail(StopText(c)) = DisownText(c) /\ Tail(StopMeasure(c)) = StopStore(c)
      /\ Tail(StopStore(c)) = DisownText(c)
      /\ Tail(DisownText(c)) = RemoveText(c) /\ Tail(RemoveText(c)) = << >>
  BY Tails DEF StopText, StopMeasure, StopStore, DisownText, RemoveText
<1>2. /\ << >> \o DisownText(c) = DisownText(c)
      /\ << >> \o StopStore(c) = StopStore(c)
      /\ << >> \o RemoveText(c) = RemoveText(c)
      /\ << >> \o << >> = << >>
  BY NothingJoined DEF DisownText, StopStore, RemoveText
<1>3. update_time \o DisownText(c) = StopMeasure(c)
  BY Join22 DEF update_time, DisownText, StopMeasure
<1> QED BY <1>1, <1>2, <1>3

LEMMA NextWalk ==
  ASSUME NEW t \in Timers, NEW u \in Timers \cup {NULL}
  PROVE  /\ << >> \o Tail(VisitText(u)) = << >>
         /\ << <<"visit", t>> >> \o Tail(VisitText(u)) = VisitText(t)
         /\ (<< <<"expire", t, u>> >> \o update_time \o << <<"visit", NULL>> >>)
              \o Tail(VisitText(u)) = ExpireText(t, u)
         /\ << >> \o Tail(ExpireText(t, u)) = WalkMeasure
         /\ << >> \o Tail(WalkMeasure) = WalkStore
         /\ << >> \o Tail(WalkStore) = VisitText(NULL)
<1>1. /\ Tail(VisitText(u)) = << >> /\ Tail(ExpireText(t, u)) = WalkMeasure
      /\ Tail(WalkMeasure) = WalkStore /\ Tail(WalkStore) = VisitText(NULL)
  BY Tails DEF VisitText, ExpireText, WalkMeasure, WalkStore
<1>2. /\ << >> \o WalkMeasure = WalkMeasure /\ << >> \o WalkStore = WalkStore
      /\ << >> \o VisitText(NULL) = VisitText(NULL) /\ << >> \o << >> = << >>
      /\ << <<"visit", t>> >> \o << >> = VisitText(t)
  BY NothingJoined DEF WalkMeasure, WalkStore, VisitText
<1>3. << <<"expire", t, u>> >> \o update_time \o << <<"visit", NULL>> >>
        = ExpireText(t, u)
  <2>1. << <<"expire", t, u>> >> \o update_time
          = << <<"expire", t, u>>, <<"measure">>, <<"store">> >>
    BY Join12 DEF update_time
  <2>2. << <<"expire", t, u>>, <<"measure">>, <<"store">> >>
          \o << <<"visit", NULL>> >> = ExpireText(t, u)
    BY Join31 DEF ExpireText
  <2> QED BY <2>1, <2>2
<1>4. ExpireText(t, u) \o << >> = ExpireText(t, u)
  BY NothingJoined DEF ExpireText
<1> QED BY <1>1, <1>2, <1>3, <1>4

LEMMA NextCall ==
  ASSUME NEW c \in Timers, NEW d \in Timers
  PROVE  /\ << >> \o Tail(CallbackText(c)) = << >>
         /\ \A k \in 1 .. MaxTime :
              ctimer_set(d, k) \o Tail(CallbackText(c)) = SetText(d, k)
         /\ ctimer_reset(d) \o Tail(CallbackText(c)) = ResetText(d)
<1>1. Tail(CallbackText(c)) = << >>
  BY Tails DEF CallbackText
<1>2. /\ << >> \o << >> = << >>
      /\ \A k \in 1 .. MaxTime : SetText(d, k) \o << >> = SetText(d, k)
      /\ ResetText(d) \o << >> = ResetText(d)
  BY NothingJoined DEF SetText, ResetText
<1> QED BY <1>1, <1>2, Operations

-----------------------------------------------------------------------------
(* What a step is to the one list of statements.                           *)

\* The statement that is done is the first one there is.
LEMMA NowIs ==
  ASSUME Shape, NEW x \in Contexts, NEW op, Runs(x, op)
  PROVE  /\ Now = todo[x] /\ Now # << >> /\ Op(Now) = op /\ IsText(Now)
         /\ Arg(x) = Now[1][2]
<1>1. /\ Now = todo[x] /\ todo[x] # << >> /\ todo[x][1][1] = op /\ IsText(Now)
  BY DEF Shape, Now, Runs, Contexts
<1> QED BY <1>1 DEF Op, Arg

LEMMA NowNext ==
  ASSUME Shape, NEW x \in Contexts, NEW op, Runs(x, op), NEW new, Then(x, new),
         IsText(new \o Tail(Now))
  PROVE  /\ Now' = new \o Tail(Now) /\ Shape'
         /\ \A y \in Contexts : \A i \in DOMAIN todo'[y] :
              todo'[y][i][1] \in Statements
<1>1. /\ Now = todo[x] /\ DOMAIN todo = Contexts
      /\ todo[IF x = "main" THEN "isr" ELSE "main"] = << >>
  BY NowIs DEF Shape, Runs, Contexts
<1> DEFINE y == IF x = "main" THEN "isr" ELSE "main"
<1>2. Contexts = {x, y} /\ x # y
  BY DEF Contexts
<1>3. /\ DOMAIN todo' = Contexts
      /\ todo'[x] = new \o Tail(Now) /\ todo'[y] = << >>
  BY <1>1, <1>2 DEF Then
<1>4. Now' = new \o Tail(Now)
  BY <1>2, <1>3 DEF Now, Contexts
<1>5. Shape'
  BY <1>2, <1>3, <1>4 DEF Shape, Contexts
<1>6. \A i \in DOMAIN todo'[x] : todo'[x][i][1] \in Statements
  BY <1>3, TextType
<1>7. \A i \in DOMAIN todo'[y] : todo'[y][i][1] \in Statements
  BY <1>3
<1> QED BY <1>2, <1>4, <1>5, <1>6, <1>7

-----------------------------------------------------------------------------
(* What is known of the two lists, and what of it a step leaves alone.      *)

LEMMA ListTypes ==
  ASSUME TypeOK
  PROVE  /\ enext \in Links /\ timerlist \in Timers \cup {NULL}
         /\ cnext \in Links /\ ctimer_list \in Timers \cup {NULL}
         /\ Elist \in SUBSET Timers /\ timerlist \in Elist \cup {NULL}
         /\ Closed(enext, Elist)
         /\ Clist \in SUBSET Timers /\ ctimer_list \in Clist \cup {NULL}
         /\ Closed(cnext, Clist)
<1>1. /\ enext \in Links /\ timerlist \in Timers \cup {NULL}
      /\ cnext \in Links /\ ctimer_list \in Timers \cup {NULL}
  BY DEF TypeOK, Links
<1> QED BY <1>1, ReachIs DEF Elist, Clist

LEMMA SameElist ==
  ASSUME Lists, UNCHANGED elist
  PROVE  /\ Elist' = Elist /\ timerlist' = timerlist /\ enext' = enext
         /\ own' = own
         /\ (Linear(enext, timerlist) /\ \A c \in Elist : own[c])'
  BY DEF Lists, elist, Elist

LEMMA SameClist ==
  ASSUME Lists, UNCHANGED clist
  PROVE  /\ Clist' = Clist
         /\ (Linear(cnext, ctimer_list) /\ Ends(cnext, ctimer_list))'
  BY DEF Lists, clist, Clist

LEMMA SameLists ==
  ASSUME Lists, UNCHANGED <<elist, clist, queue>>
  PROVE  /\ Elist' = Elist /\ Clist' = Clist /\ Waiting' = Waiting
         /\ timerlist' = timerlist /\ enext' = enext
         /\ Lists'
<1>1. UNCHANGED elist /\ UNCHANGED clist /\ Waiting' = Waiting
  BY DEF Waiting
<1> QED BY <1>1, SameElist, SameClist DEF Lists

-----------------------------------------------------------------------------
(* The statements of the timers themselves.                                *)

\* The later of two times.
LEMMA MaxIs ==
  ASSUME NEW a \in Int, NEW b \in Int
  PROVE  Max({a, b}) = IF a >= b THEN a ELSE b
<1> DEFINE m == IF a >= b THEN a ELSE b
<1>1. \A y \in {a, b} : m \in {a, b} /\ m >= y
  OBVIOUS
<1>2. \A x \in {a, b} : (\A y \in {a, b} : x >= y) => x = m
  OBVIOUS
<1> QED BY <1>1, <1>2 DEF Max

LEMMA LaterIs ==
  ASSUME NEW d \in - MaxLate .. MaxTime
  PROVE  Later(d) \in - MaxLate .. MaxTime /\ Later(d) <= d
<1>1. Later(d) = IF d - 1 >= - MaxLate THEN d - 1 ELSE - MaxLate
  BY MaxIs DEF Later
<1> QED BY <1>1

\* Settings are counted.
LEMMA CountedIs ==
  ASSUME TypeOK, NEW c, Counted(c)
  PROVE  agains' \in Nat
  BY DEF Counted, TypeOK

LEMMA SetStep ==
  ASSUME CtimerInv, NEW x \in Contexts, SetTimer(x)
  PROVE  CtimerInv'
<1>1. PICK c \in Timers, k \in 1 .. MaxTime : Now = SetText(c, k)
  BY NowIs, WhichText DEF CtimerInv, SetTimer
<1>2. /\ Arg(x) = c /\ todo[x][1][3] = k /\ Begins(Now, "set", c)
  <2>1. Now = todo[x] /\ Arg(x) = Now[1][2]
    BY NowIs DEF CtimerInv, SetTimer
  <2>2. Now[1][2] = c /\ Now[1][3] = k
    BY <1>1 DEF SetText
  <2>3. Begins(Now, "set", c)
    BY <1>1, TextEnds
  <2> QED BY <2>1, <2>2, <2>3
<1>3. /\ Now' = RequestText(c) /\ Shape'
      /\ \A y \in Contexts : \A i \in DOMAIN todo'[y] :
           todo'[y][i][1] \in Statements
  BY <1>1, NowNext, NextAdd, TextEnds DEF CtimerInv, SetTimer
<1>4. Op(Now') = "request" /\ Last(Now') = <<"append", c>>
  BY <1>3, TextEnds
<1>5. /\ left' = [left EXCEPT ![c] = k] /\ interval' = [interval EXCEPT ![c] = k]
      /\ UNCHANGED <<elist, clist, clock, polled, queue, turn, posts>>
      /\ agains' \in Nat
  BY <1>2, CountedIs DEF SetTimer, CtimerInv
<1>6. TypeOK'
  <2>1. left' \in [Timers -> - MaxLate .. MaxTime]
    <3>1. left \in [Timers -> - MaxLate .. MaxTime]
      BY DEF CtimerInv, TypeOK
    <3>2. k \in - MaxLate .. MaxTime
      BY DEF CtimerAssumption
    <3> QED BY <1>5, <3>1, <3>2
  <2> QED BY <1>3, <1>5, <2>1 DEF CtimerInv, TypeOK, elist, clist, clock
<1>7. /\ Elist' = Elist /\ Clist' = Clist /\ Waiting' = Waiting /\ Lists'
  BY <1>5, SameLists DEF CtimerInv
<1>8. Adding(Now)' /\ Stopping(Now)' /\ Walking(Now)'
  BY <1>4 DEF Adding, Stopping, Leaving, Walking
<1>9. Within(Now)'
  BY <1>4 DEF Within
<1>10. Waited(Now)'
  <2>1. \A d : ~ Leaving(Now, d)
    BY <1>2 DEF Leaving, Begins
  <2> QED BY <1>7, <2>1 DEF CtimerInv, Waited
<1> QED BY <1>3, <1>6, <1>7, <1>8, <1>9, <1>10 DEF CtimerInv

LEMMA ResetStep ==
  ASSUME CtimerInv, NEW x \in Contexts, ResetTimer(x)
  PROVE  CtimerInv'
<1>1. PICK c \in Timers : Now = ResetText(c)
  BY NowIs, WhichText DEF CtimerInv, ResetTimer
<1>2. Arg(x) = c /\ Begins(Now, "reset", c)
  BY <1>1, NowIs, TextEnds DEF CtimerInv, ResetTimer, Begins
<1>3. /\ Now' = RequestText(c) /\ Shape'
      /\ \A y \in Contexts : \A i \in DOMAIN todo'[y] :
           todo'[y][i][1] \in Statements
  BY <1>1, NowNext, NextAdd, TextEnds DEF CtimerInv, ResetTimer
<1>4. Op(Now') = "request" /\ Last(Now') = <<"append", c>>
  BY <1>3, TextEnds
<1>5. PICK late \in {0, MaxTime} :
        /\ left' = [left EXCEPT ![c] =
                      Max({@ + interval[c] - late, - MaxLate})]
        /\ UNCHANGED <<interval, elist, clist, clock, polled, queue, turn,
                       posts>>
        /\ agains' \in Nat
  BY <1>2, CountedIs DEF ResetTimer, CtimerInv
<1>6. /\ left \in [Timers -> - MaxLate .. MaxTime]
      /\ interval[c] \in 1 .. MaxTime
      /\ left[c] + interval[c] <= MaxTime
  BY <1>2 DEF CtimerInv, TypeOK, Within, Begins
<1>7. TypeOK'
  <2>1. left[c] + interval[c] - late \in Int
    BY <1>6
  <2>2. Max({left[c] + interval[c] - late, - MaxLate})
          \in - MaxLate .. MaxTime
    BY <1>6, <2>1, MaxIs
  <2>3. left' \in [Timers -> - MaxLate .. MaxTime]
    BY <1>5, <1>6, <2>2
  <2> QED BY <1>3, <1>5, <2>3 DEF CtimerInv, TypeOK, elist, clist, clock
<1>8. /\ Elist' = Elist /\ Clist' = Clist /\ Waiting' = Waiting /\ Lists'
  BY <1>5, SameLists DEF CtimerInv
<1>9. Adding(Now)' /\ Stopping(Now)' /\ Walking(Now)'
  BY <1>4 DEF Adding, Stopping, Leaving, Walking
<1>10. Within(Now)'
  BY <1>4 DEF Within
<1>11. Waited(Now)'
  <2>1. \A d : ~ Leaving(Now, d)
    BY <1>2 DEF Leaving, Begins
  <2> QED BY <1>8, <2>1 DEF CtimerInv, Waited
<1> QED BY <1>3, <1>7, <1>8, <1>9, <1>10, <1>11 DEF CtimerInv

LEMMA RequestStep ==
  ASSUME CtimerInv, NEW x \in Contexts, Request(x)
  PROVE  CtimerInv'
<1>1. PICK c \in Timers : Now = RequestText(c)
  BY NowIs, WhichText DEF CtimerInv, Request
<1>2. Op(Now) = "request"
  BY <1>1, TextEnds
<1>3. /\ Now' = FindText(c) /\ Shape'
      /\ \A y \in Contexts : \A i \in DOMAIN todo'[y] :
           todo'[y][i][1] \in Statements
  BY <1>1, NowNext, NextAdd, TextEnds DEF CtimerInv, Request
<1>4. Op(Now') = "find" /\ Last(Now') = <<"append", c>>
  BY <1>3, TextEnds DEF Begins
<1>5. /\ polled' = TRUE
      /\ UNCHANGED <<times, elist, clist, clock, queue, turn, posts, agains>>
  BY DEF Request
<1>6. TypeOK'
  BY <1>3, <1>5 DEF CtimerInv, TypeOK, times, elist, clist, clock
<1>7. /\ Elist' = Elist /\ Clist' = Clist /\ Waiting' = Waiting /\ Lists'
  BY <1>5, SameLists DEF CtimerInv
<1>8. Adding(Now)' /\ Stopping(Now)' /\ Walking(Now)'
  BY <1>4 DEF Adding, Stopping, Leaving, Walking
<1>9. Within(Now)'
  BY <1>4, <1>5, <1>7 DEF CtimerInv, Within, times
<1>10. Waited(Now)'
  BY <1>2, <1>7 DEF CtimerInv, Waited, Leaving
<1> QED BY <1>3, <1>6, <1>7, <1>8, <1>9, <1>10 DEF CtimerInv

-----------------------------------------------------------------------------
(* The statements of the event timers.                                     *)

LEMMA FindStep ==
  ASSUME CtimerInv, NEW x \in Contexts, Find(x)
  PROVE  CtimerInv'
<1>1. PICK c \in Timers : Now = FindText(c)
  BY NowIs, WhichText DEF CtimerInv, Find
<1>2. Arg(x) = c /\ Begins(Now, "find", c) /\ Last(Now) = <<"append", c>>
  BY <1>1, NowIs, TextEnds DEF CtimerInv, Find, Begins
<1>3. UNCHANGED <<times, clist, clock, polled, queue, turn, posts, agains>>
  BY DEF Find
<1>4. \A d \in Clist : d \in Elist \cup Waiting
  BY <1>2 DEF CtimerInv, Waited, Leaving, Begins
<1>5. Runs(x, "find")
  BY DEF Find
<1>6. CASE own[c] /\ c \in Elist
  <2>1. Then(x, update_time) /\ UNCHANGED elist
    BY <1>2, <1>6 DEF Find
  <2>2. /\ Now' = AddMeasure(c) /\ Shape'
        /\ \A y \in Contexts : \A i \in DOMAIN todo'[y] :
             todo'[y][i][1] \in Statements
    BY <1>1, <1>5, <2>1, NowNext, NextAdd, TextEnds DEF CtimerInv
  <2>3. Op(Now') = "measure" /\ Last(Now') = <<"append", c>>
    BY <2>2, TextEnds
  <2>4. TypeOK'
    BY <1>3, <2>1, <2>2 DEF CtimerInv, TypeOK, times, elist, clist, clock
  <2>5. /\ Elist' = Elist /\ Clist' = Clist /\ Waiting' = Waiting /\ Lists'
    BY <1>3, <2>1, SameLists DEF CtimerInv
  <2>6. Adding(Now)' /\ Stopping(Now)' /\ Walking(Now)'
    BY <1>6, <2>3, <2>5 DEF Adding, Stopping, Leaving, Walking
  <2>7. Within(Now)' /\ Waited(Now)'
    BY <1>3, <1>4, <2>3, <2>5 DEF CtimerInv, Within, times, Waited
  <2> QED BY <2>2, <2>4, <2>5, <2>6, <2>7 DEF CtimerInv
<1>7. CASE ~ (own[c] /\ c \in Elist)
  <2>1. /\ own' = [own EXCEPT ![c] = TRUE]
        /\ enext' = [enext EXCEPT ![c] = timerlist]
        /\ Then(x, << <<"push", c>> >> \o update_time)
        /\ UNCHANGED timerlist
    BY <1>2, <1>7 DEF Find
  <2>2. /\ Now' = PushText(c) /\ Shape'
        /\ \A y \in Contexts : \A i \in DOMAIN todo'[y] :
             todo'[y][i][1] \in Statements
    BY <1>1, <1>5, <2>1, NowNext, NextAdd, TextEnds DEF CtimerInv
  <2>3. Op(Now') = "push" /\ Last(Now') = <<"append", c>>
    BY <2>2, TextEnds DEF Begins
  <2>4. TypeOK'
    BY <1>3, <2>1, <2>2 DEF CtimerInv, TypeOK, times, clist, clock
  <2>5. c \notin Elist
    BY <1>7 DEF CtimerInv, Lists
  <2>6. /\ enext \in Links /\ timerlist \in Timers \cup {NULL}
        /\ enext' \in Links /\ enext'[c] = timerlist
        /\ \A q \in Elist : enext'[q] = enext[q]
    BY <2>1, <2>4, <2>5, ListTypes DEF CtimerInv, TypeOK, Links
  <2>7. Elist' = Elist
    BY <2>1, <2>6, SameLinks DEF Elist
  <2>8. Linear(enext', timerlist')
    <3>1. /\ \A p \in Elist : enext[p] # timerlist
          /\ \A p, q \in Elist : enext[p] = enext[q] /\ enext[p] # NULL => p = q
      BY DEF CtimerInv, Lists, Linear, Elist
    <3>2. Reach(enext', timerlist') = Elist
      BY <2>7 DEF Elist
    <3>3. timerlist' = timerlist /\ \A q \in Elist : enext'[q] = enext[q]
      BY <2>1, <2>6
    <3>4. \A q \in Elist : enext'[q] # timerlist'
      BY <3>1, <3>3
    <3>5. \A q, u \in Elist : enext'[q] = enext'[u] /\ enext'[q] # NULL => q = u
      BY <3>1, <3>3
    <3> QED BY <3>2, <3>4, <3>5 DEF Linear
  <2>9. \A d \in Elist : own'[d]
    <3>1. own \in [Timers -> BOOLEAN] /\ \A q \in Elist : own[q]
      BY DEF CtimerInv, Lists, TypeOK
    <3> QED BY <2>1, <2>5, <3>1
  <2>10. Lists' /\ Clist' = Clist /\ Waiting' = Waiting
    BY <1>3, <2>7, <2>8, <2>9, SameClist DEF CtimerInv, Lists, Waiting
  <2>11. Adding(Now)' /\ Stopping(Now)' /\ Walking(Now)'
    <3>1. own'[c]
      BY <2>1 DEF CtimerInv, TypeOK
    <3> QED BY <2>1, <2>3, <2>5, <2>6, <2>7, <3>1
            DEF Adding, Stopping, Leaving, Walking
  <2>12. Within(Now)' /\ Waited(Now)'
    BY <1>3, <1>4, <2>3, <2>7, <2>10 DEF CtimerInv, Within, times, Waited
  <2> QED BY <2>2, <2>4, <2>10, <2>11, <2>12 DEF CtimerInv
<1> QED BY <1>6, <1>7

LEMMA PushStep ==
  ASSUME CtimerInv, NEW x \in Contexts, Push(x)
  PROVE  CtimerInv'
<1>1. PICK c \in Timers : Now = PushText(c)
  BY NowIs, WhichText DEF CtimerInv, Push
<1>2. Arg(x) = c /\ Begins(Now, "push", c) /\ Last(Now) = <<"append", c>>
  BY <1>1, NowIs, TextEnds DEF CtimerInv, Push, Begins
<1>3. /\ timerlist' = c
      /\ UNCHANGED <<times, own, enext, clist, clock, polled, queue, turn,
                     posts, agains>>
  BY <1>2 DEF Push
<1>4. /\ Now' = AddMeasure(c) /\ Shape'
      /\ \A y \in Contexts : \A i \in DOMAIN todo'[y] :
           todo'[y][i][1] \in Statements
  BY <1>1, NowNext, NextAdd, TextEnds DEF CtimerInv, Push
<1>5. Op(Now') = "measure" /\ Last(Now') = <<"append", c>>
  BY <1>4, TextEnds
<1>6. TypeOK'
  BY <1>3, <1>4 DEF CtimerInv, TypeOK, times, clist, clock
<1>7. /\ c \notin Elist /\ enext[c] = timerlist
  BY <1>2 DEF CtimerInv, Adding, Begins
<1>8. enext \in Links /\ timerlist \in Timers \cup {NULL}
  BY ListTypes DEF CtimerInv
<1>9. Elist' = Elist \cup {c} /\ Linear(enext', timerlist')
  <2>1. Linear(enext, timerlist) /\ c \notin Reach(enext, timerlist)
    BY <1>7 DEF CtimerInv, Lists, Elist
  <2>2. /\ Reach(enext, c) = Reach(enext, timerlist) \cup {c}
        /\ Linear(enext, c)
    BY <1>7, <1>8, <2>1, Linked
  <2> QED BY <1>3, <2>2 DEF Elist
<1>10. own[c]
  BY <1>2 DEF CtimerInv, Adding, Begins
<1>11. Lists' /\ Clist' = Clist /\ Waiting' = Waiting
  BY <1>3, <1>9, <1>10, SameClist DEF CtimerInv, Lists, Waiting
<1>12. Adding(Now)' /\ Stopping(Now)' /\ Walking(Now)'
  BY <1>5, <1>9 DEF Adding, Stopping, Leaving, Walking
<1>13. Within(Now)'
  BY <1>3, <1>5, <1>11 DEF CtimerInv, Within, times
<1>14. Waited(Now)'
  <2>1. \A d : ~ Leaving(Now, d)
    BY <1>2 DEF Leaving, Begins
  <2> QED BY <1>9, <1>11, <2>1 DEF CtimerInv, Waited
<1> QED BY <1>4, <1>6, <1>11, <1>12, <1>13, <1>14 DEF CtimerInv

LEMMA NearestType ==
  ASSUME TypeOK, NEW d \in Nearest
  PROVE  d \in - MaxLate .. MaxTime
<1>1. CASE Elist = {}
  BY <1>1 DEF Nearest
<1>2. CASE Elist # {}
  <2> DEFINE D == {left[t] : t \in Elist}
             U == {Unsigned(left[t]) : t \in Elist}
  <2>1. /\ \A t \in Elist : left[t] \in - MaxLate .. MaxTime
        /\ \A e \in - MaxLate .. MaxTime : Unsigned(e) \in Nat
    <3>1. Elist \subseteq Timers
      BY ListTypes
    <3>2. \A e \in - MaxLate .. MaxTime : Unsigned(e) \in Nat
      BY DEF Unsigned, CtimerAssumption
    <3> QED BY <3>1, <3>2 DEF TypeOK
  <2>2. U \subseteq Nat /\ U # {}
    BY <1>2, <2>1
  <2>3. \E m \in U : \A k \in U : <<k, m>> \notin OpToRel(<, Nat)
    BY <2>2, WFMin, NatLessThanWellFounded
  <2>4. \A j, k \in Nat : <<j, k>> \in OpToRel(<, Nat) <=> j < k
    BY DEF OpToRel
  <2>5. \E t \in Elist : \A u \in Elist :
          ~ Unsigned(left[u]) < Unsigned(left[t])
    BY <2>2, <2>3, <2>4
  <2>6. \E e \in D : \A u \in Elist : Unsigned(e) =< Unsigned(left[u])
    BY <2>1, <2>5
  <2>7. Nearest = {CHOOSE e \in D : \A u \in Elist :
                     Unsigned(e) =< Unsigned(left[u])}
    BY <1>2 DEF Nearest
  <2>8. d \in D
    BY <2>6, <2>7
  <2> QED BY <2>1, <2>8
<1> QED BY <1>1, <1>2

\* update_time is the same wherever it is done.
LEMMA MeasureNext ==
  ASSUME Shape, NEW x \in Contexts, Measure(x)
  PROVE  /\ Op(Now) = "measure" /\ Op(Now') = "store"
         /\ Last(Now') = Last(Now)
         /\ Shape'
         /\ \A y \in Contexts : \A i \in DOMAIN todo'[y] :
              todo'[y][i][1] \in Statements
<1>1. Runs(x, "measure") /\ Then(x, << >>)
  BY DEF Measure
<1>2. Op(Now) = "measure" /\ IsText(Now)
  BY <1>1, NowIs
<1>3. CASE \E c \in Timers : Now = AddMeasure(c)
  <2>1. PICK c \in Timers : Now = AddMeasure(c)
    BY <1>3
  <2>2. << >> \o Tail(Now) = AddStore(c)
    BY <2>1, NextAdd
  <2>3. Now' = AddStore(c) /\ Shape'
        /\ \A y \in Contexts : \A i \in DOMAIN todo'[y] :
             todo'[y][i][1] \in Statements
    BY <1>1, <2>2, NowNext, TextEnds
  <2>4. Op(Now') = "store"
    BY <2>3, TextEnds DEF Begins
  <2>5. Last(Now') = Last(Now)
    BY <2>1, <2>3, TextEnds
  <2> QED BY <1>2, <2>3, <2>4, <2>5
<1>4. CASE \E c \in Timers : Now = StopMeasure(c)
  <2>1. PICK c \in Timers : Now = StopMeasure(c)
    BY <1>4
  <2>2. << >> \o Tail(Now) = StopStore(c)
    BY <2>1, NextStop
  <2>3. Now' = StopStore(c) /\ Shape'
        /\ \A y \in Contexts : \A i \in DOMAIN todo'[y] :
             todo'[y][i][1] \in Statements
    BY <1>1, <2>2, NowNext, StopEnds
  <2>4. Op(Now') = "store"
    BY <2>3, StopEnds DEF Begins
  <2>5. Last(Now') = Last(Now)
    BY <2>1, <2>3, StopEnds
  <2> QED BY <1>2, <2>3, <2>4, <2>5
<1>5. CASE Now = WalkMeasure
  <2>1. << >> \o Tail(Now) = WalkStore
    BY <1>5, NextWalk
  <2> QED BY <1>1, <1>2, <1>5, <2>1, NowNext, WalkEnds
<1> QED BY <1>2, <1>3, <1>4, <1>5, WhichText

LEMMA StoreNext ==
  ASSUME Shape, NEW x \in Contexts, Store(x)
  PROVE  /\ Op(Now) = "store"
         /\ \/ Op(Now') \in {"remove", "disown"} /\ Last(Now') = Last(Now)
            \/ Now = WalkStore /\ Now' = VisitText(NULL)
         /\ Shape'
         /\ \A y \in Contexts : \A i \in DOMAIN todo'[y] :
              todo'[y][i][1] \in Statements
<1>1. Runs(x, "store") /\ Then(x, << >>)
  BY DEF Store
<1>2. Op(Now) = "store" /\ IsText(Now)
  BY <1>1, NowIs
<1>3. CASE \E c \in Timers : Now = AddStore(c)
  <2>1. PICK c \in Timers : Now = AddStore(c)
    BY <1>3
  <2>2. << >> \o Tail(Now) = AddRemove(c)
    BY <2>1, NextAdd
  <2>3. Now' = AddRemove(c) /\ Shape'
        /\ \A y \in Contexts : \A i \in DOMAIN todo'[y] :
             todo'[y][i][1] \in Statements
    BY <1>1, <2>2, NowNext, TextEnds
  <2>4. Op(Now') = "remove"
    BY <2>3, TextEnds DEF Begins
  <2>5. Last(Now') = Last(Now)
    BY <2>1, <2>3, TextEnds
  <2> QED BY <1>2, <2>3, <2>4, <2>5
<1>4. CASE \E c \in Timers : Now = StopStore(c)
  <2>1. PICK c \in Timers : Now = StopStore(c)
    BY <1>4
  <2>2. << >> \o Tail(Now) = DisownText(c)
    BY <2>1, NextStop
  <2>3. Now' = DisownText(c) /\ Shape'
        /\ \A y \in Contexts : \A i \in DOMAIN todo'[y] :
             todo'[y][i][1] \in Statements
    BY <1>1, <2>2, NowNext, StopEnds
  <2>4. Op(Now') = "disown"
    BY <2>3, StopEnds DEF Begins
  <2>5. Last(Now') = Last(Now)
    BY <2>1, <2>3, StopEnds
  <2> QED BY <1>2, <2>3, <2>4, <2>5
<1>5. CASE Now = WalkStore
  <2>1. << >> \o Tail(Now) = VisitText(NULL)
    BY <1>5, NextWalk
  <2>2. IsText(VisitText(NULL))
    BY WalkEnds
  <2> QED BY <1>1, <1>2, <1>5, <2>1, <2>2, NowNext
<1> QED BY <1>2, <1>3, <1>4, <1>5, WhichText

LEMMA MeasureStep ==
  ASSUME CtimerInv, NEW x \in Contexts, Measure(x)
  PROVE  CtimerInv'
<1>1. /\ Op(Now) = "measure" /\ Op(Now') = "store" /\ Last(Now') = Last(Now)
      /\ Shape'
      /\ \A y \in Contexts : \A i \in DOMAIN todo'[y] :
           todo'[y][i][1] \in Statements
  BY MeasureNext DEF CtimerInv
<1>2. PICK d \in Nearest : dist' = [dist EXCEPT ![x] = d]
  BY DEF Measure
<1>3. UNCHANGED <<times, elist, clist, next_expiration, polled, queue, turn,
                  posts, agains>>
  BY DEF Measure
<1>4. TypeOK'
  <2>1. dist' \in [Contexts -> - MaxLate .. MaxTime]
    BY <1>2, NearestType DEF CtimerInv, TypeOK
  <2> QED BY <1>1, <1>3, <2>1 DEF CtimerInv, TypeOK, times, elist, clist
<1>5. /\ Elist' = Elist /\ Clist' = Clist /\ Waiting' = Waiting /\ Lists'
  BY <1>3, SameLists DEF CtimerInv
<1>6. Adding(Now)' /\ Stopping(Now)' /\ Walking(Now)'
  BY <1>1, <1>5 DEF CtimerInv, Adding, Stopping, Leaving, Walking
<1>7. Within(Now)' /\ Waited(Now)'
  BY <1>1, <1>3, <1>5 DEF CtimerInv, Within, times, Waited, Leaving
<1> QED BY <1>1, <1>4, <1>5, <1>6, <1>7 DEF CtimerInv

LEMMA StoreStep ==
  ASSUME CtimerInv, NEW x \in Contexts, Store(x)
  PROVE  CtimerInv'
<1>1. /\ Op(Now) = "store"
      /\ \/ Op(Now') \in {"remove", "disown"} /\ Last(Now') = Last(Now)
         \/ Now = WalkStore /\ Now' = VisitText(NULL)
      /\ Shape'
      /\ \A y \in Contexts : \A i \in DOMAIN todo'[y] :
           todo'[y][i][1] \in Statements
  BY StoreNext DEF CtimerInv
<1>2. /\ next_expiration' = dist[x] /\ dist' = [dist EXCEPT ![x] = 0]
      /\ UNCHANGED <<times, elist, clist, polled, queue, turn, posts, agains>>
  BY DEF Store
<1>3. TypeOK'
  <2>1. /\ dist' \in [Contexts -> - MaxLate .. MaxTime]
        /\ next_expiration' \in - MaxLate .. MaxTime
    BY <1>2 DEF CtimerInv, TypeOK
  <2> QED BY <1>1, <1>2, <2>1 DEF CtimerInv, TypeOK, times, elist, clist
<1>4. /\ Elist' = Elist /\ Clist' = Clist /\ Waiting' = Waiting /\ Lists'
  BY <1>2, SameLists DEF CtimerInv
<1>5. CASE Op(Now') \in {"remove", "disown"} /\ Last(Now') = Last(Now)
  <2>1. Adding(Now)' /\ Stopping(Now)' /\ Walking(Now)'
    BY <1>1, <1>4, <1>5 DEF CtimerInv, Adding, Stopping, Leaving, Walking
  <2>2. Within(Now)' /\ Waited(Now)'
    BY <1>1, <1>2, <1>4, <1>5 DEF CtimerInv, Within, times, Waited, Leaving
  <2> QED BY <1>1, <1>3, <1>4, <2>1, <2>2 DEF CtimerInv
<1>6. CASE Now = WalkStore /\ Now' = VisitText(NULL)
  <2>1. /\ Last(Now) = <<"visit", NULL>> /\ Last(Now') = <<"visit", NULL>>
        /\ Begins(Now', "visit", NULL)
    BY <1>6, WalkEnds
  <2>2. Adding(Now)' /\ Stopping(Now)' /\ Walking(Now)'
    BY <2>1 DEF Adding, Stopping, Leaving, Walking, Begins
  <2>3. Within(Now)' /\ Waited(Now)'
    BY <1>1, <1>2, <1>4, <2>1
       DEF CtimerInv, Within, times, Waited, Leaving, Begins
  <2> QED BY <1>1, <1>3, <1>4, <2>2, <2>3 DEF CtimerInv
<1> QED BY <1>1, <1>5, <1>6

\* What etimer_stop does to the list.
LEMMA UnlinkedIs ==
  ASSUME TypeOK, Lists, NEW t \in Elist, Unlinked(t)
  PROVE  /\ enext' \in Links /\ timerlist' \in Timers \cup {NULL}
         /\ Elist' = Elist \ {t} /\ Linear(enext', timerlist')
<1>1. /\ enext \in Links /\ timerlist \in Timers \cup {NULL}
      /\ Elist \in SUBSET Timers /\ t \in Timers
      /\ Linear(enext, timerlist) /\ t \in Reach(enext, timerlist)
  BY ListTypes DEF Lists, Elist
<1>2. enext' \in Links
  BY <1>1 DEF Unlinked, Links
<1>3. \A q \in Elist \ {t} :
        enext'[q] = IF enext[q] = t THEN enext[t] ELSE enext[q]
  BY <1>1 DEF Unlinked
<1>4. timerlist' = IF timerlist = t THEN enext[t] ELSE timerlist
  BY DEF Unlinked
<1>5. /\ timerlist' \in Timers \cup {NULL}
      /\ Reach(enext', timerlist') = Reach(enext, timerlist) \ {t}
      /\ Linear(enext', timerlist')
  BY <1>1, <1>2, <1>3, <1>4, CutOut DEF Elist
<1> QED BY <1>2, <1>5 DEF Elist

\* What list_remove does to the list.
LEMMA RemovedIs ==
  ASSUME TypeOK, Lists, NEW c \in Timers, Removed(c)
  PROVE  /\ cnext' \in Links /\ ctimer_list' \in Timers \cup {NULL}
         /\ Clist' = Clist \ {c} /\ Linear(cnext', ctimer_list')
         /\ Ends(cnext', ctimer_list')
<1>1. /\ cnext \in Links /\ ctimer_list \in Timers \cup {NULL}
      /\ Clist \in SUBSET Timers /\ Closed(cnext, Clist)
      /\ ctimer_list \in Clist \cup {NULL}
      /\ Linear(cnext, ctimer_list) /\ Ends(cnext, ctimer_list)
  BY ListTypes DEF Lists
<1>2. cnext' \in Links
  BY <1>1 DEF Removed, Links
<1>3. ctimer_list' = IF ctimer_list = c THEN cnext[c] ELSE ctimer_list
  BY DEF Removed
<1>4. \A q \in Clist \ {c} :
        cnext'[q] = IF cnext[q] = c THEN cnext[c] ELSE cnext[q]
  BY <1>1 DEF Removed
<1>5. CASE c \in Clist
  <2>1. /\ ctimer_list' \in Timers \cup {NULL}
        /\ Reach(cnext', ctimer_list') = Reach(cnext, ctimer_list) \ {c}
        /\ Linear(cnext', ctimer_list') /\ Ends(cnext', ctimer_list')
    BY <1>1, <1>2, <1>3, <1>4, <1>5, CutOut DEF Clist
  <2> QED BY <1>2, <2>1 DEF Clist
<1>6. CASE c \notin Clist
  <2>1. ctimer_list' = ctimer_list
    BY <1>1, <1>3, <1>6
  <2>2. \A q \in Clist : cnext'[q] = cnext[q]
    BY <1>1, <1>4, <1>6 DEF Closed
  <2>3. Reach(cnext', ctimer_list) = Reach(cnext, ctimer_list)
    BY <1>1, <1>2, <2>2, SameLinks DEF Clist
  <2>4. Clist' = Clist
    BY <2>1, <2>3 DEF Clist
  <2>5. /\ \A p \in Clist : cnext'[p] # ctimer_list
        /\ \A p, q \in Clist : cnext'[p] = cnext'[q] /\ cnext'[p] # NULL
                                 => p = q
    BY <1>1, <2>2 DEF Linear, Clist
  <2>6. Linear(cnext', ctimer_list)
    BY <2>3, <2>5 DEF Linear, Clist
  <2>7. Ends(cnext', ctimer_list)
    BY <1>1, <2>2, <2>3 DEF Ends, Clist
  <2> QED BY <1>1, <1>2, <1>6, <2>1, <2>4, <2>6, <2>7
<1> QED BY <1>5, <1>6

LEMMA StopStep ==
  ASSUME CtimerInv, NEW x \in Contexts, Stop(x)
  PROVE  CtimerInv'
<1>1. PICK c \in Timers : Now = StopText(c)
  BY NowIs, WhichText DEF CtimerInv, Stop
<1>2. Arg(x) = c /\ Begins(Now, "stop", c) /\ Last(Now) = <<"remove", c>>
  BY <1>1, NowIs, StopEnds DEF CtimerInv, Stop, Begins
<1>3. /\ Runs(x, "stop")
      /\ UNCHANGED <<times, own, clist, clock, polled, queue, turn, posts, agains>>
  BY DEF Stop
<1>4. \A d \in Clist : d \in Elist \cup Waiting
  BY <1>2 DEF CtimerInv, Waited, Leaving, Begins
<1>5. TypeOK /\ Lists
  BY DEF CtimerInv
<1>6. /\ Op(Now') \in {"measure", "disown"} /\ Last(Now') = <<"remove", c>>
      /\ Shape'
      /\ \A y \in Contexts : \A i \in DOMAIN todo'[y] :
           todo'[y][i][1] \in Statements
  <2>1. CASE c \in Elist
    <3>1. Then(x, update_time)
      BY <1>2, <2>1 DEF Stop
    <3>2. update_time \o Tail(Now) = StopMeasure(c)
      BY <1>1, NextStop
    <3> QED BY <1>3, <3>1, <3>2, NowNext, StopEnds DEF CtimerInv
  <2>2. CASE c \notin Elist
    <3>1. Then(x, << >>)
      BY <1>2, <2>2 DEF Stop
    <3>2. << >> \o Tail(Now) = DisownText(c)
      BY <1>1, NextStop
    <3>3. /\ Op(DisownText(c)) = "disown"
          /\ Last(DisownText(c)) = <<"remove", c>>
      BY StopEnds DEF Begins
    <3> QED BY <1>3, <3>1, <3>2, <3>3, NowNext, StopEnds DEF CtimerInv
  <2> QED BY <2>1, <2>2
<1>7. /\ enext' \in Links /\ timerlist' \in Timers \cup {NULL}
      /\ Elist' = Elist \ {c} /\ Linear(enext', timerlist')
  <2>1. CASE c \in Elist
    <3>1. Unlinked(c)
      BY <1>2, <2>1 DEF Stop
    <3> QED BY <1>5, <2>1, <3>1, UnlinkedIs
  <2>2. CASE c \notin Elist
    <3>1. timerlist' = timerlist /\ enext' = enext
      BY <1>2, <2>2 DEF Stop
    <3> QED BY <1>5, <2>2, <3>1, ListTypes DEF Lists, Elist
  <2> QED BY <2>1, <2>2
<1>8. TypeOK'
  BY <1>3, <1>6, <1>7 DEF CtimerInv, TypeOK, times, clist, clock, Links
<1>9. Lists' /\ Clist' = Clist /\ Waiting' = Waiting
  BY <1>3, <1>5, <1>7, SameClist DEF Lists, Waiting
<1>10. Adding(Now)' /\ Stopping(Now)' /\ Walking(Now)'
  BY <1>6, <1>7 DEF Adding, Stopping, Leaving, Walking
<1>11. Within(Now)'
  BY <1>3, <1>6, <1>9 DEF CtimerInv, Within, times
<1>12. Waited(Now)'
  BY <1>4, <1>6, <1>7, <1>9 DEF Waited, Leaving
<1> QED BY <1>6, <1>8, <1>9, <1>10, <1>11, <1>12 DEF CtimerInv

LEMMA DisownStep ==
  ASSUME CtimerInv, NEW x \in Contexts, Disown(x)
  PROVE  CtimerInv'
<1>1. PICK c \in Timers : Now = DisownText(c)
  BY NowIs, WhichText DEF CtimerInv, Disown
<1>2. Arg(x) = c /\ Begins(Now, "disown", c) /\ Last(Now) = <<"remove", c>>
  BY <1>1, NowIs, StopEnds DEF CtimerInv, Disown, Begins
<1>3. /\ own' = [own EXCEPT ![c] = FALSE]
      /\ UNCHANGED <<times, timerlist, enext, clist, clock, polled, queue,
                     turn, posts, agains>>
  BY <1>2 DEF Disown
<1>4. /\ Now' = RemoveText(c) /\ Shape'
      /\ \A y \in Contexts : \A i \in DOMAIN todo'[y] :
           todo'[y][i][1] \in Statements
  BY <1>1, NowNext, NextStop, StopEnds DEF CtimerInv, Disown
<1>5. Op(Now') = "remove" /\ Last(Now') = <<"remove", c>>
  BY <1>4, StopEnds DEF Begins
<1>6. TypeOK'
  <2>1. own' \in [Timers -> BOOLEAN]
    BY <1>3 DEF CtimerInv, TypeOK
  <2> QED BY <1>3, <1>4, <2>1 DEF CtimerInv, TypeOK, times, clist, clock
<1>7. c \notin Elist
  BY <1>2 DEF CtimerInv, Stopping, Leaving, Begins
<1>8. Lists' /\ Elist' = Elist /\ Clist' = Clist /\ Waiting' = Waiting
  <2>1. \A d \in Elist : own'[d]
    BY <1>3, <1>7 DEF CtimerInv, Lists, TypeOK
  <2>2. Elist' = Elist /\ Linear(enext', timerlist')
    BY <1>3 DEF CtimerInv, Lists, Elist
  <2> QED BY <1>3, <2>1, <2>2, SameClist DEF CtimerInv, Lists, Waiting
<1>9. Adding(Now)' /\ Stopping(Now)' /\ Walking(Now)'
  BY <1>5 DEF Adding, Stopping, Leaving, Walking
<1>10. Within(Now)'
  BY <1>3, <1>5, <1>8 DEF CtimerInv, Within, times
<1>11. Waited(Now)'
  BY <1>2, <1>5, <1>8 DEF CtimerInv, Waited, Leaving
<1> QED BY <1>4, <1>6, <1>8, <1>9, <1>10, <1>11 DEF CtimerInv

LEMMA RemoveStep ==
  ASSUME CtimerInv, NEW x \in Contexts, Remove(x)
  PROVE  CtimerInv'
<1>1. Runs(x, "remove") /\ Then(x, << >>)
  BY DEF Remove
<1>2. PICK c \in Timers : Now = AddRemove(c) \/ Now = RemoveText(c)
  BY <1>1, NowIs, WhichText DEF CtimerInv
<1>3. Arg(x) = c /\ Begins(Now, "remove", c)
  BY <1>1, <1>2, NowIs, TextEnds, StopEnds DEF CtimerInv, Begins
<1>4. /\ Removed(c)
      /\ UNCHANGED <<times, elist, clock, polled, queue, turn, posts, agains>>
  BY <1>3 DEF Remove
<1>5. /\ cnext' \in Links /\ ctimer_list' \in Timers \cup {NULL}
      /\ Clist' = Clist \ {c} /\ Linear(cnext', ctimer_list')
      /\ Ends(cnext', ctimer_list')
  BY <1>4, RemovedIs DEF CtimerInv
<1>6. Lists' /\ Elist' = Elist /\ Waiting' = Waiting
  BY <1>4, <1>5, SameElist DEF CtimerInv, Lists, Waiting
<1>7. CASE Now = AddRemove(c)
  <2>1. /\ Now' = AppendText(c) /\ Shape'
        /\ \A y \in Contexts : \A i \in DOMAIN todo'[y] :
             todo'[y][i][1] \in Statements
    BY <1>1, <1>7, NowNext, NextAdd, TextEnds DEF CtimerInv
  <2>2. /\ Op(Now') = "append" /\ Last(Now') = <<"append", c>>
        /\ Last(Now) = <<"append", c>>
    BY <1>7, <2>1, TextEnds DEF Begins
  <2>3. TypeOK'
    BY <1>4, <1>5, <2>1 DEF CtimerInv, TypeOK, times, elist, clock, Links
  <2>4. c \in Elist
    BY <1>3, <2>2 DEF CtimerInv, Adding, Begins
  <2>5. Adding(Now)' /\ Stopping(Now)' /\ Walking(Now)'
    BY <1>5, <1>6, <2>2, <2>4 DEF Adding, Stopping, Leaving, Walking
  <2>6. Within(Now)' /\ Waited(Now)'
    BY <1>4, <1>5, <1>6, <2>2 DEF CtimerInv, Within, times, Waited, Leaving
  <2> QED BY <1>6, <2>1, <2>3, <2>5, <2>6 DEF CtimerInv
<1>8. CASE Now = RemoveText(c)
  <2>1. /\ Now' = << >> /\ Shape'
        /\ \A y \in Contexts : \A i \in DOMAIN todo'[y] :
             todo'[y][i][1] \in Statements
    BY <1>1, <1>8, NowNext, NextStop, WalkEnds DEF CtimerInv
  <2>2. Op(Now') = "nothing" /\ Last(Now) = <<"remove", c>>
    BY <1>8, <2>1, WalkEnds, StopEnds
  <2>3. TypeOK'
    BY <1>4, <1>5, <2>1 DEF CtimerInv, TypeOK, times, elist, clock, Links
  <2>4. Adding(Now)' /\ Stopping(Now)' /\ Walking(Now)'
    BY <2>2 DEF Adding, Stopping, Leaving, Walking
  <2>5. Within(Now)' /\ Waited(Now)'
    BY <1>4, <1>5, <1>6, <2>2 DEF CtimerInv, Within, times, Waited, Leaving
  <2> QED BY <1>6, <2>1, <2>3, <2>4, <2>5 DEF CtimerInv
<1> QED BY <1>2, <1>7, <1>8

LEMMA AppendStep ==
  ASSUME CtimerInv, NEW x \in Contexts, Append_(x)
  PROVE  CtimerInv'
<1>1. PICK c \in Timers : Now = AppendText(c)
  BY NowIs, WhichText DEF CtimerInv, Append_
<1>2. Arg(x) = c /\ Begins(Now, "append", c) /\ Last(Now) = <<"append", c>>
  BY <1>1, NowIs, TextEnds DEF CtimerInv, Append_, Begins
<1>3. /\ Now' = << >> /\ Shape'
      /\ \A y \in Contexts : \A i \in DOMAIN todo'[y] :
           todo'[y][i][1] \in Statements
  BY <1>1, NowNext, NextAdd, WalkEnds DEF CtimerInv, Append_
<1>4. Op(Now') = "nothing"
  BY <1>3, WalkEnds
<1>5. UNCHANGED <<times, elist, clock, polled, queue, turn, posts, agains>>
  BY DEF Append_
<1>6. c \in Elist /\ c \notin Clist
  BY <1>2 DEF CtimerInv, Adding, Begins
<1>7. /\ cnext \in Links /\ ctimer_list \in Timers \cup {NULL}
      /\ Clist \in SUBSET Timers /\ ctimer_list \in Clist \cup {NULL}
      /\ Linear(cnext, ctimer_list) /\ Ends(cnext, ctimer_list)
  BY ListTypes DEF CtimerInv, Lists
<1>8. /\ cnext' \in Links /\ cnext'[c] = NULL
      /\ \A q \in Clist : cnext'[q] = IF cnext[q] = NULL THEN c ELSE cnext[q]
      /\ ctimer_list' = IF ctimer_list = NULL THEN c ELSE ctimer_list
  <2>1. CASE ctimer_list = NULL
    <3>1. Clist = {}
      BY <2>1, ReachNothing DEF Clist
    <3>2. ctimer_list' = c /\ cnext' = [cnext EXCEPT ![c] = NULL]
      BY <1>2, <2>1 DEF Append_
    <3> QED BY <1>7, <2>1, <3>1, <3>2 DEF Links
  <2>2. CASE ctimer_list # NULL
    <3>1. /\ cnext' = [u \in Timers |->
                         IF u = c THEN NULL
                         ELSE IF u \in Clist /\ cnext[u] = NULL THEN c
                         ELSE cnext[u]]
          /\ UNCHANGED ctimer_list
      BY <1>2, <2>2 DEF Append_
    <3> QED BY <1>6, <1>7, <2>2, <3>1 DEF Links
  <2> QED BY <2>1, <2>2
<1>9. /\ Clist' = Clist \cup {c} /\ Linear(cnext', ctimer_list')
      /\ Ends(cnext', ctimer_list')
  BY <1>6, <1>7, <1>8, Appends DEF Clist
<1>10. TypeOK'
  BY <1>3, <1>5, <1>7, <1>8 DEF CtimerInv, TypeOK, times, elist, clock, Links
<1>11. Lists' /\ Elist' = Elist /\ Waiting' = Waiting
  BY <1>5, <1>9, SameElist DEF CtimerInv, Lists, Waiting
<1>12. Adding(Now)' /\ Stopping(Now)' /\ Walking(Now)'
  BY <1>4 DEF Adding, Stopping, Leaving, Walking
<1>13. Within(Now)'
  BY <1>4, <1>5, <1>11 DEF CtimerInv, Within, times
<1>14. Waited(Now)'
  <2>1. \A d : ~ Leaving(Now, d)
    BY <1>2 DEF Leaving, Begins
  <2> QED BY <1>6, <1>9, <1>11, <2>1 DEF CtimerInv, Waited
<1> QED BY <1>3, <1>10, <1>11, <1>12, <1>13, <1>14 DEF CtimerInv

-----------------------------------------------------------------------------
(* The queue of events.                                                    *)

LEMMA AppendWaits ==
  ASSUME NEW S, queue \in Seq(S), NEW e \in S, queue' = Append(queue, e)
  PROVE  /\ queue' \in Seq(S) /\ Len(queue') = Len(queue) + 1
         /\ Waiting' = Waiting \cup {e}
<1>1. /\ queue' \in Seq(S) /\ Len(queue') = Len(queue) + 1
      /\ \A i \in 1 .. Len(queue) : queue'[i] = queue[i]
      /\ queue'[Len(queue) + 1] = e
  BY AppendProperties
<1>2. /\ Len(queue) \in Nat /\ DOMAIN queue = 1 .. Len(queue)
      /\ DOMAIN queue' = 1 .. Len(queue) + 1
  BY <1>1
<1>3. \A i \in DOMAIN queue' : i \in DOMAIN queue \/ i = Len(queue) + 1
  BY <1>2
<1>4. DOMAIN queue \subseteq DOMAIN queue' /\ Len(queue) + 1 \in DOMAIN queue'
  BY <1>2
<1> QED BY <1>1, <1>2, <1>3, <1>4 DEF Waiting, Range

LEMMA TailWaits ==
  ASSUME NEW S, queue \in Seq(S), queue # << >>, queue' = Tail(queue)
  PROVE  /\ queue' \in Seq(S) /\ Len(queue') = Len(queue) - 1
         /\ Head(queue) \in Waiting
         /\ Waiting' \subseteq Waiting
         /\ Waiting \subseteq Waiting' \cup {Head(queue)}
<1>1. /\ queue' \in Seq(S) /\ Len(queue') = Len(queue) - 1
      /\ \A i \in 1 .. Len(queue') : queue'[i] = queue[i + 1]
  BY HeadTailProperties
<1>2. /\ Len(queue) \in Nat \ {0} /\ DOMAIN queue = 1 .. Len(queue)
      /\ DOMAIN queue' = 1 .. Len(queue) - 1 /\ Head(queue) = queue[1]
  BY <1>1, EmptySeq
<1>3. Head(queue) \in Waiting
  BY <1>2 DEF Waiting, Range
<1>4. Waiting' \subseteq Waiting
  <2>1. \A i \in DOMAIN queue' : i + 1 \in DOMAIN queue
    BY <1>2
  <2>2. \A i \in DOMAIN queue' : queue'[i] = queue[i + 1]
    BY <1>1, <1>2
  <2> QED BY <2>1, <2>2 DEF Waiting, Range
<1>5. Waiting \subseteq Waiting' \cup {Head(queue)}
  <2>1. \A i \in DOMAIN queue :
          i = 1 \/ (i - 1 \in DOMAIN queue' /\ (i - 1) + 1 = i)
    BY <1>2
  <2>2. \A i \in DOMAIN queue' : queue'[i] = queue[i + 1]
    BY <1>1, <1>2
  <2>3. \A i \in DOMAIN queue :
          queue[i] = Head(queue) \/ \E j \in DOMAIN queue' : queue'[j] = queue[i]
    BY <1>2, <2>1, <2>2
  <2> QED BY <2>3 DEF Waiting, Range
<1> QED BY <1>1, <1>3, <1>4, <1>5

-----------------------------------------------------------------------------
(* The event timer process, and the callbacks.                             *)

\* What the walk meets after u.
LEMMA VisitIs ==
  ASSUME CtimerInv, Visit
  PROVE  \E u \in Timers \cup {NULL} :
           LET t == IF u = NULL THEN timerlist ELSE enext[u]
           IN  /\ Now = VisitText(u) /\ Arg("main") = u
               /\ t \in Elist \cup {NULL}
<1>1. Runs("main", "visit") /\ "main" \in Contexts
  BY DEF Visit, Contexts
<1>2. PICK u \in Timers \cup {NULL} : Now = VisitText(u)
  BY <1>1, NowIs, WhichText DEF CtimerInv
<1>3. Begins(Now, "visit", u)
  BY <1>2, WalkEnds
<1>4. Arg("main") = u
  BY <1>1, <1>3, NowIs DEF CtimerInv, Begins
<1>5. u # NULL => u \in Elist
  BY <1>3 DEF CtimerInv, Walking, Begins
<1>6. timerlist \in Elist \cup {NULL} /\ Closed(enext, Elist)
  BY ListTypes DEF CtimerInv
<1>7. (IF u = NULL THEN timerlist ELSE enext[u]) \in Elist \cup {NULL}
  BY <1>5, <1>6 DEF Closed
<1> QED BY <1>2, <1>4, <1>7

\* The walk goes on to t, or ends.
LEMMA VisitOn ==
  ASSUME CtimerInv, NEW t \in Elist \cup {NULL}, NEW u \in Timers \cup {NULL},
         Now = VisitText(u), Runs("main", "visit"),
         Then("main", IF t = NULL THEN << >> ELSE << <<"visit", t>> >>),
         UNCHANGED <<times, elist, clist, clock, turn, posts, agains, queue>>,
         polled' \in BOOLEAN
  PROVE  CtimerInv'
<1>1. "main" \in Contexts /\ Elist \in SUBSET Timers
  BY ListTypes DEF Contexts, CtimerInv
<1>2. /\ Shape'
      /\ \A y \in Contexts : \A i \in DOMAIN todo'[y] :
           todo'[y][i][1] \in Statements
      /\ Now' = IF t = NULL THEN << >> ELSE VisitText(t)
  <2>1. CASE t = NULL
    <3>1. << >> \o Tail(Now) = << >>
      BY NextWalk
    <3>2. IsText(<< >>) /\ Then("main", << >>)
      BY <2>1, WalkEnds
    <3> QED BY <1>1, <2>1, <3>1, <3>2, NowNext DEF CtimerInv
  <2>2. CASE t # NULL
    <3>1. t \in Timers
      BY <1>1, <2>2
    <3>2. << <<"visit", t>> >> \o Tail(Now) = VisitText(t)
      BY <3>1, NextWalk
    <3>3. IsText(VisitText(t)) /\ Then("main", << <<"visit", t>> >>)
      BY <2>2, <3>1, WalkEnds
    <3> QED BY <1>1, <2>2, <3>2, <3>3, NowNext DEF CtimerInv
  <2> QED BY <2>1, <2>2
<1>3. /\ Op(Now') \in {"nothing", "visit"}
      /\ Op(Now') = "visit" =>
           /\ Now'[1][2] = t /\ t \in Elist
           /\ Last(Now') = <<"visit", t>>
  <2>1. CASE t = NULL
    BY <1>2, <2>1, WalkEnds
  <2>2. CASE t # NULL
    BY <1>1, <1>2, <2>2, WalkEnds DEF Begins
  <2> QED BY <2>1, <2>2
<1>4. TypeOK'
  BY <1>2 DEF CtimerInv, TypeOK, times, elist, clist, clock
<1>5. /\ Elist' = Elist /\ Clist' = Clist /\ Waiting' = Waiting /\ Lists'
  BY SameLists DEF CtimerInv
<1>6. Adding(Now)' /\ Stopping(Now)' /\ Walking(Now)'
  BY <1>3, <1>5 DEF Adding, Stopping, Leaving, Walking
<1>7. Within(Now)'
  BY <1>3, <1>5 DEF CtimerInv, Within, times
<1>8. Waited(Now)'
  <2>1. \A d : ~ Leaving(Now, d)
    BY WalkEnds DEF Leaving, Begins
  <2> QED BY <1>5, <2>1 DEF CtimerInv, Waited
<1> QED BY <1>2, <1>4, <1>5, <1>6, <1>7, <1>8 DEF CtimerInv

LEMMA VisitStep ==
  ASSUME CtimerInv, Visit
  PROVE  CtimerInv'
<1>1. PICK u \in Timers \cup {NULL} :
        LET t == IF u = NULL THEN timerlist ELSE enext[u]
        IN  /\ Now = VisitText(u) /\ Arg("main") = u
            /\ t \in Elist \cup {NULL}
  BY VisitIs
<1> DEFINE t == IF u = NULL THEN timerlist ELSE enext[u]
<1>2. /\ Runs("main", "visit")
      /\ UNCHANGED <<times, elist, clist, clock, turn, posts, agains>>
  BY DEF Visit
<1>3. \/ /\ Then("main", IF t = NULL THEN << >> ELSE << <<"visit", t>> >>)
         /\ UNCHANGED <<queue, polled>>
      \/ /\ Expired(t) /\ Posted(t) /\ UNCHANGED polled
         /\ Then("main", << <<"expire", t, u>> >> \o update_time
                             \o << <<"visit", NULL>> >>)
      \/ /\ Then("main", IF t = NULL THEN << >> ELSE << <<"visit", t>> >>)
         /\ polled' = TRUE /\ UNCHANGED queue
  BY <1>1 DEF Visit
<1>4. Now = VisitText(u) /\ t \in Elist \cup {NULL}
  BY <1>1
<1>5. polled \in BOOLEAN /\ Elist \in SUBSET Timers
  BY ListTypes DEF CtimerInv, TypeOK
<1>7. ASSUME t # NULL, t \in Elist, Expired(t), Posted(t), UNCHANGED polled,
             Then("main", << <<"expire", t, u>> >> \o update_time
                             \o << <<"visit", NULL>> >>)
      PROVE  CtimerInv'
  <2>1. /\ u = NULL => timerlist = t
        /\ u # NULL => u \in Elist /\ enext[u] = t
    <3>1. Begins(Now, "visit", u)
      BY <1>4, WalkEnds
    <3> QED BY <3>1 DEF CtimerInv, Walking, Begins
  <2> HIDE DEF t
  <2>2. t \in Timers /\ left[t] <= 0 /\ Room /\ queue' = Append(queue, t)
    BY <1>5, <1>7 DEF Expired, Posted
  <2>3. /\ Now' = ExpireText(t, u) /\ Shape'
        /\ \A y \in Contexts : \A i \in DOMAIN todo'[y] :
             todo'[y][i][1] \in Statements
    <3>1. (<< <<"expire", t, u>> >> \o update_time \o << <<"visit", NULL>> >>)
            \o Tail(Now) = ExpireText(t, u)
      BY <1>4, <2>2, NextWalk
    <3>2. IsText(ExpireText(t, u)) /\ "main" \in Contexts
      BY <2>2, WalkEnds DEF Contexts
    <3> QED BY <1>2, <1>7, <3>1, <3>2, NowNext DEF CtimerInv
  <2>4. /\ Op(Now') = "expire" /\ Now'[1][2] = t /\ Now'[1][3] = u
        /\ Last(Now') = <<"visit", NULL>>
    BY <2>2, <2>3, WalkEnds DEF Begins
  <2>5. /\ queue' \in Seq(Timers \cup {Other}) /\ Len(queue') <= NumEvents
        /\ Waiting' = Waiting \cup {t}
    <3>1. queue \in Seq(Timers \cup {Other}) /\ t \in Timers \cup {Other}
      BY <2>2 DEF CtimerInv, TypeOK
    <3>2. Len(queue) \in Nat /\ Len(queue) < NumEvents
      BY <2>2, <3>1 DEF Room
    <3> QED BY <2>2, <3>1, <3>2, AppendWaits
  <2>6. TypeOK'
    BY <1>2, <1>7, <2>3, <2>5 DEF CtimerInv, TypeOK, times, elist, clist, clock
  <2>7. /\ Elist' = Elist /\ Clist' = Clist /\ Lists'
        /\ timerlist' = timerlist /\ enext' = enext
    BY <1>2, SameElist, SameClist DEF CtimerInv, Lists
  <2>8. Adding(Now)' /\ Stopping(Now)'
    BY <2>4 DEF Adding, Stopping, Leaving
  <2>9. Walking(Now)'
    BY <1>7, <2>1, <2>4, <2>5, <2>7 DEF Walking
  <2>10. Within(Now)'
    BY <1>2, <2>2, <2>4, <2>5 DEF CtimerInv, Within, times
  <2>11. Waited(Now)'
    <3>1. \A d : ~ Leaving(Now, d)
      BY <1>4, WalkEnds DEF Leaving, Begins
    <3> QED BY <2>5, <2>7, <3>1 DEF CtimerInv, Waited
  <2> QED BY <2>3, <2>6, <2>7, <2>8, <2>9, <2>10, <2>11 DEF CtimerInv
<1>8. Expired(t) => t # NULL
  BY DEF Expired
<1> HIDE DEF t
<1> QED BY <1>2, <1>3, <1>4, <1>5, <1>7, <1>8, VisitOn

LEMMA ExpireStep ==
  ASSUME CtimerInv, Expire
  PROVE  CtimerInv'
<1>1. /\ Runs("main", "expire") /\ "main" \in Contexts /\ Then("main", << >>)
      /\ UNCHANGED <<times, clist, clock, polled, queue, turn, posts, agains>>
  BY DEF Expire, Contexts
<1>2. PICK t \in Timers, u \in Timers \cup {NULL} : Now = ExpireText(t, u)
  BY <1>1, NowIs, WhichText DEF CtimerInv
<1>3. /\ Begins(Now, "expire", t) /\ Now[1][3] = u
      /\ Last(Now) = <<"visit", NULL>>
  BY <1>2, WalkEnds
<1>4. Arg("main") = t /\ todo["main"][1][3] = u
  BY <1>1, <1>3, NowIs DEF CtimerInv, Begins
<1>5. /\ t \in Elist \cap Waiting
      /\ u = NULL => timerlist = t
      /\ u # NULL => u \in Elist /\ enext[u] = t
  BY <1>3 DEF CtimerInv, Walking, Begins
<1>6. /\ own' = [own EXCEPT ![t] = FALSE]
      /\ IF u = NULL
         THEN timerlist' = enext[t] /\ enext' = [enext EXCEPT ![t] = NULL]
         ELSE /\ enext' = [enext EXCEPT ![u] = enext[t], ![t] = NULL]
              /\ UNCHANGED timerlist
  BY <1>4 DEF Expire
<1>7. /\ enext \in Links /\ timerlist \in Timers \cup {NULL}
      /\ Elist \in SUBSET Timers /\ Linear(enext, timerlist)
      /\ t \in Reach(enext, timerlist)
  BY <1>5, ListTypes DEF CtimerInv, Lists, Elist
<1>8. /\ Now' = WalkMeasure /\ Shape'
      /\ \A y \in Contexts : \A i \in DOMAIN todo'[y] :
           todo'[y][i][1] \in Statements
  <2>1. << >> \o Tail(Now) = WalkMeasure
    BY <1>2, NextWalk
  <2> QED BY <1>1, <2>1, NowNext, WalkEnds DEF CtimerInv
<1>9. Op(Now') = "measure" /\ Last(Now') = <<"visit", NULL>>
  BY <1>8, WalkEnds
<1>10. enext' \in Links /\ timerlist' \in Timers \cup {NULL}
  BY <1>6, <1>7 DEF Links
<1>11. \A q \in Elist \ {t} :
         enext'[q] = IF enext[q] = t THEN enext[t] ELSE enext[q]
  <2>1. CASE u = NULL
    <3>1. \A q \in Elist : enext[q] # t
      BY <1>5, <1>7, <2>1 DEF Linear, Elist
    <3> QED BY <1>6, <1>7, <2>1, <3>1 DEF Links
  <2>2. CASE u # NULL
    <3>1. \A q \in Elist : enext[q] = t => q = u
      <4>1. t # NULL
        BY <1>7
      <4> QED BY <1>5, <1>7, <2>2, <4>1 DEF Linear, Elist
    <3> QED BY <1>5, <1>6, <1>7, <2>2, <3>1 DEF Links
  <2> QED BY <2>1, <2>2
<1>12. timerlist' = IF timerlist = t THEN enext[t] ELSE timerlist
  <2>1. CASE u = NULL
    BY <1>5, <1>6, <2>1
  <2>2. CASE u # NULL
    <3>1. timerlist # t
      BY <1>5, <1>7, <2>2 DEF Linear, Elist
    <3> QED BY <1>6, <2>2, <3>1
  <2> QED BY <2>1, <2>2
<1>13. Elist' = Elist \ {t} /\ Linear(enext', timerlist')
  <2>1. \A q \in Reach(enext, timerlist) \ {t} :
          enext'[q] = IF enext[q] = t THEN enext[t] ELSE enext[q]
    BY <1>11 DEF Elist
  <2>2. /\ Reach(enext', timerlist') = Reach(enext, timerlist) \ {t}
        /\ Linear(enext', timerlist')
    BY <1>7, <1>10, <1>12, <2>1, CutOut
  <2> QED BY <2>2 DEF Elist
<1>14. TypeOK'
  <2>1. own' \in [Timers -> BOOLEAN]
    BY <1>6 DEF CtimerInv, TypeOK
  <2> QED BY <1>1, <1>8, <1>10, <2>1
          DEF CtimerInv, TypeOK, times, clist, clock, Links
<1>15. Lists' /\ Clist' = Clist /\ Waiting' = Waiting
  <2>1. \A d \in Elist \ {t} : own'[d]
    BY <1>6, <1>7 DEF CtimerInv, Lists, TypeOK
  <2> QED BY <1>1, <1>13, <2>1, SameClist DEF CtimerInv, Lists, Waiting
<1>16. Adding(Now)' /\ Stopping(Now)' /\ Walking(Now)'
  BY <1>9 DEF Adding, Stopping, Leaving, Walking
<1>17. Within(Now)'
  BY <1>1, <1>9, <1>15 DEF CtimerInv, Within, times
<1>18. Waited(Now)'
  <2>1. \A d : ~ Leaving(Now, d)
    BY <1>3 DEF Leaving, Begins
  <2> QED BY <1>5, <1>13, <1>15, <2>1 DEF CtimerInv, Waited
<1> QED BY <1>8, <1>14, <1>15, <1>16, <1>17, <1>18 DEF CtimerInv

\* Main and isr begin an operation, or main ends its last.
LEMMA NowBegins ==
  ASSUME NEW x \in Contexts, DOMAIN todo = Contexts, NEW s, IsText(s),
         todo' = [todo EXCEPT ![x] = s],
         \A y \in Contexts \ {x} : todo[y] = << >>
  PROVE  /\ Now' = s /\ Shape'
         /\ \A y \in Contexts : \A i \in DOMAIN todo'[y] :
              todo'[y][i][1] \in Statements
<1> DEFINE y == IF x = "main" THEN "isr" ELSE "main"
<1>1. Contexts = {x, y} /\ x # y
  BY DEF Contexts
<1>2. DOMAIN todo' = Contexts /\ todo'[x] = s /\ todo'[y] = << >>
  BY <1>1
<1>3. Now' = s
  BY <1>1, <1>2 DEF Now, Contexts
<1>4. Shape'
  BY <1>1, <1>2, <1>3 DEF Shape, Contexts
<1>5. \A i \in DOMAIN todo'[x] : todo'[x][i][1] \in Statements
  BY <1>2, TextType
<1> QED BY <1>1, <1>2, <1>3, <1>4, <1>5

\* What there is to do when an operation begins.
Beginning(s) ==
  \/ s = << >>
  \/ \E c \in Timers :
       \/ s = StopText(c)
       \/ \E k \in 1 .. MaxTime : s = SetText(c, k)
       \/ left[c] + interval[c] <= MaxTime /\ s = ResetText(c)
  \/ s = VisitText(NULL)

LEMMA BeginsText ==
  ASSUME NEW s, Beginning(s) PROVE IsText(s)
  BY TextEnds, StopEnds, WalkEnds DEF Beginning

LEMMA BeginStep ==
  ASSUME CtimerInv, NEW s, Beginning(s),
         Now' = s, Shape',
         \A y \in Contexts : \A i \in DOMAIN todo'[y] :
           todo'[y][i][1] \in Statements,
         \A d : ~ Leaving(Now, d),
         UNCHANGED <<times, elist, clist, clock, queue>>,
         polled' \in BOOLEAN, turn' \in {"others", "poll", "event"},
         posts' \in 0 .. MaxPosts, agains' \in Nat
  PROVE  CtimerInv'
<1>1. /\ IsText(s) /\ Op(s) \in {"nothing", "stop", "set", "reset", "visit"}
      /\ Op(s) = "reset" => left[s[1][2]] + interval[s[1][2]] <= MaxTime
      /\ Op(s) = "visit" => s[1][2] = NULL
  <2>1. CASE s = << >>
    BY <2>1, WalkEnds
  <2>2. CASE \E c \in Timers : s = StopText(c)
    BY <2>2, StopEnds DEF Begins
  <2>3. CASE \E c \in Timers, k \in 1 .. MaxTime : s = SetText(c, k)
    BY <2>3, TextEnds DEF Begins
  <2>4. CASE s = VisitText(NULL)
    BY <2>4, WalkEnds DEF Begins
  <2>5. CASE \E c \in Timers :
               left[c] + interval[c] <= MaxTime /\ s = ResetText(c)
    BY <2>5, TextEnds DEF Begins
  <2> QED BY <2>1, <2>2, <2>3, <2>4, <2>5 DEF Beginning
<1>2. TypeOK'
  BY DEF CtimerInv, TypeOK, times, elist, clist, clock
<1>3. Elist' = Elist /\ Clist' = Clist /\ Waiting' = Waiting /\ Lists'
  BY SameLists DEF CtimerInv
<1>4. Adding(Now)' /\ Stopping(Now)' /\ Walking(Now)'
  BY <1>1 DEF Adding, Stopping, Leaving, Walking
<1>5. Within(Now)'
  BY <1>1, <1>3 DEF CtimerInv, Within, times
<1>6. Waited(Now)'
  BY <1>3 DEF CtimerInv, Waited
<1> QED BY <1>2, <1>3, <1>4, <1>5, <1>6 DEF CtimerInv

LEMMA CallbackStep ==
  ASSUME CtimerInv, Callback
  PROVE  CtimerInv'
<1>1. /\ Runs("main", "callback") /\ "main" \in Contexts
      /\ UNCHANGED <<times, elist, clist, clock, polled, queue, turn, posts, agains>>
  BY DEF Callback, Contexts
<1>2. PICK c \in Timers : Now = CallbackText(c)
  BY <1>1, NowIs, WhichText DEF CtimerInv
<1>3. Begins(Now, "callback", c)
  BY <1>2, WalkEnds
<1>4. Arg("main") = c
  BY <1>1, <1>3, NowIs DEF CtimerInv, Begins
<1>5. \A d : ~ Leaving(Now, d)
  BY <1>3 DEF Leaving, Begins
<1>7. \E new : /\ Then("main", new) /\ Beginning(new \o Tail(Now))
  <2>1. CASE Then("main", << >>)
    <3>1. << >> \o Tail(Now) = << >>
      BY <1>2, NextCall
    <3> QED BY <2>1, <3>1 DEF Beginning
  <2>2. CASE /\ left[c] + interval[c] <= MaxTime
             /\ Then("main", ctimer_reset(c))
    <3>1. ctimer_reset(c) \o Tail(Now) = ResetText(c)
      BY <1>2, NextCall
    <3>2. Beginning(ResetText(c))
      BY <2>2 DEF Beginning
    <3> QED BY <2>2, <3>1, <3>2
  <2>3. CASE \E ops \in Sets : Then("main", ops)
    <3>1. PICK d \in Timers, k \in 1 .. MaxTime :
            Then("main", ctimer_set(d, k))
      BY <2>3 DEF Sets
    <3>2. ctimer_set(d, k) \o Tail(Now) = SetText(d, k)
      BY <1>2, NextCall
    <3>3. Beginning(SetText(d, k))
      BY DEF Beginning
    <3> QED BY <3>1, <3>2, <3>3
  <2> QED BY <1>4, <2>1, <2>2, <2>3 DEF Callback
<1>8. PICK new : Then("main", new) /\ Beginning(new \o Tail(Now))
  BY <1>7
<1>9. IsText(new \o Tail(Now))
  BY <1>8, BeginsText
<1>10. /\ Now' = new \o Tail(Now) /\ Shape'
       /\ \A y \in Contexts : \A i \in DOMAIN todo'[y] :
            todo'[y][i][1] \in Statements
  BY <1>1, <1>8, <1>9, NowNext DEF CtimerInv
<1>11. /\ polled' \in BOOLEAN /\ turn' \in {"others", "poll", "event"}
       /\ posts' \in 0 .. MaxPosts /\ agains' \in Nat
  BY <1>1 DEF CtimerInv, TypeOK
<1>12. UNCHANGED <<times, elist, clist, clock, queue>>
  BY <1>1
<1> DEFINE s == new \o Tail(Now)
<1> HIDE DEF s
<1>13. Beginning(s) /\ Now' = s
  BY <1>8, <1>10 DEF s
<1> QED BY <1>5, <1>10, <1>11, <1>12, <1>13, BeginStep

-----------------------------------------------------------------------------
(* The turns of the main loop.                                             *)

\* At rest there is nothing to do.
LEMMA AtRestIs ==
  ASSUME CtimerInv, todo["main"] = << >>, todo["isr"] = << >>
  PROVE  /\ Now = << >> /\ DOMAIN todo = Contexts
         /\ \A d : ~ Leaving(Now, d)
         /\ \A y \in Contexts : todo[y] = << >>
<1>1. Now = << >> /\ DOMAIN todo = Contexts
  BY DEF CtimerInv, Shape, Now
<1>2. \A d : ~ Leaving(Now, d)
  BY <1>1, WalkEnds DEF Leaving
<1> QED BY <1>1, <1>2 DEF Contexts

LEMMA SameTodo ==
  ASSUME CtimerInv, UNCHANGED todo
  PROVE  /\ Now' = Now /\ Shape'
         /\ \A y \in Contexts : \A i \in DOMAIN todo'[y] :
              todo'[y][i][1] \in Statements
  BY DEF CtimerInv, TypeOK, Shape, Now

LEMMA OthersStep ==
  ASSUME CtimerInv, Others
  PROVE  CtimerInv'
<1>1. /\ Now = << >> /\ DOMAIN todo = Contexts /\ \A d : ~ Leaving(Now, d)
      /\ \A y \in Contexts : todo[y] = << >>
      /\ "main" \in Contexts
  BY AtRestIs DEF Others, Turn, Contexts
<1>2. /\ turn' \in {"others", "poll", "event"}
      /\ UNCHANGED <<times, elist, clist, clock, polled, agains>>
  BY DEF Others, Turn
<1>3. CASE /\ \E ops \in {<< >>} \cup {ctimer_stop(c) : c \in Timers} \cup Sets :
                todo' = [todo EXCEPT !["main"] = ops]
           /\ UNCHANGED <<queue, posts>>
  <2>1. PICK ops \in {<< >>} \cup {ctimer_stop(c) : c \in Timers} \cup Sets :
          todo' = [todo EXCEPT !["main"] = ops]
    BY <1>3
  <2>2. Beginning(ops)
    <3>2. CASE ops = << >>
      BY <3>2 DEF Beginning
    <3>3. CASE \E c \in Timers : ops = ctimer_stop(c)
      BY <3>3, Operations DEF Beginning
    <3>4. CASE ops \in Sets
      <4>1. PICK d \in Timers, k \in 1 .. MaxTime :
              ops = ctimer_set(d, k)
        BY <3>4 DEF Sets
      <4>2. ops = SetText(d, k)
        BY <4>1, Operations
      <4> QED BY <4>1, <4>2 DEF Beginning
    <3> QED BY <2>1, <3>2, <3>3, <3>4
  <2>3. IsText(ops)
    BY <2>2, BeginsText
  <2>4. /\ Now' = ops /\ Shape'
        /\ \A y \in Contexts : \A i \in DOMAIN todo'[y] :
             todo'[y][i][1] \in Statements
    BY <1>1, <2>1, <2>3, NowBegins
  <2>5. polled' \in BOOLEAN /\ posts' \in 0 .. MaxPosts /\ agains' \in Nat
    BY <1>2, <1>3 DEF CtimerInv, TypeOK
  <2>6. UNCHANGED <<times, elist, clist, clock, queue>>
    BY <1>2, <1>3
  <2> QED BY <1>1, <1>2, <2>2, <2>4, <2>5, <2>6, BeginStep
<1>4. CASE /\ posts < MaxPosts /\ posts' = posts + 1
           /\ queue' = IF Room THEN Append(queue, Other) ELSE queue
           /\ UNCHANGED todo
  <2>1. /\ Now' = Now /\ Shape'
        /\ \A y \in Contexts : \A i \in DOMAIN todo'[y] :
             todo'[y][i][1] \in Statements
    BY <1>4, SameTodo
  <2>2. /\ queue' \in Seq(Timers \cup {Other}) /\ Len(queue') <= NumEvents
        /\ Waiting \subseteq Waiting' /\ Waiting' \subseteq Waiting \cup {Other}
    <3>1. queue \in Seq(Timers \cup {Other}) /\ Other \in Timers \cup {Other}
          /\ Len(queue) <= NumEvents
      BY DEF CtimerInv, TypeOK
    <3>2. CASE Room
      <4>1. queue' = Append(queue, Other) /\ Len(queue) < NumEvents
        BY <1>4, <3>2 DEF Room
      <4> QED BY <3>1, <4>1, AppendWaits
    <3>3. CASE ~ Room
      BY <1>4, <3>1, <3>3 DEF Waiting
    <3> QED BY <3>2, <3>3
  <2>3. TypeOK'
    <3>1. posts' \in 0 .. MaxPosts
      <4>1. posts \in 0 .. MaxPosts /\ MaxPosts \in Nat
        BY DEF CtimerInv, TypeOK, CtimerAssumption
      <4>2. posts' = posts \/ (posts < MaxPosts /\ posts' = posts + 1)
        BY <1>4
      <4> QED BY <4>1, <4>2
    <3> QED BY <1>2, <2>1, <2>2, <3>1
            DEF CtimerInv, TypeOK, times, elist, clist, clock
  <2>4. Elist' = Elist /\ Clist' = Clist /\ Lists'
    BY <1>2, SameElist, SameClist DEF CtimerInv, Lists
  <2>5. Op(Now) = "nothing"
    BY <1>1, WalkEnds
  <2>6. Adding(Now)' /\ Stopping(Now)' /\ Walking(Now)'
    BY <2>1, <2>5 DEF Adding, Stopping, Leaving, Walking
  <2>7. Within(Now)'
    <3>1. Other \notin Timers
      BY DEF Other
    <3> QED BY <1>2, <2>1, <2>2, <2>5, <3>1 DEF CtimerInv, Within, times
  <2>8. Waited(Now)'
    BY <1>1, <2>2, <2>4 DEF CtimerInv, Waited
  <2> QED BY <2>1, <2>3, <2>4, <2>6, <2>7, <2>8 DEF CtimerInv
<1> QED BY <1>3, <1>4 DEF Others

LEMMA PollStep ==
  ASSUME CtimerInv, Poll
  PROVE  CtimerInv'
<1>1. /\ Now = << >> /\ DOMAIN todo = Contexts /\ \A d : ~ Leaving(Now, d)
      /\ \A y \in Contexts : todo[y] = << >>
      /\ "main" \in Contexts
  BY AtRestIs DEF Poll, Turn, Contexts
<1>2. /\ turn' \in {"others", "poll", "event"} /\ polled' \in BOOLEAN
      /\ UNCHANGED <<times, elist, clist, clock, queue, posts, agains>>
  BY DEF Poll, Turn
<1> DEFINE s == IF polled THEN << <<"visit", NULL>> >> ELSE << >>
<1>3. Beginning(s)
  BY DEF Beginning, VisitText
<1>4. todo' = [todo EXCEPT !["main"] = s]
  BY DEF Poll
<1> HIDE DEF s
<1>5. IsText(s)
  BY <1>3, BeginsText
<1>6. /\ Now' = s /\ Shape'
      /\ \A y \in Contexts : \A i \in DOMAIN todo'[y] :
           todo'[y][i][1] \in Statements
  BY <1>1, <1>4, <1>5, NowBegins
<1>7. posts' \in 0 .. MaxPosts /\ agains' \in Nat /\ UNCHANGED <<times, elist, clist, clock, queue>>
  BY <1>2 DEF CtimerInv, TypeOK
<1> QED BY <1>1, <1>2, <1>3, <1>6, <1>7, BeginStep

LEMMA EventStep ==
  ASSUME CtimerInv, Event
  PROVE  CtimerInv'
<1>1. /\ Now = << >> /\ DOMAIN todo = Contexts /\ \A d : ~ Leaving(Now, d)
      /\ \A y \in Contexts : todo[y] = << >>
      /\ "main" \in Contexts
  BY AtRestIs DEF Event, Turn, Contexts
<1>2. /\ turn' \in {"others", "poll", "event"} /\ UNCHANGED <<posts, agains, polled>>
      /\ UNCHANGED <<times, elist, clock>>
  BY DEF Event, Turn
<1>3. polled' \in BOOLEAN /\ posts' \in 0 .. MaxPosts /\ agains' \in Nat
  BY <1>2 DEF CtimerInv, TypeOK
<1>4. Op(Now) = "nothing"
  BY <1>1, WalkEnds
<1>5. CASE queue = << >>
  <2>1. UNCHANGED <<clist, queue, todo>>
    BY <1>5 DEF Event
  <2>2. /\ Now' = Now /\ Shape'
        /\ \A y \in Contexts : \A i \in DOMAIN todo'[y] :
             todo'[y][i][1] \in Statements
    BY <2>1, SameTodo
  <2>3. Beginning(Now)
    BY <1>1 DEF Beginning
  <2>4. UNCHANGED <<times, elist, clist, clock, queue>>
    BY <1>2, <2>1
  <2> QED BY <1>1, <1>2, <1>3, <2>2, <2>3, <2>4, BeginStep
<1>6. CASE queue # << >>
  <2> DEFINE e == Head(queue)
  <2>1. /\ queue' = Tail(queue)
        /\ IF e \in Clist
           THEN /\ Removed(e)
                /\ todo' = [todo EXCEPT !["main"] = << <<"callback", e>> >>]
           ELSE UNCHANGED <<clist, todo>>
    BY <1>6 DEF Event
  <2>2. /\ queue' \in Seq(Timers \cup {Other}) /\ Len(queue') <= NumEvents
        /\ e \in Waiting /\ Waiting' \subseteq Waiting
        /\ Waiting \subseteq Waiting' \cup {e}
    <3>1. queue \in Seq(Timers \cup {Other}) /\ Len(queue) <= NumEvents
      BY DEF CtimerInv, TypeOK
    <3>2. Len(queue) \in Nat /\ NumEvents \in Nat
      BY <3>1
    <3>3. /\ queue' \in Seq(Timers \cup {Other})
          /\ Len(queue') = Len(queue) - 1 /\ e \in Waiting
          /\ Waiting' \subseteq Waiting /\ Waiting \subseteq Waiting' \cup {e}
      BY <1>6, <2>1, <3>1, TailWaits
    <3> QED BY <3>1, <3>2, <3>3
  <2> HIDE DEF e
  <2>3. Elist' = Elist
    BY <1>2, SameElist DEF CtimerInv
  <2>4. CASE e \in Clist
    <3>1. /\ Removed(e)
          /\ todo' = [todo EXCEPT !["main"] = CallbackText(e)]
      BY <2>1, <2>4 DEF CallbackText
    <3>2. e \in Timers
      BY <2>4, ListTypes DEF CtimerInv
    <3>3. /\ cnext' \in Links /\ ctimer_list' \in Timers \cup {NULL}
          /\ Clist' = Clist \ {e} /\ Linear(cnext', ctimer_list')
          /\ Ends(cnext', ctimer_list')
      BY <3>1, <3>2, RemovedIs DEF CtimerInv
    <3>4. IsText(CallbackText(e))
      BY <3>2, WalkEnds
    <3>5. /\ Now' = CallbackText(e) /\ Shape'
          /\ \A y \in Contexts : \A i \in DOMAIN todo'[y] :
               todo'[y][i][1] \in Statements
      BY <1>1, <3>1, <3>4, NowBegins
    <3>6. Op(Now') = "callback" /\ Now'[1][2] = e
      BY <3>2, <3>5, WalkEnds DEF Begins
    <3>7. TypeOK'
      BY <1>2, <1>3, <2>2, <3>3, <3>5
         DEF CtimerInv, TypeOK, times, elist, clock, Links
    <3>8. Lists'
      BY <1>2, <3>3, SameElist DEF CtimerInv, Lists
    <3>9. Adding(Now)' /\ Stopping(Now)' /\ Walking(Now)'
      BY <3>6 DEF Adding, Stopping, Leaving, Walking
    <3>10. Within(Now)'
      BY <1>2, <2>2, <3>2, <3>6 DEF CtimerInv, Within, times
    <3>11. Waited(Now)'
      BY <1>1, <2>2, <2>3, <3>3 DEF CtimerInv, Waited
    <3> QED BY <3>5, <3>7, <3>8, <3>9, <3>10, <3>11 DEF CtimerInv
  <2>5. CASE e \notin Clist
    <3>1. UNCHANGED <<clist, todo>>
      BY <2>1, <2>5
    <3>2. /\ Now' = Now /\ Shape'
          /\ \A y \in Contexts : \A i \in DOMAIN todo'[y] :
               todo'[y][i][1] \in Statements
      BY <3>1, SameTodo
    <3>3. TypeOK'
      BY <1>2, <1>3, <2>2, <3>1, <3>2
         DEF CtimerInv, TypeOK, times, elist, clist, clock
    <3>4. Lists' /\ Clist' = Clist
      BY <1>2, <3>1, SameElist, SameClist DEF CtimerInv, Lists
    <3>5. Adding(Now)' /\ Stopping(Now)' /\ Walking(Now)'
      BY <1>4, <3>2 DEF Adding, Stopping, Leaving, Walking
    <3>6. Within(Now)'
      BY <1>2, <1>4, <2>2, <3>2 DEF CtimerInv, Within, times
    <3>7. Waited(Now)'
      BY <1>1, <2>2, <2>3, <2>5, <3>4 DEF CtimerInv, Waited
    <3> QED BY <3>2, <3>3, <3>4, <3>5, <3>6, <3>7 DEF CtimerInv
  <2> QED BY <2>4, <2>5
<1> QED BY <1>5, <1>6

-----------------------------------------------------------------------------
(* The interrupts.                                                         *)

LEMMA SlotStep ==
  ASSUME Preempt = "between", CtimerInv, Slot
  PROVE  CtimerInv'
<1>1. /\ Now = << >> /\ DOMAIN todo = Contexts /\ \A d : ~ Leaving(Now, d)
      /\ \A y \in Contexts : todo[y] = << >>
      /\ "isr" \in Contexts
  BY AtRestIs DEF Slot, Contexts
<1>2. /\ UNCHANGED <<times, elist, clist, clock, queue>>
      /\ UNCHANGED <<polled, turn, posts, agains>>
  BY DEF Slot
<1>3. PICK k \in 1 .. MaxTime :
        todo' = [todo EXCEPT !["isr"] = ctimer_set(Led, k)]
  BY DEF Slot
<1>4. ctimer_set(Led, k) = SetText(Led, k)
  BY Operations
<1>6. Beginning(SetText(Led, k))
  BY CtimerAssumption DEF Beginning
<1>7. IsText(SetText(Led, k))
  BY <1>6, BeginsText
<1>8. /\ Now' = SetText(Led, k) /\ Shape'
      /\ \A y \in Contexts : \A i \in DOMAIN todo'[y] :
           todo'[y][i][1] \in Statements
  BY <1>1, <1>3, <1>4, <1>7, NowBegins
<1>9. /\ polled' \in BOOLEAN /\ turn' \in {"others", "poll", "event"}
      /\ posts' \in 0 .. MaxPosts /\ agains' \in Nat
  BY <1>2 DEF CtimerInv, TypeOK
<1> QED BY <1>1, <1>2, <1>6, <1>8, <1>9, BeginStep

LEMMA TickStep ==
  ASSUME CtimerInv, Tick
  PROVE  CtimerInv'
<1>1. UNCHANGED <<interval, elist, clist, queue, todo, turn, posts, agains>>
  BY DEF Tick
<1>2. /\ Now' = Now /\ Shape'
      /\ \A y \in Contexts : \A i \in DOMAIN todo'[y] :
           todo'[y][i][1] \in Statements
  BY <1>1, SameTodo
<1>3. Elist' = Elist /\ Clist' = Clist /\ Waiting' = Waiting /\ Lists'
      /\ timerlist' = timerlist /\ enext' = enext /\ own' = own
  BY <1>1, SameElist, SameLists DEF CtimerInv
<1>4. /\ left' \in [Timers -> - MaxLate .. MaxTime]
      /\ \A c \in Timers : left'[c] <= left[c]
  <2>1. left \in [Timers -> - MaxLate .. MaxTime]
    BY DEF CtimerInv, TypeOK
  <2>2. \A c \in Timers : /\ Later(left[c]) \in - MaxLate .. MaxTime
                          /\ Later(left[c]) <= left[c]
    BY <2>1, LaterIs
  <2>3. left' = [c \in Timers |->
                   IF Unused(c) THEN - MaxLate ELSE Later(left[c])]
    BY DEF Tick
  <2> QED BY <2>1, <2>2, <2>3
<1>5. /\ next_expiration' \in - MaxLate .. MaxTime
      /\ dist' \in [Contexts -> - MaxLate .. MaxTime]
  <2>1. /\ next_expiration \in - MaxLate .. MaxTime
        /\ dist \in [Contexts -> - MaxLate .. MaxTime]
    BY DEF CtimerInv, TypeOK
  <2>2. next_expiration' = Later(next_expiration)
    BY DEF Tick
  <2>3. next_expiration' \in - MaxLate .. MaxTime
    BY <2>1, <2>2, LaterIs
  <2>4. \A x \in Contexts : Later(dist[x]) \in - MaxLate .. MaxTime
    BY <2>1, LaterIs
  <2>5. dist' = [x \in Contexts |->
                   IF Runs(x, "store") THEN Later(dist[x]) ELSE 0]
    BY DEF Tick
  <2>6. 0 \in - MaxLate .. MaxTime
    OBVIOUS
  <2> QED BY <2>3, <2>4, <2>5, <2>6
<1>6. polled' \in BOOLEAN
  BY DEF Tick
<1>7. TypeOK'
  BY <1>1, <1>2, <1>4, <1>5, <1>6 DEF CtimerInv, TypeOK, elist, clist
<1>8. Adding(Now)' /\ Stopping(Now)' /\ Walking(Now)'
  BY <1>2, <1>3 DEF CtimerInv, Adding, Stopping, Leaving, Walking
<1>9. Within(Now)'
  <2> SUFFICES ASSUME Op(Now) = "reset"
               PROVE  left'[Now[1][2]] + interval'[Now[1][2]] <= MaxTime
    BY <1>2 DEF Within
  <2>1. PICK c \in Timers : Now = ResetText(c)
    BY WhichText DEF CtimerInv, Shape
  <2>2. Now[1][2] = c
    BY <2>1, TextEnds DEF Begins
  <2>3. left[c] + interval[c] <= MaxTime
    BY <2>2 DEF CtimerInv, Within
  <2>4. left[c] \in Int /\ left'[c] \in Int /\ interval[c] \in Int
    BY <1>4 DEF CtimerInv, TypeOK
  <2> QED BY <1>1, <1>4, <2>2, <2>3, <2>4
<1>10. Waited(Now)'
  BY <1>2, <1>3 DEF CtimerInv, Waited, Leaving
<1> QED BY <1>2, <1>3, <1>7, <1>8, <1>9, <1>10 DEF CtimerInv

-----------------------------------------------------------------------------
(* The invariant holds.                                                    *)

LEMMA CtimerInit == Init => CtimerInv
<1> SUFFICES ASSUME Init PROVE CtimerInv
  OBVIOUS
<1>1. /\ timerlist = NULL /\ ctimer_list = NULL /\ queue = << >>
      /\ todo = [x \in Contexts |-> << >>]
  BY DEF Init
<1>2. /\ Now = << >> /\ Op(Now) = "nothing" /\ Shape
  BY <1>1, WalkEnds DEF Now, Shape, Contexts
<1>3. Elist = {} /\ Clist = {} /\ Waiting = {}
  <2>1. Waiting = {}
    BY <1>1 DEF Waiting, Range
  <2> QED BY <1>1, <2>1, ReachNothing DEF Elist, Clist
<1>4. Lists
  BY <1>1, <1>3, ReachNothing DEF Lists, Linear, Ends
<1>5. TypeOK
  <2>1. \A x \in Contexts : \A i \in DOMAIN todo[x] :
          todo[x][i][1] \in Statements
    BY <1>1
  <2>2. left \in [Timers -> - MaxLate .. MaxTime]
        /\ interval \in [Timers -> 1 .. MaxTime]
    BY DEF Init
  <2>3. dist \in [Contexts -> - MaxLate .. MaxTime]
    BY DEF Init
  <2>4. /\ enext \in [Timers -> Timers \cup {NULL}]
        /\ cnext \in [Timers -> Timers \cup {NULL}]
        /\ turn \in {"others", "poll", "event"} /\ posts \in 0 .. MaxPosts
        /\ agains \in Nat
    BY DEF Init
  <2>5. own \in [Timers -> BOOLEAN] /\ polled \in BOOLEAN
    BY Zenon DEF Init
  <2>6. /\ queue \in Seq(Timers \cup {Other}) /\ Len(queue) =< NumEvents
        /\ next_expiration \in - MaxLate .. MaxTime
    BY DEF Init
  <2> QED BY <1>1, <2>1, <2>2, <2>3, <2>4, <2>5, <2>6 DEF TypeOK
<1>6. Adding(Now) /\ Stopping(Now) /\ Walking(Now)
  BY <1>2 DEF Adding, Stopping, Leaving, Walking
<1>7. Within(Now) /\ Waited(Now)
  BY <1>2, <1>3 DEF Within, Waited
<1> QED BY <1>2, <1>4, <1>5, <1>6, <1>7 DEF CtimerInv

LEMMA CtimerStep ==
  ASSUME Preempt = "between", CtimerInv, [Next]_vars
  PROVE  CtimerInv'
<1>1. ASSUME NEW x \in Contexts, Statement(x)
      PROVE  CtimerInv'
  BY <1>1, SetStep, ResetStep, RequestStep, FindStep, PushStep, MeasureStep,
     StoreStep, StopStep, DisownStep, RemoveStep, AppendStep DEF Statement
<1>2. CASE Main
  <2>1. "main" \in Contexts
    BY DEF Contexts
  <2> QED BY <1>1, <1>2, <2>1, VisitStep, ExpireStep, CallbackStep, OthersStep,
             PollStep, EventStep DEF Main
<1>3. CASE Isr
  BY <1>1, <1>3 DEF Isr, Contexts
<1>4. CASE Slot
  BY <1>4, SlotStep
<1>5. CASE Tick
  BY <1>5, TickStep
<1>6. CASE UNCHANGED vars
  <2>1. UNCHANGED <<times, elist, clist, clock, queue>>
        /\ UNCHANGED <<todo, polled, turn, posts, agains>>
    BY <1>6 DEF vars, times, elist, clist, clock
  <2>2. /\ Now' = Now /\ Shape'
        /\ \A y \in Contexts : \A i \in DOMAIN todo'[y] :
             todo'[y][i][1] \in Statements
    BY <2>1, SameTodo
  <2>3. /\ Elist' = Elist /\ Clist' = Clist /\ Waiting' = Waiting /\ Lists'
        /\ timerlist' = timerlist /\ enext' = enext /\ own' = own
    BY <2>1, SameElist, SameLists DEF CtimerInv
  <2>4. TypeOK'
    BY <2>1, <2>2 DEF CtimerInv, TypeOK, times, elist, clist, clock
  <2>5. Adding(Now)' /\ Stopping(Now)' /\ Walking(Now)'
    BY <2>2, <2>3 DEF CtimerInv, Adding, Stopping, Leaving, Walking
  <2>6. Within(Now)' /\ Waited(Now)'
    BY <2>1, <2>2, <2>3 DEF CtimerInv, Within, times, Waited, Leaving
  <2> QED BY <2>2, <2>3, <2>4, <2>5, <2>6 DEF CtimerInv
<1> QED BY <1>2, <1>3, <1>4, <1>5, <1>6 DEF Next

LEMMA CtimerInvariant ==
  ASSUME Preempt = "between"
  PROVE  Spec => []CtimerInv
<1>1. CtimerInv /\ [Next]_vars => CtimerInv'
  BY CtimerStep
<1> QED BY <1>1, CtimerInit, PTL DEF Spec

(* A callback timer that is set is waited for by the event timers, or its  *)
(* event is on the way to the ctimer process, for any number of timers and *)
(* events (ctimer.c:75-117, etimer.c:81-137): when the interrupt finds the *)
(* main loop between two turns.                                            *)
THEOREM WaitedFor ==
  ASSUME Preempt = "between"
  PROVE  Spec => []SetIsWaitedFor
<1>1. CtimerInv => SetIsWaitedFor
  <2> SUFFICES ASSUME CtimerInv, AtRest PROVE Clist \subseteq Elist \cup Waiting
    BY DEF SetIsWaitedFor, CtimerInv
  <2>1. \A d : ~ Leaving(Now, d)
    BY AtRestIs DEF AtRest
  <2> QED BY <2>1 DEF CtimerInv, Waited
<1> QED BY <1>1, CtimerInvariant, PTL
=============================================================================
