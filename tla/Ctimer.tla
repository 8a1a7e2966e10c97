------------------------------- MODULE Ctimer -------------------------------
(***************************************************************************)
(* Callback timers (core/sys/ctimer.c) on top of event timers              *)
(* (core/sys/etimer.c, timer.c), the lists both keep (core/lib/list.c) and *)
(* the clock interrupt that asks for the event timers                      *)
(* (cpu/msp430/f1xxx/clock.c).                                             *)
(*                                                                         *)
(* The main loop polls the event timer process, which posts an event for   *)
(* every timer that has expired; the event makes the ctimer process call   *)
(* the callback.  The interrupt of the rtimer sets a timer too             *)
(* (led_timer in core/net/mac/tdmardc.c).  Both are lists of statements;   *)
(* the clock may tick before any of them.                                  *)
(***************************************************************************)
EXTENDS Integers, Sequences, FiniteSets, Functions, FiniteSetsExt

CONSTANTS
  Timers, Led,   \* callback timers; the one that the rtimer interrupt sets
  NULL,
  NumEvents,     \* room in the queue of events
  MaxPosts,      \* bound: events that other processes post
  MaxTime,       \* bound: longest interval
  MaxLate,       \* bound: a timer that is later than that counts as so late
  MaxAgain,      \* bound: how often a timer is set while its event waits
  Preempt        \* the rtimer interrupt comes "between" two turns of the
                 \* main loop or "anywhere"

ASSUME CtimerAssumption ==
  /\ Led \in Timers /\ NULL \notin Timers /\ "other" \notin Timers
  /\ {NumEvents, MaxTime, MaxLate} \subseteq Nat \ {0}
  /\ {MaxPosts, MaxAgain} \subseteq Nat
  /\ Preempt \in {"between", "anywhere"}

VARIABLES
  left,              \* ticks until the timer expires: start + interval - now
  interval,
  own,               \* etimer.p is not PROCESS_NONE
  timerlist, enext,  \* the event timers that are waited for
  ctimer_list, cnext,
  next_expiration,   \* ticks until then, as far as update_time knows
  polled,            \* the event timer process is to be polled
  queue,             \* events: a timer, or that of somebody else
  todo,              \* what main and isr do next
  dist,              \* what update_time has found
  turn,              \* of process_run: other processes, polls, an event
  posts,             \* of other processes
  agains             \* times that a timer was set while its event waited

vars == <<left, interval, own, timerlist, enext, ctimer_list, cnext,
          next_expiration, polled, queue, todo, dist, turn,
          posts, agains>>

times == <<left, interval>>
elist == <<own, timerlist, enext>>
clist == <<ctimer_list, cnext>>
clock == <<next_expiration, dist>>

Contexts == {"main", "isr"}
Other == "other"
Waiting == Range(queue)

INSTANCE LinkedList WITH Items <- Timers

(* What is on the two lists. *)
Elist == Reach(enext, timerlist)
Clist == Reach(cnext, ctimer_list)

Init ==
  /\ left = [c \in Timers |-> 0] /\ interval = [c \in Timers |-> 1]
  /\ own = [c \in Timers |-> FALSE]
  /\ timerlist = NULL /\ enext = [c \in Timers |-> NULL]
  /\ ctimer_list = NULL /\ cnext = [c \in Timers |-> NULL]
  /\ next_expiration = 0 /\ polled = FALSE /\ queue = <<>>
  /\ todo = [x \in Contexts |-> <<>>] /\ dist = [x \in Contexts |-> 0]
  /\ turn = "others" /\ posts = 0 /\ agains = 0

-----------------------------------------------------------------------------
(* Operations, as lists of statements. *)

update_time == << <<"measure">>, <<"store">> >>
add_timer(c) == << <<"request">>, <<"find", c>> >>
list_add(c) == << <<"remove", c>>, <<"append", c>> >>

ctimer_set(c, k) == << <<"set", c, k>> >> \o add_timer(c) \o list_add(c)
ctimer_reset(c) == << <<"reset", c>> >> \o add_timer(c) \o list_add(c)
ctimer_stop(c) == << <<"stop", c>>, <<"disown", c>>, <<"remove", c>> >>

MaySet(c) == c \notin Waiting \/ agains < MaxAgain

Sets ==
  {ctimer_set(c, k) : c \in {d \in Timers : MaySet(d)}, k \in 1 .. MaxTime}

Runs(x, op) ==
  /\ x = "main" => todo["isr"] = <<>>
  /\ todo[x] # <<>> /\ todo[x][1][1] = op

Arg(x) == todo[x][1][2]
Then(x, new) == todo' = [todo EXCEPT ![x] = new \o Tail(@)]

-----------------------------------------------------------------------------
(* etimer_set and timer_set, timer_reset *)

Counted(c) == agains' = IF c \in Waiting THEN agains + 1 ELSE agains

SetTimer(x) ==
  /\ Runs(x, "set")
  /\ left' = [left EXCEPT ![Arg(x)] = todo[x][1][3]]
  /\ interval' = [interval EXCEPT ![Arg(x)] = todo[x][1][3]]
  /\ Counted(Arg(x)) /\ Then(x, <<>>)
  /\ UNCHANGED <<elist, clist, clock, polled, queue, turn, posts>>

ResetTimer(x) ==
  /\ Runs(x, "reset")
  /\ \E late \in IF left[Arg(x)] = - MaxLate THEN {0, MaxTime} ELSE {0} :
       left' = [left EXCEPT ![Arg(x)] =
                  Max({@ + interval[Arg(x)] - late, - MaxLate})]
  /\ Counted(Arg(x)) /\ Then(x, <<>>)
  /\ UNCHANGED <<interval, elist, clist, clock, polled, queue, turn, posts>>

Request(x) ==
  /\ Runs(x, "request")
  /\ polled' = TRUE
  /\ Then(x, <<>>)
  /\ UNCHANGED <<times, elist, clist, clock, queue, turn, posts, agains>>

(* A timer that is on the list already stays where it is. *)
Find(x) ==
  /\ Runs(x, "find")
  /\ IF own[Arg(x)] /\ Arg(x) \in Elist
     THEN Then(x, update_time) /\ UNCHANGED elist
     ELSE /\ own' = [own EXCEPT ![Arg(x)] = TRUE]
          /\ enext' = [enext EXCEPT ![Arg(x)] = timerlist]
          /\ Then(x, << <<"push", Arg(x)>> >> \o update_time)
          /\ UNCHANGED timerlist
  /\ UNCHANGED <<times, clist, clock, polled, queue, turn, posts, agains>>

Push(x) ==
  /\ Runs(x, "push")
  /\ timerlist' = Arg(x)
  /\ Then(x, <<>>)
  /\ UNCHANGED <<times, own, enext, clist, clock, polled, queue, turn, posts,
                 agains>>

(* Distances are unsigned: a timer that is late is far away.  With no      *)
(* timer next_expiration is 0, which may be in the past or in the future.  *)
Unsigned(d) == IF d < 0 THEN d + MaxTime + MaxLate + 1 ELSE d

Nearest ==
  IF Elist = {} THEN {- MaxLate, MaxTime}
  ELSE {CHOOSE d \in {left[t] : t \in Elist} :
          \A t \in Elist : Unsigned(d) =< Unsigned(left[t])}

Measure(x) ==
  /\ Runs(x, "measure")
  /\ \E d \in Nearest : dist' = [dist EXCEPT ![x] = d]
  /\ Then(x, <<>>)
  /\ UNCHANGED <<times, elist, clist, next_expiration, polled, queue, turn,
                 posts, agains>>

Store(x) ==
  /\ Runs(x, "store")
  /\ next_expiration' = dist[x]
  /\ dist' = [dist EXCEPT ![x] = 0]
  /\ Then(x, <<>>)
  /\ UNCHANGED <<times, elist, clist, polled, queue, turn, posts, agains>>

(* Fault: the timers behind the first leave the list with it. *)
UnlinkedWithRest(t) ==
  /\ timerlist' = IF timerlist = t THEN NULL ELSE timerlist
  /\ enext' = [u \in Timers |->
                 IF enext[u] = t \/ u = t THEN NULL ELSE enext[u]]

Unlinked(t) ==
  /\ timerlist' = IF timerlist = t THEN enext[t] ELSE timerlist
  /\ enext' = [u \in Timers |->
                 IF u = t THEN NULL
                 ELSE IF enext[u] = t THEN enext[t] ELSE enext[u]]

(* etimer_stop *)
Stop(x) ==
  /\ Runs(x, "stop")
  /\ IF Arg(x) \in Elist THEN Unlinked(Arg(x)) /\ Then(x, update_time)
     ELSE Then(x, <<>>) /\ UNCHANGED <<timerlist, enext>>
  /\ UNCHANGED <<times, own, clist, clock, polled, queue, turn, posts, agains>>

Disown(x) ==
  /\ Runs(x, "disown")
  /\ own' = [own EXCEPT ![Arg(x)] = FALSE]
  /\ Then(x, <<>>)
  /\ UNCHANGED <<times, timerlist, enext, clist, clock, polled, queue, turn,
                 posts, agains>>

-----------------------------------------------------------------------------
(* The list of callback timers. *)

Removed(c) ==
  /\ ctimer_list' = IF ctimer_list = c THEN cnext[c] ELSE ctimer_list
  /\ cnext' = [u \in Timers |->
                 IF u = c THEN IF c \in Clist THEN NULL ELSE cnext[c]
                 ELSE IF cnext[u] = c THEN cnext[c] ELSE cnext[u]]

Remove(x) ==
  /\ Runs(x, "remove")
  /\ Removed(Arg(x))
  /\ Then(x, <<>>)
  /\ UNCHANGED <<times, elist, clock, polled, queue, turn, posts, agains>>

Append_(x) ==
  /\ Runs(x, "append")
  /\ LET c == Arg(x) IN
     IF ctimer_list = NULL
     THEN ctimer_list' = c /\ cnext' = [cnext EXCEPT ![c] = NULL]
     ELSE /\ cnext' = [u \in Timers |->
                         IF u = c THEN NULL
                         ELSE IF u \in Clist /\ cnext[u] = NULL THEN c
                         ELSE cnext[u]]
          /\ UNCHANGED ctimer_list
  /\ Then(x, <<>>)
  /\ UNCHANGED <<times, elist, clock, polled, queue, turn, posts, agains>>

-----------------------------------------------------------------------------
(* The event timer process, polled: one timer after the other, those after *)
(* u on the list.                                                          *)

(* timer_expired *)
Expired(t) == t # NULL /\ left[t] =< 0

Room == Len(queue) < NumEvents

(* Fault: whether there was room is not asked. *)
PostIgnored(t) == queue' = IF Room THEN Append(queue, t) ELSE queue

Posted(t) == Room /\ queue' = Append(queue, t)

Visit ==
  /\ Runs("main", "visit")
  /\ LET u == Arg("main")
         t == IF u = NULL THEN timerlist ELSE enext[u]
         On == Then("main", IF t = NULL THEN <<>> ELSE << <<"visit", t>> >>)
     IN \/ /\ ~Expired(t)
           /\ On /\ UNCHANGED <<queue, polled>>
        \/ /\ Expired(t) /\ Posted(t)
           /\ Then("main", << <<"expire", t, u>> >> \o update_time
                             \o << <<"visit", NULL>> >>)
           /\ UNCHANGED polled
        \/ /\ Expired(t) /\ ~Room
           /\ On /\ polled' = TRUE /\ UNCHANGED queue
  /\ UNCHANGED <<times, elist, clist, clock, turn, posts, agains>>

Expire ==
  /\ Runs("main", "expire")
  /\ LET t == Arg("main")
         u == todo["main"][1][3]
     IN /\ own' = [own EXCEPT ![t] = FALSE]
        /\ IF u = NULL
           THEN /\ timerlist' = enext[t]
                /\ enext' = [enext EXCEPT ![t] = NULL]
           ELSE /\ enext' = [enext EXCEPT ![u] = enext[t], ![t] = NULL]
                /\ UNCHANGED timerlist
  /\ Then("main", <<>>)
  /\ UNCHANGED <<times, clist, clock, polled, queue, turn, posts, agains>>

(* The callback: it may set its timer, or another, or go on with it, if the *)
(* time it then has is an interval.  It comes early when its timer was set  *)
(* again while an event of it waited.                                       *)
Callback ==
  /\ Runs("main", "callback")
  /\ \/ Then("main", <<>>)
     \/ /\ MaySet(Arg("main"))
        /\ left[Arg("main")] + interval[Arg("main")] =< MaxTime
        /\ Then("main", ctimer_reset(Arg("main")))
     \/ \E ops \in Sets : Then("main", ops)
  /\ UNCHANGED <<times, elist, clist, clock, polled, queue, turn, posts,
                 agains>>

-----------------------------------------------------------------------------
(* The main loop: process_run, again and again. *)

Turn(this, following) ==
  /\ todo["main"] = <<>> /\ todo["isr"] = <<>>
  /\ turn = this /\ turn' = following

(* Another process is polled: it sets or stops a timer, or posts. *)
Others ==
  /\ Turn("others", "poll")
  /\ \/ /\ \E ops \in {<<>>} \cup {ctimer_stop(c) : c \in Timers} \cup Sets :
             todo' = [todo EXCEPT !["main"] = ops]
        /\ UNCHANGED <<queue, posts>>
     \/ /\ posts < MaxPosts /\ posts' = posts + 1
        /\ queue' = IF Room THEN Append(queue, Other) ELSE queue
        /\ UNCHANGED todo
  /\ UNCHANGED <<times, elist, clist, clock, polled, agains>>

Poll ==
  /\ Turn("poll", "event")
  /\ polled' = FALSE
  /\ todo' = [todo EXCEPT !["main"] =
                IF polled THEN << <<"visit", NULL>> >> ELSE <<>>]
  /\ UNCHANGED <<times, elist, clist, clock, queue, posts, agains>>

(* An event; the ctimer process takes those of its timers. *)
Event ==
  /\ Turn("event", "others")
  /\ IF queue = <<>> THEN UNCHANGED <<clist, queue, todo>>
     ELSE /\ queue' = Tail(queue)
          /\ LET e == Head(queue) IN
             IF e \in Clist
             THEN /\ Removed(e)
                  /\ todo' = [todo EXCEPT !["main"] = << <<"callback", e>> >>]
             ELSE UNCHANGED <<clist, todo>>
  /\ UNCHANGED <<times, elist, clock, polled, posts, agains>>

-----------------------------------------------------------------------------
(* The interrupt of the rtimer sets the timer of the LED. *)
Slot ==
  /\ todo["isr"] = <<>>
  /\ Preempt = "between" => todo["main"] = <<>>
  /\ MaySet(Led)
  /\ \E k \in 1 .. MaxTime :
       todo' = [todo EXCEPT !["isr"] = ctimer_set(Led, k)]
  /\ UNCHANGED <<times, elist, clist, clock, polled, queue, turn, posts,
                 agains>>

(* The time of a timer that nobody has to do with is not looked at again:   *)
(* the next tick makes it as late as can be.                                *)
Unused(c) ==
  /\ c \notin Elist \cup Clist \cup Waiting
  /\ \A x \in Contexts : \A i \in DOMAIN todo[x] :
       Len(todo[x][i]) < 2 \/ todo[x][i][2] # c

Later(d) == Max({d - 1, - MaxLate})

(* The clock interrupt (timera1). *)
Tick ==
  /\ todo["isr"] = <<>>
  /\ left' = [c \in Timers |-> IF Unused(c) THEN - MaxLate ELSE Later(left[c])]
  /\ next_expiration' = Later(next_expiration)
  /\ dist' = [x \in Contexts |->
                IF Runs(x, "store") THEN Later(dist[x]) ELSE 0]
  /\ polled' = (polled \/ (timerlist # NULL /\ next_expiration' =< 0))
  /\ UNCHANGED <<interval, elist, clist, queue, todo, turn, posts, agains>>

Statement(x) ==
  \/ SetTimer(x) \/ ResetTimer(x) \/ Request(x) \/ Find(x) \/ Push(x)
  \/ Measure(x) \/ Store(x) \/ Stop(x) \/ Disown(x) \/ Remove(x) \/ Append_(x)

Main ==
  \/ Statement("main") \/ Visit \/ Expire \/ Callback
  \/ Others \/ Poll \/ Event

Isr == Statement("isr")

Next == Main \/ Isr \/ Slot \/ Tick

(* Interrupts leave the main loop time, again and again. *)
Fairness == SF_vars(Main) /\ WF_vars(Isr) /\ WF_vars(Tick)

Spec == Init /\ [][Next]_vars /\ Fairness

-----------------------------------------------------------------------------
Statements ==
  {"set", "reset", "request", "find", "push", "measure", "store", "stop",
   "disown", "remove", "append", "visit", "expire", "callback"}

TypeOK ==
  /\ left \in [Timers -> - MaxLate .. MaxTime]
  /\ interval \in [Timers -> 1 .. MaxTime]
  /\ own \in [Timers -> BOOLEAN] /\ polled \in BOOLEAN
  /\ {timerlist, ctimer_list} \subseteq Timers \cup {NULL}
  /\ enext \in [Timers -> Timers \cup {NULL}]
  /\ cnext \in [Timers -> Timers \cup {NULL}]
  /\ next_expiration \in - MaxLate .. MaxTime
  /\ dist \in [Contexts -> - MaxLate .. MaxTime]
  /\ queue \in Seq(Timers \cup {Other}) /\ Len(queue) =< NumEvents
  /\ \A x \in Contexts : \A i \in DOMAIN todo[x] : todo[x][i][1] \in Statements
  /\ turn \in {"others", "poll", "event"} /\ posts \in 0 .. MaxPosts
  /\ agains \in Nat

AtRest == todo["main"] = <<>> /\ todo["isr"] = <<>>

(* "When the callback timer expires, the callback function f will be called *)
(* with ptr as argument" (ctimer.h): a timer that is set is waited for, or  *)
(* its event is on the way (ctimer.c:99-117, etimer.c:112-137).             *)
SetIsWaitedFor ==
  TypeOK /\ (AtRest => Clist \subseteq Elist \cup Waiting)

(* A timer that has expired is called, stopped or set again, also when the *)
(* queue was full when its event was to be posted (etimer.c:112-137): the   *)
(* clock looks at next_expiration no later than that (etimer.c:58-78).      *)
ExpiredIsCalled ==
  \A c \in Timers :
    (c \in Clist /\ left[c] =< 0) ~> (c \notin Clist \/ left[c] > 0)
=============================================================================
