------------------------------ MODULE Process ------------------------------
(***************************************************************************)
(* The event kernel (core/sys/process.c) and the loop that runs it         *)
(* (platform/sky/contiki-sky-main.c).  Processes are threads that the main *)
(* loop calls with an event; interrupts ask for a call with process_poll.  *)
(*                                                                         *)
(* The main loop is a list of statements, todo, of which an interrupt may  *)
(* come before any.  A call puts the statements of the one called in front *)
(* of those of the caller.  What the thread of a process does when it is   *)
(* called is up to the process: one of the operations of the kernel, then  *)
(* it waits for the next event, or it ends.                                *)
(***************************************************************************)
EXTENDS Naturals, Sequences, FiniteSets

CONSTANTS
  Procs,       \* processes
  Polled,      \* those that interrupts poll
  NumEvents,   \* PROCESS_CONF_NUMEVENTS
  Posted,      \* bound: the receivers of the events that are posted
  MaxCalls,    \* bound: calls inside each other
  NULL,
  BROADCAST    \* PROCESS_BROADCAST

ASSUME ProcessAssumption ==
  /\ Polled \subseteq Procs /\ Posted \subseteq Procs \cup {BROADCAST}
  /\ NumEvents \in Nat \ {0} /\ MaxCalls \in Nat
  /\ NULL \notin Procs /\ BROADCAST \notin Procs

VARIABLES
  events, nevents, fevent,   \* the queue of events; an event is its receiver
  process_list, next,        \* the list of the processes that were started
  state, needspoll, poll_requested,
  todo,        \* what the main loop does next
  receiver,    \* of the event do_event has taken last
  asleep,
  owed,        \* who on the list was polled by an interrupt and not yet called
  due,         \* who has not yet seen the broadcast that is delivered
  cut          \* history: somebody was ended while a call of it lasted

vars == <<events, nevents, fevent, process_list, next, state, needspoll,
          poll_requested, todo, receiver, asleep, owed, due, cut>>

queue == <<events, nevents, fevent>>
lists == <<process_list, next>>
polls == <<needspoll, poll_requested, owed>>

Event == Procs \cup {BROADCAST}
Slots == 0 .. NumEvents - 1

(* (i + j) % NumEvents, for places of the queue *)
Place(i, j) == IF i + j >= NumEvents THEN i + j - NumEvents ELSE i + j

INSTANCE LinkedList WITH Items <- Procs

(* The processes on the list. *)
Listed == Reach(next, process_list)

(* The processes are started one after the other and post events later. *)
Init ==
  /\ events \in [Slots -> {BROADCAST}] /\ nevents = 0 /\ fevent = 0
  /\ process_list \in Procs \cup {NULL}
  /\ next \in [Procs -> Procs \cup {NULL}]
  /\ Listed = Procs /\ Linear(next, process_list)
  /\ state = [p \in Procs |-> "running"]
  /\ needspoll = [p \in Procs |-> FALSE] /\ poll_requested = FALSE
  /\ todo = <<>>
  /\ receiver = BROADCAST
  /\ asleep = FALSE
  /\ owed = {} /\ due = {} /\ cut = FALSE

-----------------------------------------------------------------------------
(* Statements. *)

At(op)    == todo # <<>> /\ todo[1][1] = op
Arg       == todo[1][2]
Then(new) == todo' = new \o Tail(todo)

(* The process after p on the list; the first, if p is NULL. *)
After(p) == IF p = NULL THEN process_list ELSE next[p]

(* call_process: nobody is called twice. *)
Called(p) ==
  IF state[p] = "running"
  THEN /\ state' = [state EXCEPT ![p] = "called"]
       /\ Then(<< <<"thread", p>> >>)
  ELSE Then(<<>>) /\ UNCHANGED state

snum == Place(fevent, nevents)

(* Fault: a full queue is not noticed. *)
PostAnyway(e) ==
  /\ events' = [events EXCEPT ![snum] = e]
  /\ nevents' = IF nevents = NumEvents THEN nevents ELSE nevents + 1
  /\ UNCHANGED fevent
  /\ UNCHANGED <<lists, state, polls, receiver, asleep, due, cut>>

(* process_post *)
Post(e) ==
  /\ IF nevents = NumEvents THEN UNCHANGED queue
     ELSE /\ events' = [events EXCEPT ![snum] = e]
          /\ nevents' = nevents + 1
          /\ UNCHANGED fevent
  /\ UNCHANGED <<lists, state, polls, receiver, asleep, due, cut>>

(* process_start: its INIT event is not queued. *)
Start ==
  /\ At("start")
  /\ IF Arg \in Listed THEN Then(<<>>) /\ UNCHANGED <<lists, state>>
     ELSE /\ next' = [next EXCEPT ![Arg] = process_list]
          /\ process_list' = Arg
          /\ state' = [state EXCEPT ![Arg] = "called"]
          /\ Then(<< <<"thread", Arg>> >>)
  /\ UNCHANGED <<queue, polls, receiver, asleep, due, cut>>

Call ==
  /\ At("call") /\ Called(Arg)
  /\ UNCHANGED <<queue, lists, polls, receiver, asleep, due, cut>>

-----------------------------------------------------------------------------
(* exit_process: "exit" when the thread of the process has ended or it ends *)
(* itself, "kill" when another process ends it, and it is told.  If it is   *)
(* in a call of its own the call goes on.                                   *)
Exit ==
  /\ At("exit") \/ At("kill")
  /\ IF Arg \notin Listed
     THEN Then(<<>>) /\ UNCHANGED <<state, owed, due>>
     ELSE /\ state' = [state EXCEPT ![Arg] = "none"]
          /\ owed' = owed \ {Arg} /\ due' = due \ {Arg}
          /\ Then(<< <<"exited", Arg, NULL>> >>
                    \o (IF At("kill") THEN << <<"farewell", Arg>> >> ELSE <<>>)
                    \o << <<"unlink", Arg>> >>)
  /\ UNCHANGED <<queue, lists, needspoll, poll_requested, receiver, asleep, cut>>

(* Everybody else is told. *)
Exited ==
  /\ At("exited")
  /\ LET q == After(todo[1][3]) IN
     Then(CASE q = NULL -> <<>>
            [] q = Arg  -> << <<"exited", Arg, q>> >>
            [] OTHER    -> << <<"call", q>>, <<"exited", Arg, q>> >>)
  /\ UNCHANGED <<queue, lists, state, polls, receiver, asleep, due, cut>>

(* Fault: it stays. *)
StaysLinked(p) == UNCHANGED next

Unlinked(p) ==
  next' = [q \in Procs |->
             IF q \in Listed /\ next[q] = p THEN next[p] ELSE next[q]]

(* Fault: the process that leaves the list forgets where it was. *)
UnlinkAndClear ==
  /\ At("unlink")
  /\ process_list' = After(IF process_list = Arg THEN Arg ELSE NULL)
  /\ next' = [q \in Procs |-> IF q = Arg THEN NULL
                              ELSE IF next[q] = Arg THEN next[Arg] ELSE next[q]]
  /\ Then(<<>>)
  /\ UNCHANGED <<queue, state, polls, receiver, asleep, due, cut>>

Unlink ==
  /\ At("unlink")
  /\ IF process_list = Arg
     THEN process_list' = next[Arg] /\ UNCHANGED next
     ELSE Unlinked(Arg) /\ UNCHANGED process_list
  /\ Then(<<>>)
  /\ UNCHANGED <<queue, state, polls, receiver, asleep, due, cut>>

-----------------------------------------------------------------------------
(* The thread of a process; then call_process again. *)

Calls == Cardinality({i \in DOMAIN todo : todo[i][1] = "waits"})

(* What the thread of p does, before the rest. It starts only who does not  *)
(* run and ends only who does: itself or another, in a call or not.         *)
Does(p, rest) ==
  \/ \E e \in Posted : Post(e) /\ Then(rest)
  \/ /\ \/ Then(rest) /\ UNCHANGED cut
        \/ /\ Calls < MaxCalls
           /\ \E q \in Procs :
                \/ /\ \/ state[q] = "none" /\ Then(<< <<"start", q>> >> \o rest)
                      \/ state[q] = "running" /\ Then(<< <<"call", q>> >> \o rest)
                   /\ UNCHANGED cut
                \/ /\ state[q] # "none"
                   /\ Then(<< <<IF q = p THEN "exit" ELSE "kill", q>> >> \o rest)
                   /\ cut' = (cut \/ state[q] = "called")
     /\ UNCHANGED <<queue, lists, state, polls, receiver, asleep, due>>

Thread ==
  /\ At("thread")
  /\ \/ Does(Arg, << <<"waits", Arg>> >>)
     \/ /\ Then(<< <<"exit", Arg>> >>)
        /\ UNCHANGED <<queue, lists, state, polls, receiver, asleep, due, cut>>

(* It is told that it has to end, when another one has ended it. *)
Farewell == At("farewell") /\ Does(Arg, <<>>)

Waits ==
  /\ At("waits")
  /\ state' = [state EXCEPT ![Arg] = "running"]
  /\ Then(<<>>)
  /\ UNCHANGED <<queue, lists, polls, receiver, asleep, due, cut>>

-----------------------------------------------------------------------------
(* process_run *)

(* Fault: the request is forgotten after the processes were called. *)
ResetAfterwards == << <<"poll", NULL>>, <<"reset">> >>

do_poll == << <<"reset">>, <<"poll", NULL>> >>

Run ==
  /\ todo = <<>> /\ ~asleep
  /\ todo' = (IF poll_requested THEN do_poll ELSE <<>>)
               \o << <<"event">>, <<"idle">> >>
  /\ UNCHANGED <<queue, lists, state, polls, receiver, asleep, due, cut>>

Reset ==
  /\ At("reset")
  /\ poll_requested' = FALSE
  /\ Then(<<>>)
  /\ UNCHANGED <<queue, lists, state, needspoll, owed, receiver, asleep, due,
                 cut>>

Poll ==
  /\ At("poll")
  /\ LET p == After(Arg) IN
     Then(IF p = NULL THEN <<>>
          ELSE (IF needspoll[p] THEN << <<"clear", p>>, <<"call", p>> >>
                ELSE <<>>) \o << <<"poll", p>> >>)
  /\ UNCHANGED <<queue, lists, state, polls, receiver, asleep, due, cut>>

Clear ==
  /\ At("clear")
  /\ state' = [state EXCEPT ![Arg] = "running"]
  /\ needspoll' = [needspoll EXCEPT ![Arg] = FALSE]
  /\ owed' = owed \ {Arg}
  /\ Then(<<>>)
  /\ UNCHANGED <<queue, lists, poll_requested, receiver, asleep, due, cut>>

(* do_event *)
TakeEvent ==
  /\ At("event")
  /\ IF nevents = 0 THEN Then(<<>>) /\ UNCHANGED <<queue, receiver, due>>
     ELSE LET e == events[fevent] IN
          /\ receiver' = e
          /\ fevent' = Place(fevent, 1) /\ nevents' = nevents - 1
          /\ IF e = BROADCAST
             THEN due' = Listed /\ Then(<< <<"broadcast", NULL>> >>)
             ELSE Then(<< <<"call", e>> >>) /\ UNCHANGED due
          /\ UNCHANGED events
  /\ UNCHANGED <<lists, state, polls, asleep, cut>>

Broadcast ==
  /\ At("broadcast")
  /\ LET p == After(Arg) IN
     Then(IF p = NULL THEN <<>>
          ELSE (IF poll_requested THEN do_poll ELSE <<>>)
                 \o << <<"give", p>>, <<"broadcast", p>> >>)
  /\ UNCHANGED <<queue, lists, state, polls, receiver, asleep, due, cut>>

Give ==
  /\ At("give") /\ Called(Arg)
  /\ due' = IF state[Arg] = "running" THEN due \ {Arg} ELSE due
  /\ UNCHANGED <<queue, lists, polls, receiver, asleep, cut>>

(* Fault: the loop goes to sleep on what process_run has returned. *)
AwakeBefore == FALSE

Awake == nevents > 0 \/ poll_requested

(* The main loop: while process_run returns something it runs again; then  *)
(* it looks once more, with interrupts disabled, and may go to sleep.      *)
Idle ==
  /\ At("idle")
  /\ Then(IF nevents > 0 \/ poll_requested THEN <<>> ELSE << <<"sleep">> >>)
  /\ UNCHANGED <<queue, lists, state, polls, receiver, asleep, due, cut>>

Sleep ==
  /\ At("sleep")
  /\ IF Awake THEN UNCHANGED asleep
     ELSE asleep' \in BOOLEAN      \* the serial port may be active
  /\ Then(<<>>)
  /\ UNCHANGED <<queue, lists, state, polls, receiver, due, cut>>

-----------------------------------------------------------------------------
(* An interrupt that polls p (process_poll), and ends the sleep. *)
Interrupt(p) ==
  /\ IF state[p] # "none"
     THEN /\ needspoll' = [needspoll EXCEPT ![p] = TRUE]
          /\ poll_requested' = TRUE
          /\ owed' = owed \cup ({p} \cap Listed)
          /\ asleep' = FALSE
     ELSE UNCHANGED <<polls, asleep>>
  /\ UNCHANGED <<queue, lists, state, todo, receiver, due, cut>>

Main ==
  \/ Start \/ Call \/ Exit \/ Exited \/ Farewell \/ Unlink
  \/ Thread \/ Waits \/ Run \/ Reset \/ Poll \/ Clear \/ TakeEvent \/ Broadcast \/ Give
  \/ Idle \/ Sleep

Next == Main \/ \E p \in Polled : Interrupt(p)

Spec == Init /\ [][Next]_vars /\ WF_vars(Main)

-----------------------------------------------------------------------------
TypeOK ==
  /\ events \in [Slots -> Event] /\ nevents \in 0 .. NumEvents
  /\ fevent \in Slots
  /\ process_list \in Procs \cup {NULL}
  /\ next \in [Procs -> Procs \cup {NULL}]
  /\ state \in [Procs -> {"none", "running", "called"}]
  /\ needspoll \in [Procs -> BOOLEAN] /\ poll_requested \in BOOLEAN
  /\ receiver \in Event /\ asleep \in BOOLEAN
  /\ owed \subseteq Procs /\ due \subseteq Procs /\ cut \in BOOLEAN

(* The ring of events is a queue (process.c:323-360, 262-273). *)
Waiting == [i \in 1 .. nevents |-> events[Place(fevent, i - 1)]]
Queue == INSTANCE EventQueue WITH
           Capacity <- NumEvents, waiting <- Waiting, taken <- receiver
InOrder == Queue!Spec

(* A broadcast has reached everybody who was there when it was taken and   *)
(* has not left, whoever started, left or was polled meanwhile             *)
(* (process.c:277-285).                                                    *)
BroadcastReachesAll ==
  At("broadcast") /\ After(Arg) = NULL => due = {}

(* The processor sleeps only when there is nothing to do                   *)
(* (contiki-sky-main.c:439-442): a request that comes between the last look *)
(* of process_run and the sleep is not slept over.                         *)
SleepsIdle == asleep => nevents = 0 /\ owed = {}

(* Whoever is polled by an interrupt is called, unless it leaves           *)
(* (process.c:226-239, 372-381).                                           *)
PollServed == \A p \in Polled : p \in owed ~> p \notin owed

(* A process that runs is on the list, where polls and broadcasts find it,  *)
(* until somebody is ended in the middle of a call of its own               *)
(* (process.c:139, 197); and nobody else is, but for one that is leaving.   *)
ListedRun ==
  /\ TypeOK
  /\ ~ cut => \A p \in Procs : state[p] # "none" => p \in Listed
  /\ \A p \in Listed : state[p] = "none" =>
       \E i \in DOMAIN todo : todo[i] = <<"unlink", p>>
=============================================================================
