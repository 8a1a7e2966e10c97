------------------------------- MODULE Rtimer -------------------------------
(***************************************************************************)
(* The real-time timer of a node: the single pending task next_rtimer of   *)
(* core/sys/rtimer.c and the compare register TACCR0 that                  *)
(* cpu/msp430/f1xxx/rtimer-arch.c schedules it with.                       *)
(*                                                                         *)
(* All times are relative to the node's own clock, so nodes need no common *)
(* epoch: time is the task's time field (modulo the 16-bit clock) and      *)
(* match is how many ticks TAR still has to count until it equals TACCR0.  *)
(* The two differ when a task is set again while one is pending: the       *)
(* source then overwrites the task but does not touch the register.        *)
(***************************************************************************)
EXTENDS Integers

CONSTANT ClockModulus      \* 2^16 on the MSP430: rtimer_clock_t wraps there

ASSUME ClockAssumption == ClockModulus \in Nat \ {0}

Clock == 0 .. ClockModulus - 1

(* TAR meets a TACCR0 that lies t ticks ahead (or behind: t < 0) after this *)
(* many ticks; a time that is already past is met only after a wrap.        *)
rtimer_arch_schedule(t) ==
  IF t % ClockModulus = 0 THEN ClockModulus ELSE t % ClockModulus

(* next_rtimer = NULL. *)
NoTask == [func |-> "none", time |-> 0, match |-> 0]

RtimerType(Callbacks) ==
  [func : Callbacks \cup {"none"}, time : Clock, match : 0 .. ClockModulus]

rtimer_set(r, t, f) ==
  [func  |-> f,
   time  |-> t % ClockModulus,
   match |-> IF r.func = "none" THEN rtimer_arch_schedule(t) ELSE r.match]

(* The timer interrupt finds next_rtimer set. *)
Due(r) == r.func # "none" /\ r.match = 0

(* Fault: rtimer_run_next calls the task without clearing next_rtimer. *)
NotCleared(r) == r

(* rtimer_run_next clears next_rtimer before it calls the task ... *)
Taken(r) == [r EXCEPT !.func = "none"]

(* Fault: next_rtimer is cleared after the callback instead of before. *)
ClearedLate(r) == NoTask

(* ... and programs the register for the task the callback left behind. *)
Rescheduled(r) ==
  IF r.func = "none" THEN NoTask
  ELSE [r EXCEPT !.match = rtimer_arch_schedule(r.time)]

(* One tick of TAR.  A compare that has matched stays pending (match = 0)   *)
(* until interrupts are enabled again.                                      *)
Elapse(r) ==
  IF r.func = "none" THEN r
  ELSE [r EXCEPT !.time  = (r.time - 1) % ClockModulus,
                 !.match = IF r.match = 0 THEN 0 ELSE r.match - 1]
=============================================================================
