------------------------------ MODULE EtsTimer ------------------------------
(***************************************************************************)
(* The Wi-Fi library's timers: radio/esp32/src/ets_timer.rs, served by one *)
(* task on the single compare register of kernel/src/alarm.rs.             *)
(*                                                                         *)
(* The service task reads the table, arms the alarm and sleeps in three    *)
(* steps; a client changes the table and kicks the alarm in two. A kick    *)
(* that fires before the service task sleeps wakes nobody, and the task    *)
(* then arms what it read before: only the time-out of its wait is left.   *)
(*                                                                         *)
(* Time passes only when nobody has a step to take: steps are short        *)
(* against a unit of time.                                                 *)
(***************************************************************************)
EXTENDS Integers, FiniteSets

CONSTANTS Handles,      \* the library's timers
          ETS_SLOTS,    \* the code's MAX_TIMERS
          Delays,       \* what they are armed for
          IDLE_WAKE,    \* the time-out of the service task's wait
          MAX_NOW, MAX_ARMS, NoAlarm, NoHandle

ASSUME EtsAssumption ==
  /\ {ETS_SLOTS, IDLE_WAKE, MAX_NOW, MAX_ARMS} \subseteq Nat /\ Delays \subseteq Nat
  /\ NoAlarm \notin Nat

VARIABLES etsNow,    \* clock::now_us
          etsTimers, \* TIMERS, by handle
          etsAlarm,  \* the compare register, NoAlarm when disarmed
          etsServ,   \* the service task
          etsClient, \* a handle in the library's hands between the table and kick
          etsArms

etsVars == <<etsNow, etsTimers, etsAlarm, etsServ, etsClient, etsArms>>

NoTimer == [live |-> FALSE, at |-> 0, period |-> 0]
Armed == {h \in Handles : etsTimers[h].live /\ etsTimers[h].at # 0}
NotBefore(a, b) == IF a < b THEN b ELSE a

TypeEts ==
  /\ etsNow \in 1 .. MAX_NOW
  /\ \A h \in Handles : etsTimers[h].live \in BOOLEAN /\ etsTimers[h].at \in Nat
  /\ Cardinality({h \in Handles : etsTimers[h].live}) <= ETS_SLOTS
  /\ etsServ.at \in {"read", "set", "sleep", "wait", "due", "call"} /\ etsServ.due \subseteq Handles

EtsInit ==
  /\ etsNow = 1
  /\ etsTimers = [h \in Handles |-> NoTimer]
  /\ etsAlarm = NoAlarm
  /\ etsServ = [at |-> "read", next |-> 0, wake |-> 0, due |-> {}]
  /\ etsClient = NoHandle
  /\ etsArms = 0

(* next_deadline, 0 for none. *)
next_deadline ==
  IF Armed = {} THEN 0
  ELSE LET ats == {etsTimers[h].at : h \in Armed} IN CHOOSE a \in ats : \A b \in ats : a <= b

(* service_task: the next deadline, the alarm for it, the wait. *)
ServeRead ==
  /\ etsServ.at = "read"
  /\ etsServ' = [etsServ EXCEPT !.at = "set", !.next = next_deadline]
  /\ UNCHANGED <<etsNow, etsTimers, etsAlarm, etsClient, etsArms>>

ServeSet ==
  /\ etsServ.at = "set"
  /\ etsAlarm' = IF etsServ.next = 0 THEN NoAlarm ELSE NotBefore(etsServ.next, etsNow)
  /\ etsServ' = [etsServ EXCEPT !.at = "sleep"]
  /\ UNCHANGED <<etsNow, etsTimers, etsClient, etsArms>>

ServeSleep ==
  /\ etsServ.at = "sleep"
  /\ etsServ' = [etsServ EXCEPT !.at = "wait", !.wake = etsNow + IDLE_WAKE]
  /\ UNCHANGED <<etsNow, etsTimers, etsAlarm, etsClient, etsArms>>

(* Mutant: the wait has no time-out. *)
WaitTimesOutNever == FALSE

(* The wait's time-out. *)
WaitTimesOut == etsServ.at = "wait" /\ etsServ.wake <= etsNow

ServeTimesOut ==
  /\ WaitTimesOut
  /\ etsServ' = [etsServ EXCEPT !.at = "due"]
  /\ UNCHANGED <<etsNow, etsTimers, etsAlarm, etsClient, etsArms>>

(* on_alarm: disarm, and wake the waiter if there is one by now. *)
AlarmDue == etsAlarm # NoAlarm /\ etsAlarm <= etsNow
on_alarm ==
  /\ AlarmDue
  /\ etsAlarm' = NoAlarm
  /\ etsServ' = IF etsServ.at = "wait" THEN [etsServ EXCEPT !.at = "due"] ELSE etsServ
  /\ UNCHANGED <<etsNow, etsTimers, etsClient, etsArms>>

(* A periodic timer is re-armed from its deadline, or from now when a whole
   period has been missed. *)
Rearmed(s) ==
  LET next == s.at + s.period
  IN  [s EXCEPT !.at = IF s.period = 0 THEN 0 ELSE IF next <= etsNow THEN etsNow + s.period ELSE next]

Due == {h \in Armed : etsTimers[h].at <= etsNow}
collect_due ==
  /\ etsServ.at = "due"
  /\ etsTimers' = [h \in Handles |-> IF h \in Due THEN Rearmed(etsTimers[h]) ELSE etsTimers[h]]
  /\ etsServ' = [etsServ EXCEPT !.at = IF Due = {} THEN "read" ELSE "call", !.due = Due]
  /\ UNCHANGED <<etsNow, etsAlarm, etsClient, etsArms>>

(* The callbacks, in table order, outside the lock. *)
ServeCall ==
  /\ etsServ.at = "call"
  /\ \E h \in etsServ.due :
       etsServ' = [etsServ EXCEPT !.due = @ \ {h}, !.at = IF etsServ.due = {h} THEN "read" ELSE "call"]
  /\ UNCHANGED <<etsNow, etsTimers, etsAlarm, etsClient, etsArms>>

(* Mutant: the table never fills. *)
HasSlotAlways(h) == TRUE

(* slot_for: the handle's slot, or a free one. *)
HasSlot(h) == etsTimers[h].live \/ Cardinality({g \in Handles : etsTimers[g].live}) < ETS_SLOTS

(* timer_setfn and timer_arm: the table under its lock, then kick. *)
timer_setfn(h) ==
  /\ etsClient = NoHandle /\ etsArms < MAX_ARMS /\ HasSlot(h)
  /\ etsTimers' = [etsTimers EXCEPT ![h].live = TRUE]
  /\ etsClient' = h /\ etsArms' = etsArms + 1
  /\ UNCHANGED <<etsNow, etsAlarm, etsServ>>

arm(h, d, repeat) ==
  /\ etsClient = NoHandle /\ etsArms < MAX_ARMS /\ HasSlot(h)
  /\ etsTimers' = [etsTimers EXCEPT ![h] = [live |-> TRUE, at |-> NotBefore(etsNow + d, 1),
                                            period |-> IF repeat THEN d ELSE 0]]
  /\ etsClient' = h /\ etsArms' = etsArms + 1
  /\ UNCHANGED <<etsNow, etsAlarm, etsServ>>

kick ==
  /\ etsClient # NoHandle
  /\ etsAlarm' = etsNow /\ etsClient' = NoHandle
  /\ UNCHANGED <<etsNow, etsTimers, etsServ, etsArms>>

timer_disarm(h) ==
  /\ etsClient = NoHandle /\ etsTimers[h].live /\ etsTimers[h].at # 0
  /\ etsTimers' = [etsTimers EXCEPT ![h].at = 0, ![h].period = 0]
  /\ UNCHANGED <<etsNow, etsAlarm, etsServ, etsClient, etsArms>>

timer_done(h) ==
  /\ etsClient = NoHandle /\ etsTimers[h].live
  /\ etsTimers' = [etsTimers EXCEPT ![h] = NoTimer]
  /\ UNCHANGED <<etsNow, etsAlarm, etsServ, etsClient, etsArms>>

TimePasses ==
  /\ etsServ.at = "wait" /\ ~WaitTimesOut /\ ~AlarmDue /\ etsClient = NoHandle
  /\ etsNow < MAX_NOW /\ etsNow' = etsNow + 1
  /\ UNCHANGED <<etsTimers, etsAlarm, etsServ, etsClient, etsArms>>

EtsNext ==
  \/ ServeRead \/ ServeSet \/ ServeSleep \/ ServeTimesOut \/ on_alarm \/ collect_due \/ ServeCall
  \/ kick \/ TimePasses
  \/ \E h \in Handles : timer_setfn(h) \/ timer_disarm(h) \/ timer_done(h)
  \/ \E h \in Handles, d \in Delays, r \in BOOLEAN : arm(h, d, r)

EtsSpec == EtsInit /\ [][EtsNext]_etsVars

(* "A missed alarm makes this late rather than dead": no timer is overdue by
   more than the time-out of the service task's wait, whichever kick is lost
   on a service task that was not yet asleep. *)
LateByBackstop == \A h \in Armed : etsNow - etsTimers[h].at <= IDLE_WAKE

(* "So every arm pulls the alarm in to now": what the comment on kick says;
   not an invariant, see the README. *)
OnTime == \A h \in Armed : etsNow <= etsTimers[h].at
=============================================================================
