------------------------------- MODULE Timers -------------------------------
(***************************************************************************)
(* Time, sleeping and software timers (kernel/src/timer.rs), down to the   *)
(* 64-bit tick counter, which both machines keep as two 32-bit words.      *)
(*                                                                         *)
(* On the RP2040 ("arm") a critical section excludes both cores, and only  *)
(* core 0 keeps time.  On the ESP32 ("xtensa") it masks one core, core 0   *)
(* writes the counter word by word, and both cores read it and process     *)
(* sleepers and timers.  The words have HALF values; in which order the    *)
(* compiler touches them is open.                                          *)
(***************************************************************************)
EXTENDS Integers, FiniteSetsExt

CONSTANTS Sleepers,   \* tasks, each sleeping on its own account
          Callbacks,  \* timer callbacks, told apart by name
          Periodic,   \* those registered with every()
          MAX_TIMERS, \* slots of the table
          HALF,       \* values of one word of the counter
          MAX_TICKS,  \* bound: ticks
          MAX_REGS,   \* bound: registrations of a callback
          TimeMachines, \* the machines to consider: "arm", "xtensa"
          TimeUses    \* bound: its tasks "sleep" or use "timers", not both

ASSUME TimersAssumption ==
  /\ Periodic \subseteq Callbacks /\ Sleepers \cap Callbacks = {} /\ "none" \notin Sleepers \cup Callbacks
  /\ MAX_TIMERS \in Nat \ {0} /\ HALF \in Nat \ {0, 1}
  /\ MAX_TICKS \in Nat /\ MAX_TICKS < HALF * HALF /\ MAX_REGS \in Nat /\ TimeMachines \subseteq {"arm", "xtensa"} /\ TimeUses \subseteq {"sleep", "timers"}

VARIABLES timeOn,   \* the machine
          timeUse,  \* what its tasks use
          count,    \* TICK_COUNT as stored: [lo, hi]
          ticks,    \* history: ticks begun
          doing,    \* core -> what its trap handler or call is at, and its operands
          until,    \* sleeper -> sleep_until (0: none)
          asleep,   \* sleepers in BlockedSleep
          due,      \* history: the tick a sleeper or a timer asked for
          early,    \* history: something happened before the tick it asked for
          table,    \* slot -> [id, fire_at, interval, callback], or empty
          next_id,
          regs,     \* history: registrations, cancellations and runs of a callback
          cancels, runs

timeVars == <<timeOn, timeUse, count, ticks, doing, until, asleep, due, early, table, next_id, regs, cancels, runs>>

TimeCores == {0, 1}
TimerSlots == 1..MAX_TIMERS
NoTimer == [id |-> 0, fire_at |-> 0, interval |-> 0, callback |-> "none"]
Rest == [at |-> "task", lo |-> 0, hi |-> 0, for |-> "none", who |-> "none", ms |-> 0, cbs |-> {}]

Value(w) == w.hi * HALF + w.lo
Split(n) == [lo |-> n % HALF, hi |-> n \div HALF]

TimersInit ==
  /\ timeOn \in TimeMachines /\ timeUse \in TimeUses
  /\ count = Split(0) /\ ticks = 0
  /\ doing = [c \in TimeCores |-> Rest]
  /\ until = [t \in Sleepers |-> 0] /\ asleep = {}
  /\ due = [x \in Sleepers \cup Callbacks |-> 0] /\ early = FALSE
  /\ table = [i \in TimerSlots |-> NoTimer] /\ next_id = 1
  /\ regs = [k \in Callbacks |-> 0] /\ cancels = regs /\ runs = regs

TypeTimers ==
  /\ timeOn \in TimeMachines /\ count \in [lo : 0..HALF - 1, hi : 0..HALF - 1] /\ ticks \in 0..MAX_TICKS
  /\ \A c \in TimeCores : doing[c].cbs \subseteq Callbacks
  /\ until \in [Sleepers -> Nat] /\ asleep \subseteq Sleepers /\ early \in BOOLEAN
  /\ \A i \in TimerSlots : table[i].callback \in Callbacks \cup {"none"}
  /\ next_id \in Nat /\ regs \in [Callbacks -> 0..MAX_REGS]

tableVars == <<table, next_id, regs, cancels, runs>>
sleepVars == <<until, asleep>>

(***************************************************************************)
(* The counter.                                                            *)
(***************************************************************************)

(* Tick::tick on the boot core: the words are stored one after the other, or
   both at once under the chip-wide lock. *)
Tick ==
  /\ doing[0].at = "task" /\ ticks < MAX_TICKS
  /\ ticks' = ticks + 1
  /\ LET new == Split(ticks')
     IN  \/ /\ timeOn = "arm"
            /\ count' = new
            /\ doing' = [doing EXCEPT ![0] = [Rest EXCEPT !.at = "read", !.for = "trap"]]
         \/ /\ timeOn = "xtensa"
            /\ \/ count' = [count EXCEPT !.lo = new.lo]
               \/ count' = [count EXCEPT !.hi = new.hi]
            /\ doing' = [doing EXCEPT ![0] = [Rest EXCEPT !.at = "store", !.lo = new.lo, !.hi = new.hi]]
  /\ UNCHANGED <<timeOn, timeUse, due, early, sleepVars, tableVars>>

TickStored ==
  /\ doing[0].at = "store"
  /\ count' = [lo |-> doing[0].lo, hi |-> doing[0].hi]
  /\ doing' = [doing EXCEPT ![0] = [Rest EXCEPT !.at = "read", !.for = "trap"]]
  /\ UNCHANGED <<timeOn, timeUse, ticks, due, early, sleepVars, tableVars>>

(* The second core's own timer interrupt: it does not advance time. *)
TickOther ==
  /\ timeOn = "xtensa" /\ doing[1].at = "task"
  /\ doing' = [doing EXCEPT ![1] = [Rest EXCEPT !.at = "read", !.for = "trap"]]
  /\ UNCHANGED <<timeOn, timeUse, count, ticks, due, early, sleepVars, tableVars>>

Have(c, w, at) == doing' = [doing EXCEPT ![c].lo = w.lo, ![c].hi = w.hi, ![c].at = at]

(* Tick::now: one word, then the other. *)
ReadNow(c) ==
  /\ doing[c].at = "read"
  /\ IF timeOn = "arm" THEN Have(c, count, "now")
     ELSE Have(c, [count EXCEPT !.hi = 0], "read_hi") \/ Have(c, [count EXCEPT !.lo = 0], "read_lo")
  /\ UNCHANGED <<timeOn, timeUse, count, ticks, due, early, sleepVars, tableVars>>

ReadRest(c) ==
  /\ \/ doing[c].at = "read_hi" /\ Have(c, [lo |-> doing[c].lo, hi |-> count.hi], "now")
     \/ doing[c].at = "read_lo" /\ Have(c, [lo |-> count.lo, hi |-> doing[c].hi], "now")
  /\ UNCHANGED <<timeOn, timeUse, count, ticks, due, early, sleepVars, tableVars>>

Now(c, for) == doing[c].at = "now" /\ doing[c].for = for
Done(c) == doing' = [doing EXCEPT ![c] = Rest]

(***************************************************************************)
(* Sleeping.                                                               *)
(***************************************************************************)

(* A task calls sleep_ms, once or every; the time is read before the table
   or the task changes. *)
Call(c, for, who, ms) ==
  /\ doing[c].at = "task"
  /\ doing' = [doing EXCEPT ![c] = [Rest EXCEPT !.at = "read", !.for = for, !.who = who, !.ms = ms]]
  /\ due' = [due EXCEPT ![who] = ticks + ms]
  /\ UNCHANGED <<timeOn, timeUse, count, ticks, early, sleepVars, tableVars>>

sleep_ms(c) ==
  /\ Now(c, "sleep") /\ Done(c)
  /\ until' = [until EXCEPT ![doing[c].who] = Value(doing[c]) + doing[c].ms]
  /\ asleep' = asleep \cup {doing[c].who}
  /\ UNCHANGED <<timeOn, timeUse, count, ticks, due, early, tableVars>>

(* on_tick wakes every sleeper whose deadline has come; 0 is none. *)
Expired(now) == {t \in asleep : until[t] # 0 /\ until[t] <= now}

on_tick(c) ==
  /\ Now(c, IF timeOn = "arm" THEN "wake" ELSE "trap")
  /\ LET woken == Expired(Value(doing[c]))
     IN  /\ asleep' = asleep \ woken
         /\ until' = [t \in Sleepers |-> IF t \in woken THEN 0 ELSE until[t]]
         /\ early' = (early \/ \E t \in woken : ticks < due[t])
  /\ doing' = [doing EXCEPT ![c] = IF timeOn = "arm" THEN Rest ELSE [@ EXCEPT !.for = "timers"]]
  /\ UNCHANGED <<timeOn, timeUse, count, ticks, due, tableVars>>

(***************************************************************************)
(* The timer table.                                                        *)
(***************************************************************************)

(* register: the first empty slot, or 0 when there is none. *)
register(c) ==
  /\ Now(c, "register") /\ Done(c)
  /\ LET k == doing[c].who
         free == {i \in TimerSlots : table[i] = NoTimer}
     IN  IF free = {} THEN UNCHANGED tableVars
         ELSE /\ table' = [table EXCEPT ![Min(free)] =
                   [id |-> next_id, fire_at |-> Value(doing[c]) + doing[c].ms,
                    interval |-> IF k \in Periodic THEN doing[c].ms ELSE 0, callback |-> k]]
              /\ next_id' = next_id + 1
              /\ regs' = [regs EXCEPT ![k] = @ + 1]
              /\ UNCHANGED <<cancels, runs>>
  /\ UNCHANGED <<timeOn, timeUse, count, ticks, due, early, sleepVars>>

(* cancel, from a task or from a callback. *)
cancel(c, i) ==
  /\ doing[c].at \in {"task", "callbacks"} /\ table[i] # NoTimer
  /\ table' = [table EXCEPT ![i] = NoTimer]
  /\ cancels' = [cancels EXCEPT ![table[i].callback] = @ + 1]
  /\ UNCHANGED <<timeOn, timeUse, count, ticks, doing, due, early, sleepVars, next_id, regs, runs>>

(* process_timers: one pass under the lock takes every due callback, moves a
   periodic entry on and removes a one-shot one; the lock is then released. *)
DueSlots(now) == {i \in TimerSlots : table[i] # NoTimer /\ table[i].fire_at <= now}

(* Mutant: a one-shot entry stays. *)
ProcessTimersKeeps(c) ==
  /\ Now(c, IF timeOn = "arm" THEN "trap" ELSE "timers")
  /\ LET now == Value(doing[c])
         hits == DueSlots(now)
     IN  /\ table' = [i \in TimerSlots |->
                        IF i \notin hits THEN table[i]
                        ELSE IF table[i].interval > 0
                        THEN [table[i] EXCEPT !.fire_at = now + table[i].interval] ELSE table[i]]
         /\ doing' = [doing EXCEPT ![c].at = "callbacks", ![c].cbs = {table[i].callback : i \in hits}]
         /\ early' = (early \/ \E i \in hits : table[i].interval = 0 /\ ticks < due[table[i].callback])
  /\ UNCHANGED <<timeOn, timeUse, count, ticks, due, sleepVars, next_id, regs, cancels, runs>>

process_timers(c) ==
  /\ Now(c, IF timeOn = "arm" THEN "trap" ELSE "timers")
  /\ LET now == Value(doing[c])
         hits == DueSlots(now)
     IN  /\ table' = [i \in TimerSlots |->
                        IF i \notin hits THEN table[i]
                        ELSE IF table[i].interval > 0
                        THEN [table[i] EXCEPT !.fire_at = now + table[i].interval] ELSE NoTimer]
         /\ doing' = [doing EXCEPT ![c].at = "callbacks", ![c].cbs = {table[i].callback : i \in hits}]
         /\ early' = (early \/ \E i \in hits : table[i].interval = 0 /\ ticks < due[table[i].callback])
  /\ UNCHANGED <<timeOn, timeUse, count, ticks, due, sleepVars, next_id, regs, cancels, runs>>

(* The callbacks, outside the lock. *)
RunCallback(c, k) ==
  /\ doing[c].at = "callbacks" /\ k \in doing[c].cbs
  /\ doing' = [doing EXCEPT ![c].cbs = @ \ {k}]
  /\ runs' = IF k \in Periodic THEN runs ELSE [runs EXCEPT ![k] = @ + 1]
  /\ UNCHANGED <<timeOn, timeUse, count, ticks, due, early, sleepVars, table, next_id, regs, cancels>>

CallbacksDone(c) ==
  /\ doing[c].at = "callbacks" /\ doing[c].cbs = {}
  /\ doing' = [doing EXCEPT ![c] = IF timeOn = "arm" THEN [@ EXCEPT !.at = "now", !.for = "wake"] ELSE Rest]
  /\ UNCHANGED <<timeOn, timeUse, count, ticks, due, early, sleepVars, tableVars>>

InTable(k) == {i \in TimerSlots : table[i].callback = k}
Registering(k) == \E c \in TimeCores : doing[c].who = k

TimersNext ==
  \/ Tick \/ TickStored \/ TickOther
  \/ \E c \in TimeCores :
       \/ ReadNow(c) \/ ReadRest(c) \/ sleep_ms(c) \/ on_tick(c) \/ register(c) \/ process_timers(c)
       \/ CallbacksDone(c)
       \/ \E k \in Callbacks : RunCallback(c, k)
       \/ \E i \in TimerSlots : cancel(c, i)
       \/ \E t \in Sleepers \ asleep, ms \in 1..2 : timeUse = "sleep" /\ ~Registering(t) /\ Call(c, "sleep", t, ms)
       \/ \E k \in Callbacks, ms \in 1..2 : /\ timeUse = "timers" /\ ~Registering(k) /\ InTable(k) = {} /\ regs[k] < MAX_REGS
                                           /\ Call(c, "register", k, ms)

TimersSpec == TimersInit /\ [][TimersNext]_timeVars

(***************************************************************************)
(* Properties.                                                             *)
(***************************************************************************)

(* A registration is in the table, cancelled, on its way to run in one core's
   snapshot, or has run: it is never lost and never runs twice, though both
   cores process the table while tasks register and callbacks cancel
   (kernel/src/timer.rs: register, cancel, process_timers). *)
TimersConserved ==
  \A k \in Callbacks :
    regs[k] = Cardinality(InTable(k)) + cancels[k] + runs[k]
                + (IF k \in Periodic THEN 0 ELSE Cardinality({c \in TimeCores : k \in doing[c].cbs}))

(* Where a critical section excludes both cores, nobody wakes and nothing
   fires before the tick that was asked for. *)
NotEarlyOnArm == timeOn = "arm" => ~early

(* No registration is lost or repeated, and where now() cannot be torn none
   fires, and no sleeper wakes, before its time. *)
TimersKept == TimersConserved /\ NotEarlyOnArm

(* What arch/xtensa/src/tick.rs claims, that now() is read in a critical
   section "to avoid torn reads": no sleeper wakes and no timer fires early. *)
NotEarly == ~early
=============================================================================
