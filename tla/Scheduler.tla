----------------------------- MODULE Scheduler -----------------------------
(***************************************************************************)
(* The preemptive priority scheduler: kernel/src/scheduler.rs, with the    *)
(* two trap handlers that consume its pending-switch flags (switch.rs on   *)
(* Xtensa, armv6m.rs on Cortex-M0+) and the sleep of timer.rs.             *)
(*                                                                         *)
(* Everything scheduler::with does is one step, because it runs under the  *)
(* scheduler spinlock.  What the code does after unlocking is not:         *)
(* request_switch reads the core number, stores the pending flag and       *)
(* raises the software interrupt with interrupts enabled, so the task can  *)
(* be preempted, woken or migrated between those points.  pc follows a     *)
(* task through them: run -> req (owes request_switch) -> store (has read  *)
(* its core number) -> wait (interrupt raised) -> run.                     *)
(*                                                                         *)
(* Time is abstract: which sleepers a tick finds expired is a choice.      *)
(***************************************************************************)
EXTENDS Integers, FiniteSets, FiniteSetsExt

CONSTANTS
  MAX_TASKS,        \* task slots; tasks are 0 .. MAX_TASKS - 1
  NUM_PRIORITIES,   \* effective levels, 0 is the most urgent, the last is idle
  Cores,            \* cores that have joined the scheduler
  BootCore,         \* the core that owns time
  AnyCore,          \* Affinity::Any
  Affinity,         \* Affinity[t]: a core, or AnyCore
  BasePrio,         \* BasePrio[t]: the task's own priority
  IdleTask,         \* IdleTask[c]: the idle task pinned to core c
  DEFAULT_QUANTUM,  \* ticks between rotations at one level
  XTENSA            \* TRUE: switch.rs; FALSE: armv6m.rs

Tasks == 0 .. MAX_TASKS - 1
Priorities == 0 .. NUM_PRIORITIES - 1
IDLE_PRIORITY == NUM_PRIORITIES - 1
IdleTasks == {IdleTask[c] : c \in Cores}
AppTasks == Tasks \ IdleTasks

ASSUME SizesAssumption ==
  /\ MAX_TASKS \in Nat \ {0}
  /\ NUM_PRIORITIES \in Nat \ {0, 1}
  /\ DEFAULT_QUANTUM \in Nat \ {0}
  /\ XTENSA \in BOOLEAN
ASSUME CoresAssumption ==
  /\ IsFiniteSet(Cores)
  /\ BootCore \in Cores
  /\ AnyCore \notin Cores
ASSUME TasksAssumption ==
  /\ Affinity \in [Tasks -> Cores \cup {AnyCore}]
  /\ BasePrio \in [Tasks -> Priorities]
  /\ IdleTask \in [Cores -> Tasks]
  /\ \A c, d \in Cores : IdleTask[c] = IdleTask[d] => c = d
  /\ \A c \in Cores : Affinity[IdleTask[c]] = c
  /\ \A t \in Tasks : BasePrio[t] = IDLE_PRIORITY <=> t \in IdleTasks

VARIABLES
  state,     \* TaskState of each TCB
  prio,      \* TCB.priority, the effective priority
  quantum,   \* TCB.quantum
  current,   \* Scheduler.current_per_core
  ready,     \* Scheduler.ready_mask, as the set of its one bits
  lastRun,   \* Scheduler.last_run, the rotor of each level
  pending,   \* PENDING_SWITCH, per core
  raised,    \* a software interrupt, IPI or tick trap is due on the core
  pc,        \* where each task is in request_switch
  reqCore    \* the core number request_switch read; BootCore when it has none

schedVars == <<state, prio, quantum, current, ready, lastRun, pending,
               raised, pc, reqCore>>

Runnable == {"Ready", "Running"}
Blocked == {"BlockedSleep", "BlockedMutex"}

SchedTypeOK ==
  /\ state \in [Tasks -> Runnable \cup Blocked]
  /\ prio \in [Tasks -> Priorities]
  /\ quantum \in [Tasks -> 0 .. DEFAULT_QUANTUM]
  /\ current \in [Cores -> Tasks]
  /\ ready \in SUBSET Priorities
  /\ lastRun \in [Priorities -> Tasks]
  /\ pending \in [Cores -> BOOLEAN]
  /\ raised \in [Cores -> BOOLEAN]
  /\ pc \in [Tasks -> {"run", "req", "store", "wait"}]
  /\ reqCore \in [Tasks -> Cores]

(* After boot: each core runs its idle task, every application task has    *)
(* been spawned (make_ready), and the spawns asked for a reschedule.       *)
SchedInit ==
  /\ state = [t \in Tasks |-> IF t \in IdleTasks THEN "Running" ELSE "Ready"]
  /\ prio = BasePrio
  /\ quantum = [t \in Tasks |-> DEFAULT_QUANTUM]
  /\ current = IdleTask
  /\ ready = {BasePrio[t] : t \in Tasks}
  /\ lastRun = [p \in Priorities |-> 0]
  /\ pending = [c \in Cores |-> TRUE]
  /\ raised = [c \in Cores |-> TRUE]
  /\ pc = [t \in Tasks |-> "run"]
  /\ reqCore = [t \in Tasks |-> BootCore]

----------------------------------------------------------------------------
(* Affinity::allows and Scheduler::running_elsewhere.                      *)
Allows(t, c) == Affinity[t] \in {AnyCore, c}
RunningElsewhere(t, c) == \E d \in Cores \ {c} : current[d] = t

(* recompute_ready_bit(p), on the states and priorities just written.      *)
RecomputeReadyBit(mask, st, pr, p) ==
  IF \E t \in Tasks : pr[t] = p /\ st[t] \in Runnable
    THEN mask \cup {p}
    ELSE mask \ {p}

(* The cores record_ready marks for the tasks in S.                        *)
ReadyCores(S) == {c \in Cores : \E t \in S : Allows(t, c)}

(* dispatch_ready_reschedules: flag first, then the interrupt.             *)
NotifyOnly(K) == [c \in Cores |-> c \in K \/ pending[c]]
RaiseOnly(K) == [c \in Cores |-> c \in K \/ raised[c]]

(* Mutant: trust the ready mask and the state, as a single-core scheduler  *)
(* could.                                                                  *)
EligibleSingleCore(c, p) ==
  {t \in Tasks : prio[t] = p /\ state[t] \in Runnable /\ Allows(t, c)}

(* What schedule() may hand to core c at level p, and the level it picks.  *)
Eligible(c, p) ==
  {t \in Tasks : /\ prio[t] = p
                 /\ state[t] \in Runnable
                 /\ Allows(t, c)
                 /\ ~RunningElsewhere(t, c)}
ReadyLevels(c) == {p \in ready : Eligible(c, p) # {}}

(* Mutant: a rotor that always starts at the first slot.                   *)
NextInRingFirst(S, last) == Min(S)

(* The first of S the rotor meets when it starts just after last.          *)
NextInRing(S, last) ==
  LET dist(t) == (t + MAX_TASKS - last - 1) % MAX_TASKS
  IN  CHOOSE t \in S : \A u \in S : dist(t) <= dist(u)

(* Mutant: look only at the most urgent ready level.                       *)
ScheduleTopBit(c) ==
  LET p == Min(ready) IN
  IF Eligible(c, p) = {} THEN current[c] ELSE NextInRing(Eligible(c, p), lastRun[p])

(* schedule(): the task, falling back to the current one.                  *)
Schedule(c) ==
  IF ReadyLevels(c) = {} THEN current[c]
  ELSE LET p == Min(ReadyLevels(c)) IN NextInRing(Eligible(c, p), lastRun[p])

----------------------------------------------------------------------------
(* A task runs on core c when it is current there and is not inside        *)
(* request_switch.  Nothing here looks at its TaskState: neither does the  *)
(* processor.                                                              *)
Executes(c, t) == current[c] = t /\ pc[t] = "run"

Goto(t, l) == pc' = [pc EXCEPT ![t] = l]

(* Mutant: block without clearing the ready bit.                           *)
SleepMsKeepBit(c, t) ==
  /\ Executes(c, t)
  /\ t \in AppTasks
  /\ state' = [state EXCEPT ![t] = "BlockedSleep"]
  /\ Goto(t, "req")
  /\ UNCHANGED <<prio, quantum, current, ready, lastRun, pending, raised, reqCore>>

(* timer::sleep_ms under the lock: block_current(BlockedSleep).            *)
SleepMs(c, t) ==
  /\ Executes(c, t)
  /\ t \in AppTasks
  /\ state' = [state EXCEPT ![t] = "BlockedSleep"]
  /\ ready' = RecomputeReadyBit(ready, state', prio, prio[t])
  /\ Goto(t, "req")
  /\ UNCHANGED <<prio, quantum, current, lastRun, pending, raised, reqCore>>

(* yield_current: only with a real peer for this core.                     *)
YieldCurrent(c, t) ==
  /\ Executes(c, t)
  /\ \E u \in Tasks \ {t} : /\ state[u] = "Ready"
                            /\ prio[u] <= prio[t]
                            /\ Allows(u, c)
                            /\ ~RunningElsewhere(u, c)
  /\ state' = [state EXCEPT ![t] = "Ready"]
  /\ ready' = ready \cup {prio[t]}
  /\ Goto(t, "req")
  /\ UNCHANGED <<prio, quantum, current, lastRun, pending, raised, reqCore>>

(* request_switch, first half: set_pending_switch indexes the flags with   *)
(* the core number it reads here.                                          *)
ReadCore(c, t) ==
  /\ current[c] = t
  /\ pc[t] = "req"
  /\ reqCore' = [reqCore EXCEPT ![t] = c]
  /\ Goto(t, "store")
  /\ UNCHANGED <<state, prio, quantum, current, ready, lastRun, pending, raised>>

(* Mutant: one pending flag for both cores, on the boot core's index.      *)
RequestSwitchShared(c, t) ==
  /\ current[c] = t
  /\ pc[t] = "store"
  /\ pending' = [pending EXCEPT ![BootCore] = TRUE]
  /\ raised' = [raised EXCEPT ![c] = TRUE]
  /\ reqCore' = [reqCore EXCEPT ![t] = BootCore]
  /\ Goto(t, "wait")
  /\ UNCHANGED <<state, prio, quantum, current, ready, lastRun>>

(* request_switch, second half: the flag of the core that was read, the    *)
(* software interrupt of the core that runs now.                           *)
RequestSwitch(c, t) ==
  /\ current[c] = t
  /\ pc[t] = "store"
  /\ pending' = [pending EXCEPT ![reqCore[t]] = TRUE]
  /\ raised' = [raised EXCEPT ![c] = TRUE]
  /\ reqCore' = [reqCore EXCEPT ![t] = BootCore]
  /\ Goto(t, "wait")
  /\ UNCHANGED <<state, prio, quantum, current, ready, lastRun>>

(* another_ready_at(prio, except).                                         *)
AnotherReadyAt(st, p, except) ==
  \E t \in Tasks \ {except} : prio[t] = p /\ st[t] = "Ready"

(* Mutant: a woken task does not set its ready bit.                        *)
OnTickNoBit(c, W) ==
  /\ state' = [t \in Tasks |-> IF t \in W THEN "Ready" ELSE state[t]]
  /\ pending' = NotifyOnly(ReadyCores(W))
  /\ raised' = RaiseOnly(ReadyCores(W))
  /\ UNCHANGED <<prio, quantum, current, ready, lastRun, pc, reqCore>>

(* Mutant: the quantum counts down and is never refilled.                  *)
OnTickNoRefill(c, W) ==
  /\ quantum' = [quantum EXCEPT ![current[c]] = @ - 1]
  /\ UNCHANGED <<state, prio, current, ready, lastRun, pending, raised, pc, reqCore>>

(* on_tick on core c: wake the expired sleepers W, preempt for anything    *)
(* more urgent, rotate the level when the quantum ends and the current     *)
(* task is Running.                                                        *)
OnTick(c, W) ==
  LET cur == current[c]
      st == [t \in Tasks |-> IF t \in W THEN "Ready" ELSE state[t]]
      mask == ready \cup {prio[t] : t \in W}
      expired == (IF cur \in W THEN DEFAULT_QUANTUM ELSE quantum[cur]) <= 1
      better == \E p \in mask : p < prio[cur]
      rotate == expired /\ st[cur] = "Running" /\ AnotherReadyAt(st, prio[cur], cur)
      need == better \/ rotate
  IN  /\ state' = st
      /\ ready' = mask
      /\ quantum' = [t \in Tasks |->
                       IF t = cur
                         THEN IF expired THEN DEFAULT_QUANTUM
                              ELSE (IF t \in W THEN DEFAULT_QUANTUM ELSE quantum[t]) - 1
                       ELSE IF t \in W THEN DEFAULT_QUANTUM ELSE quantum[t]]
      /\ pending' = [NotifyOnly(ReadyCores(W)) EXCEPT ![c] = @ \/ need]
      /\ raised' = [RaiseOnly(ReadyCores(W)) EXCEPT ![c] = @ \/ XTENSA \/ pending'[c]]
      /\ UNCHANGED <<prio, current, lastRun, pc, reqCore>>

(* Mutant: an old deadline wakes a task that waits for a mutex.            *)
TickWakesAny(c) ==
  \E W \in SUBSET {t \in Tasks : state[t] \in Blocked} : OnTick(c, W)

(* The timer interrupt.  On Xtensa every core runs on_tick; on ARM only    *)
(* the timekeeper does, and the other core only honours a pending flag.    *)
Tick(c) ==
  IF XTENSA \/ c = BootCore
    THEN \E W \in SUBSET {t \in Tasks : state[t] = "BlockedSleep"} : OnTick(c, W)
    ELSE /\ raised' = [raised EXCEPT ![c] = @ \/ pending[c]]
         /\ UNCHANGED <<state, prio, quantum, current, ready, lastRun, pending,
                        pc, reqCore>>

(* The trap's decision when schedule() answers with another task: save the *)
(* outgoing one (demoted to Ready unless it blocked itself), set_current.  *)
SwitchTo(c, next) ==
  LET cur == current[c] IN
  /\ state' = [t \in Tasks |->
                 IF t = next THEN "Running"
                 ELSE IF t = cur /\ state[cur] = "Running" THEN "Ready"
                 ELSE state[t]]
  /\ ready' = IF state[cur] = "Running" THEN ready \cup {prio[cur]} ELSE ready
  /\ current' = [current EXCEPT ![c] = next]

(* ... and when it answers with the task already there.  Only the ARM      *)
(* handler makes a Ready task Running again.                               *)
StayOn(c, cur) ==
  /\ state' = IF ~XTENSA /\ state[cur] = "Ready"
                THEN [state EXCEPT ![cur] = "Running"] ELSE state
  /\ UNCHANGED <<ready, current>>

(* _flint_trap / _flint_armv6m_switch: take_pending_switch and decide.     *)
Trap(c) ==
  LET cur == current[c]
      next == Schedule(c)
  IN  /\ raised[c]
      /\ raised' = [raised EXCEPT ![c] = FALSE]
      /\ pending' = [pending EXCEPT ![c] = FALSE]
      /\ IF ~pending[c]
           THEN UNCHANGED <<state, ready, current, lastRun>>
           ELSE /\ lastRun' = IF ReadyLevels(c) = {} THEN lastRun
                              ELSE [lastRun EXCEPT ![prio[next]] = next]
                /\ IF next = cur THEN StayOn(c, cur) ELSE SwitchTo(c, next)
      /\ pc' = [pc EXCEPT ![cur] = IF @ = "wait" THEN "run" ELSE @]
      /\ UNCHANGED <<prio, quantum, reqCore>>

SchedNext ==
  \/ \E c \in Cores : Tick(c) \/ Trap(c)
  \/ \E c \in Cores, t \in Tasks :
       \/ SleepMs(c, t) \/ YieldCurrent(c, t)
       \/ ReadCore(c, t) \/ RequestSwitch(c, t)

SchedSpec == SchedInit /\ [][SchedNext]_schedVars

(* What the hardware guarantees: the timer keeps ticking on every core, a  *)
(* raised interrupt is taken, and a core that is inside request_switch     *)
(* finishes it.                                                            *)
SchedFairness ==
  \A c \in Cores :
    /\ WF_schedVars(Tick(c))
    /\ WF_schedVars(Trap(c))
    /\ WF_schedVars(\E t \in Tasks : ReadCore(c, t) \/ RequestSwitch(c, t))

FairSchedSpec == SchedSpec /\ SchedFairness

----------------------------------------------------------------------------
(* t waits for core c although c runs u, CPU-bound, at the same level ...  *)
PeerWaits(t, u, c) ==
  /\ state[t] = "Ready"
  /\ \A d \in Cores : current[d] # t
  /\ Allows(t, c)
  /\ Executes(c, u)
  /\ prio[u] = prio[t]

(* ... or a less urgent one.                                               *)
Outranks(t, c) ==
  /\ state[t] = "Ready"
  /\ \A d \in Cores : current[d] # t
  /\ Allows(t, c)
  /\ prio[current[c]] > prio[t]

(* scheduler.rs: "round-robin within a level via a 10 ms quantum".  A task *)
(* that only computes never keeps a core for good while a peer waits.      *)
RoundRobin ==
  \A c \in Cores, t, u \in AppTasks : ~<>[]PeerWaits(t, u, c)

(* A ready task never waits for good behind a less urgent one: "a ready    *)
(* task at a better priority than the running one must preempt".           *)
Preemption == \A t \in AppTasks, c \in Cores : ~<>[]Outranks(t, c)

(* For TLC: one core with its idle task and two peers.                     *)
PeersIdle == [c \in {0} |-> 0]
PeersBase == [t \in 0 .. 2 |-> IF t = 0 THEN 1 ELSE 0]
PeersAffinity == [t \in 0 .. 2 |-> IF t = 1 THEN AnyCore ELSE 0]
=============================================================================
