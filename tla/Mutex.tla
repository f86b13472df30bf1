------------------------------- MODULE Mutex -------------------------------
(***************************************************************************)
(* The priority-inheritance mutex of kernel/src/mutex.rs, on top of the    *)
(* scheduler.  lock and unlock run under the scheduler spinlock, so each   *)
(* is one step up to the request_switch that follows it.                   *)
(*                                                                         *)
(* A table entry exists exactly while the mutex is held: find_or_create    *)
(* is followed by taking the lock in the same step, and unlock frees the   *)
(* entry when nobody waits.                                                *)
(***************************************************************************)
EXTENDS Scheduler, Sequences

CONSTANTS
  Mutexes,      \* addresses passed to lock
  NoTask,       \* NO_TASK
  NoMutex,      \* blocked_on_mutex = None
  MAX_MUTEXES,  \* entries of the table
  MAX_WAITERS   \* waiters of one entry

ASSUME MutexAssumption ==
  /\ IsFiniteSet(Mutexes)
  /\ NoTask \notin Tasks
  /\ NoMutex \notin Mutexes
  /\ MAX_MUTEXES \in Nat
  /\ MAX_WAITERS \in Nat

VARIABLES
  owner,      \* MutexEntry.owner
  waiters,    \* MutexEntry.waiters[0 .. waiter_count], in arrival order
  blockedOn,  \* TCB.blocked_on_mutex
  guards      \* the MutexGuards a task has, or will have when lock returns

mutexVars == <<owner, waiters, blockedOn, guards>>
vars == <<schedVars, mutexVars>>

TypeOK ==
  /\ SchedTypeOK
  /\ owner \in [Mutexes -> Tasks \cup {NoTask}]
  /\ waiters \in [Mutexes -> Seq(Tasks)]
  /\ blockedOn \in [Tasks -> Mutexes \cup {NoMutex}]
  /\ guards \in [Tasks -> SUBSET Mutexes]

Init ==
  /\ SchedInit
  /\ owner = [m \in Mutexes |-> NoTask]
  /\ waiters = [m \in Mutexes |-> <<>>]
  /\ blockedOn = [t \in Tasks |-> NoMutex]
  /\ guards = [t \in Tasks |-> {}]

Entries(s) == {s[i] : i \in DOMAIN s}
Waiting(m) == Entries(waiters[m])
Table == {m \in Mutexes : owner[m] # NoTask}

----------------------------------------------------------------------------
(* boost_chain: the owner, the owner of the mutex it is blocked on, and so *)
(* on.  The least set closed under that step; WalkCoversChain says that    *)
(* the code's walk of at most MAX_MUTEXES links is all of it.              *)
Follows(t, u) == blockedOn[t] # NoMutex /\ owner[blockedOn[t]] = u
ChainClosed(S) == \A t \in S, u \in Tasks : Follows(t, u) => u \in S
BoostChain(t0) ==
  {t \in Tasks : \A S \in SUBSET Tasks : t0 \in S /\ ChainClosed(S) => t \in S}

(* boost_chain as the code walks it: one link at a time, stopping where    *)
(* the task waits for nothing or a link leads back to the same task ...    *)
Link(t) ==
  IF t = NoTask \/ blockedOn[t] = NoMutex \/ owner[blockedOn[t]] = t
    THEN NoTask ELSE owner[blockedOn[t]]

(* ... for MAX_MUTEXES boosts at most, the k-th of them this task's.       *)
WalkAt(t0) ==
  LET at[k \in 1 .. MAX_MUTEXES] == IF k = 1 THEN t0 ELSE Link(at[k - 1])
  IN  at

(* Mutant: the immediate owner only.                                       *)
WalkOwnerOnly(t0) == {t0}

Walk(t0) == {WalkAt(t0)[k] : k \in 1 .. MAX_MUTEXES} \ {NoTask}

(* Mutant: boost the immediate owner only.                                 *)
BoostedOwnerOnly(t0, target) ==
  [t \in Tasks |-> IF t = t0 /\ target < prio[t] THEN target ELSE prio[t]]

(* boost_priority(id, target) along the chain: at least as urgent.         *)
Boosted(t0, target) ==
  [t \in Tasks |-> IF t \in BoostChain(t0) /\ target < prio[t] THEN target ELSE prio[t]]

(* set_effective_priority, for every task whose priority went from prio to *)
(* pr: recompute the bit it left, set the bit it reached if it is active.  *)
MoveReadyBits(mask, st, pr) ==
  LET moved == {t \in Tasks : pr[t] # prio[t]}
      left == {prio[t] : t \in moved}
      active == {t \in moved : st[t] \in Runnable}
  IN  {p \in mask \cup left :
         p \in left => \E t \in Tasks : pr[t] = p /\ st[t] \in Runnable}
        \cup {pr[t] : t \in active}

(* lock, held by someone else: room in the waiter list is checked before   *)
(* the boost; then boost_chain, enqueue, block_current_on_mutex.  When it  *)
(* returns, the caller holds a guard.                                      *)
LockBlocks(c, t, m) ==
  /\ Executes(c, t)
  /\ t \in AppTasks
  /\ owner[m] \notin {NoTask, t}
  /\ Len(waiters[m]) < MAX_WAITERS
  /\ LET pr == Boosted(owner[m], prio[t])
         st == [state EXCEPT ![t] = "BlockedMutex"]
     IN /\ prio' = pr
        /\ state' = st
        /\ ready' = RecomputeReadyBit(MoveReadyBits(ready, state, pr), st, pr, prio[t])
  /\ waiters' = [waiters EXCEPT ![m] = Append(@, t)]
  /\ blockedOn' = [blockedOn EXCEPT ![t] = m]
  /\ guards' = [guards EXCEPT ![t] = @ \cup {m}]
  /\ Goto(t, "req")
  /\ UNCHANGED <<owner, quantum, current, lastRun, pending, raised, reqCore>>

(* lock, free: find_or_create needs a table slot.  (A refused lock, from   *)
(* the owner itself or with a table or list full, changes nothing.)        *)
LockAcquires(c, t, m) ==
  /\ Executes(c, t)
  /\ t \in AppTasks
  /\ owner[m] = NoTask
  /\ Cardinality(Table) < MAX_MUTEXES
  /\ owner' = [owner EXCEPT ![m] = t]
  /\ guards' = [guards EXCEPT ![t] = @ \cup {m}]
  /\ UNCHANGED <<schedVars, waiters, blockedOn>>

(* pop_best_waiter: the first of the most urgent ones, and the rest in     *)
(* order.                                                                  *)
BestWaiter(m) ==
  CHOOSE i \in DOMAIN waiters[m] :
    \A j \in DOMAIN waiters[m] :
      LET pi == prio[waiters[m][i]]
          pj == prio[waiters[m][j]]
      IN  pi < pj \/ (pi = pj /\ i <= j)

Without(s, i) == [j \in 1 .. Len(s) - 1 |-> IF j < i THEN s[j] ELSE s[j + 1]]

(* recompute_owner_priority(t): the most urgent of its base priority and   *)
(* the waiters of what it still holds.                                     *)
InheritedPriority(t, ow, wt) ==
  LET kept == {w \in Tasks : \E m \in Mutexes : ow[m] = t /\ w \in Entries(wt[m])}
  IN  Min({BasePrio[t]} \cup {prio[w] : w \in kept})

(* Mutant: free the mutex and let the woken waiter believe it has it.      *)
HandedOverFree(m) == [owner EXCEPT ![m] = NoTask]

(* Ownership goes straight to the best waiter.                             *)
HandedOver(m) == [owner EXCEPT ![m] = waiters[m][BestWaiter(m)]]

(* unlock with waiters: hand over to the best one and unblock it.          *)
UnlockHandsOver(c, t, m) ==
  LET i == BestWaiter(m)
      next == waiters[m][i]
      ow == HandedOver(m)
      wt == [waiters EXCEPT ![m] = Without(@, i)]
      st == [state EXCEPT ![next] = "Ready"]
      pr == [prio EXCEPT ![t] = InheritedPriority(t, ow, wt)]
      K == ReadyCores({next})
  IN
  /\ Executes(c, t)
  /\ m \in guards[t]
  /\ owner[m] = t
  /\ waiters[m] # <<>>
  /\ owner' = ow
  /\ waiters' = wt
  /\ state' = st
  /\ quantum' = [quantum EXCEPT ![next] = DEFAULT_QUANTUM]
  /\ blockedOn' = [blockedOn EXCEPT ![next] = NoMutex]
  /\ prio' = pr
  /\ ready' = MoveReadyBits(ready \cup {prio[next]}, st, pr)
  /\ pending' = [NotifyOnly(K) EXCEPT ![c] = @ \/ prio[next] < prio[t]]
  /\ raised' = RaiseOnly(K)
  /\ guards' = [guards EXCEPT ![t] = @ \ {m}]
  /\ Goto(t, "req")
  /\ UNCHANGED <<current, lastRun, reqCore>>

(* unlock without waiters: free the slot, drop the boost.                  *)
UnlockFrees(c, t, m) ==
  LET ow == [owner EXCEPT ![m] = NoTask]
      pr == [prio EXCEPT ![t] = InheritedPriority(t, ow, waiters)]
  IN
  /\ Executes(c, t)
  /\ m \in guards[t]
  /\ owner[m] = t
  /\ waiters[m] = <<>>
  /\ owner' = ow
  /\ prio' = pr
  /\ ready' = MoveReadyBits(ready, state, pr)
  /\ guards' = [guards EXCEPT ![t] = @ \ {m}]
  /\ Goto(t, "req")
  /\ UNCHANGED <<state, quantum, current, lastRun, pending, raised, reqCore,
                 waiters, blockedOn>>

(* The scheduler's own steps leave the mutex table alone.                  *)
KeepMutexes(A) == A /\ UNCHANGED mutexVars

Next ==
  \/ \E c \in Cores : KeepMutexes(Tick(c))
  \/ \E c \in Cores : KeepMutexes(Trap(c))
  \/ \E c \in Cores, t \in Tasks :
       \/ KeepMutexes(SleepMs(c, t))
       \/ KeepMutexes(YieldCurrent(c, t))
       \/ KeepMutexes(ReadCore(c, t))
       \/ KeepMutexes(RequestSwitch(c, t))
  \/ \E c \in Cores, t \in Tasks, m \in Mutexes :
       \/ LockAcquires(c, t, m)
       \/ LockBlocks(c, t, m)
       \/ UnlockHandsOver(c, t, m)
       \/ UnlockFrees(c, t, m)

Spec == Init /\ [][Next]_vars

(* The scheduler's fairness; tasks owe nothing, they may hold a mutex or   *)
(* compute for ever.                                                       *)
Fairness ==
  \A c \in Cores :
    /\ WF_vars(KeepMutexes(Tick(c)))
    /\ WF_vars(KeepMutexes(Trap(c)))
    /\ WF_vars(KeepMutexes(\E t \in Tasks : ReadCore(c, t) \/ RequestSwitch(c, t)))

FairSpec == Spec /\ Fairness

----------------------------------------------------------------------------
(* testsupport::assert_ready_mask_consistent, at every step: a ready bit   *)
(* is set exactly when a task sits runnable at that level, however the     *)
(* incremental updates of block, wake, boost and release interleave.       *)
ReadyMaskConsistent ==
  \A p \in Priorities :
    p \in ready <=> \E t \in Tasks : prio[t] = p /\ state[t] \in Runnable

(* No task is on two cores (current_per_core), none is on a core its       *)
(* affinity forbids, and a task marked Running really is on a core.        *)
OneCorePerTask ==
  /\ \A c, d \in Cores : current[c] = current[d] => c = d
  /\ \A t \in Tasks : state[t] = "Running" => \E c \in Cores : current[c] = t

AffinityRespected == \A c \in Cores : Allows(current[c], c)

(* The pending-switch protocol: a task that blocked itself never executes  *)
(* past its request_switch until it has been unblocked, even when it is    *)
(* preempted, woken or migrated before the flag is stored.                 *)
NoRunWhileBlocked ==
  \A c \in Cores : pc[current[c]] = "run" => state[current[c]] \in Runnable

(* "On resume, ownership has been transferred to us by unlock()": a task   *)
(* that executes owns every mutex it has a guard for.                      *)
GuardsAreOwned ==
  \A c \in Cores : LET t == current[c] IN
    pc[t] = "run" => \A m \in guards[t] : owner[m] = t

(* The waiter lists and the TCBs tell the same story.                      *)
WaitersMatchTasks ==
  /\ \A m \in Mutexes, t \in Tasks :
       t \in Waiting(m) <=> state[t] = "BlockedMutex" /\ blockedOn[t] = m
  /\ \A t \in Tasks : state[t] = "BlockedMutex" <=> blockedOn[t] # NoMutex
  /\ \A m \in Mutexes : waiters[m] # <<>> => owner[m] # NoTask /\ owner[m] \notin Waiting(m)

(* Priority inheritance, along every chain: the holder is at least as      *)
(* urgent as each task it keeps waiting.                                   *)
OwnerInherits ==
  \A m \in Mutexes : \A t \in Waiting(m) : prio[owner[m]] <= prio[t]

(* No boost outlives its reason: a task above its base priority holds a    *)
(* mutex some task of exactly that priority waits for.                     *)
NoStaleBoost ==
  \A t \in Tasks :
    \/ prio[t] = BasePrio[t]
    \/ /\ prio[t] < BasePrio[t]
       /\ \E m \in Mutexes : owner[m] = t /\ \E w \in Waiting(m) : prio[w] = prio[t]

(* Inheritance is exact: a holder is as urgent as what it keeps waiting    *)
(* makes it, and no more urgent than that.                                 *)
InheritanceExact == OwnerInherits /\ NoStaleBoost

(* The bound on boost_chain's walk never cuts a chain short: the tasks it  *)
(* boosts are all the tasks the holder of a mutex depends on, cycles of    *)
(* mutual waiting included.                                                *)
WalkCoversChain == \A m \in Table : Walk(owner[m]) = BoostChain(owner[m])

(* schedule() never falls back on a blocked current task, the state        *)
(* armv6m.rs panics on ("ARM scheduler selected a blocked current task").  *)
ScheduleFindsRunnable == \A c \in Cores : state[Schedule(c)] \in Runnable

----------------------------------------------------------------------------
(* For TLC: two cores, two application tasks free to migrate ...           *)
SmpIdle == [c \in {0, 1} |-> c]
SmpBase == [t \in 0 .. 3 |-> IF t \in {0, 1} THEN 2 ELSE t - 2]
SmpAffinity == [t \in 0 .. 3 |-> IF t \in {0, 1} THEN t ELSE AnyCore]

(* ... and one core, three tasks and two mutexes: chains of inheritance.   *)
UniIdle == [c \in {0} |-> 0]
UniBase == [t \in 0 .. 3 |-> IF t = 0 THEN 3 ELSE t - 1]
UniAffinity == [t \in 0 .. 3 |-> IF t = 0 THEN 0 ELSE AnyCore]
=============================================================================
