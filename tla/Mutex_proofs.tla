--------------------------- MODULE Mutex_proofs ---------------------------
(***************************************************************************)
(* Proofs about the scheduler with its mutexes, for any number of cores,   *)
(* tasks, priorities and mutexes.                                          *)
(***************************************************************************)
EXTENDS Mutex, WellFoundedInduction, FiniteSetTheorems, SequenceTheorems, TLAPS

----------------------------------------------------------------------------
(* A non-empty set of naturals has a least element, which Min chooses.     *)
LEMMA MinNat ==
  ASSUME NEW S \in SUBSET Nat, S # {}
  PROVE  Min(S) \in S /\ \A y \in S : Min(S) <= y
<1> DEFINE R == {ss \in Nat \X Nat : ss[1] < ss[2]}
<1>0. IsWellFoundedOn(R, Nat)
  BY NatLessThanWellFounded DEF OpToRel
<1> HIDE DEF R
<1>1. PICK x \in S : \A y \in S : ~(<<y, x>> \in R)
  BY <1>0, WFMin, Zenon
<1>2. \A y \in S : ~(y < x)
  BY <1>1, Zenon DEF R
<1>3. \A y \in S : x <= y
  BY <1>2
<1> QED
  BY <1>3 DEF Min

LEMMA PrioritiesNat == Priorities \in SUBSET Nat
  BY SizesAssumption DEF Priorities

(* The level schedule() picks has a task for this core.                    *)
LEMMA RingMember ==
  ASSUME NEW S \in SUBSET Tasks, S # {}, NEW last \in Tasks
  PROVE  NextInRing(S, last) \in S
<1> DEFINE dist(t) == (t + MAX_TASKS - last - 1) % MAX_TASKS
           D == {dist(t) : t \in S}
<1>1. \A t \in S : dist(t) \in Nat
  BY SizesAssumption DEF Tasks
<1>0. D \in SUBSET Nat /\ D # {}
  BY <1>1
<1> HIDE DEF dist
<1>2. PICK t \in S : dist(t) = Min(D)
  BY <1>0, MinNat
<1>3. \A u \in S : dist(t) <= dist(u)
  BY <1>0, <1>2, MinNat
<1> QED
  BY <1>3, Zenon DEF NextInRing, dist

(* schedule() answers with a task, eligible on this core unless there is   *)
(* none at all.                                                            *)
LEMMA ScheduleEligible ==
  ASSUME TypeOK, NEW c \in Cores
  PROVE  /\ Schedule(c) \in Tasks
         /\ ReadyLevels(c) = {} => Schedule(c) = current[c]
         /\ ReadyLevels(c) # {} => \E p \in ready : Schedule(c) \in Eligible(c, p)
<1>1. CASE ReadyLevels(c) = {}
  BY <1>1 DEF Schedule, TypeOK, SchedTypeOK
<1>2. CASE ReadyLevels(c) # {}
  <2> DEFINE p == Min(ReadyLevels(c))
  <2>1. ReadyLevels(c) \in SUBSET Nat
    BY PrioritiesNat DEF ReadyLevels, TypeOK, SchedTypeOK
  <2>2. p \in ReadyLevels(c)
    BY <1>2, <2>1, MinNat
  <2> HIDE DEF p
  <2>3. p \in Priorities /\ p \in ready /\ Eligible(c, p) # {}
    BY <2>2 DEF ReadyLevels, TypeOK, SchedTypeOK
  <2>4. lastRun[p] \in Tasks /\ Eligible(c, p) \in SUBSET Tasks
    BY <2>3 DEF TypeOK, SchedTypeOK, Eligible
  <2>5. NextInRing(Eligible(c, p), lastRun[p]) \in Eligible(c, p)
    BY <2>3, <2>4, RingMember
  <2>6. Schedule(c) = NextInRing(Eligible(c, p), lastRun[p])
    BY <1>2 DEF Schedule, p
  <2> QED
    BY <1>2, <2>3, <2>4, <2>5, <2>6
<1> QED
  BY <1>1, <1>2

(* pop_best_waiter finds one whenever somebody waits, as urgent as any.    *)
LEMMA BestWaiterListed ==
  ASSUME TypeOK, NEW m \in Mutexes, waiters[m] # <<>>
  PROVE  /\ BestWaiter(m) \in DOMAIN waiters[m] /\ waiters[m][BestWaiter(m)] \in Tasks
         /\ \A w \in Waiting(m) : prio[waiters[m][BestWaiter(m)]] <= prio[w]
<1> DEFINE D == DOMAIN waiters[m]
           rank(i) == prio[waiters[m][i]]
           R == {rank(i) : i \in D}
           B == {i \in D : rank(i) = Min(R)}
<1>1. D # {} /\ D \in SUBSET Nat /\ \A i \in D : waiters[m][i] \in Tasks
  BY EmptySeq, ElementOfSeq, LenProperties DEF TypeOK
<1>2. \A i \in D : rank(i) \in Nat
  BY <1>1, SizesAssumption DEF TypeOK, SchedTypeOK, Priorities
<1> HIDE DEF rank, D
<1>3. R \in SUBSET Nat /\ R # {}
  BY <1>1, <1>2
<1>9. Min(R) \in R /\ \A r \in R : Min(R) <= r
  BY <1>3, MinNat
<1>4. /\ \A i \in D : Min(R) <= rank(i)
      /\ B # {} /\ B \in SUBSET Nat
  <2> HIDE DEF R
  <2>1. \A i \in D : rank(i) \in R
    BY DEF R
  <2>2. \E i \in D : rank(i) = Min(R)
    BY <1>9 DEF R
  <2> QED
    BY <1>1, <1>9, <2>1, <2>2
<1>5. Min(B) \in B /\ \A j \in B : Min(B) <= j
  BY <1>4, MinNat
<1>6. \A j \in D : rank(Min(B)) < rank(j) \/ (rank(Min(B)) = rank(j) /\ Min(B) <= j)
  <2> HIDE DEF R
  <2>1. rank(Min(B)) = Min(R) /\ Min(B) \in D
    BY <1>5
  <2>2. SUFFICES ASSUME NEW j \in D
                 PROVE rank(Min(B)) < rank(j) \/ (rank(Min(B)) = rank(j) /\ Min(B) <= j)
    OBVIOUS
  <2>3. CASE rank(j) = Min(R)
    <3>1. j \in B
      BY <2>3
    <3> QED
      BY <1>5, <2>1, <2>3, <3>1
  <2>4. CASE rank(j) # Min(R)
    <3>1. Min(R) <= rank(j) /\ rank(j) \in Nat /\ rank(Min(B)) \in Nat
      BY <1>2, <1>4, <2>1
    <3> QED
      BY <2>1, <2>4, <3>1
  <2> QED
    BY <2>3, <2>4
<1>7. Min(B) \in D
  BY <1>5
<1>8. LET b == BestWaiter(m)
      IN  b \in D /\ \A j \in D : rank(b) < rank(j) \/ (rank(b) = rank(j) /\ b <= j)
  <2> DEFINE b == Min(B)
  <2> HIDE DEF b
  <2>1. \E i \in D : \A j \in D : rank(i) < rank(j) \/ (rank(i) = rank(j) /\ i <= j)
    BY <1>6, <1>7
  <2> QED
    BY <2>1, Zenon DEF BestWaiter, rank, D
<1>10. \A j \in D : rank(BestWaiter(m)) <= rank(j)
  BY <1>2, <1>8
<1> QED
  BY <1>1, <1>8, <1>10 DEF D, rank, Waiting, Entries

LEMMA WithoutSeq ==
  ASSUME NEW s \in Seq(Tasks), NEW i \in DOMAIN s
  PROVE  Without(s, i) \in Seq(Tasks)
  BY LenProperties DEF Without

LEMMA InheritedType ==
  ASSUME TypeOK, NEW t \in Tasks, NEW ow, NEW wt
  PROVE  InheritedPriority(t, ow, wt) \in Priorities
<1> DEFINE kept == {w \in Tasks : \E m \in Mutexes : ow[m] = t /\ w \in Entries(wt[m])}
           S == {BasePrio[t]} \cup {prio[w] : w \in kept}
<1>1. kept \in SUBSET Tasks
  OBVIOUS
<1>2. BasePrio[t] \in Priorities /\ \A w \in Tasks : prio[w] \in Priorities
  BY TasksAssumption DEF TypeOK, SchedTypeOK
<1> HIDE DEF kept
<1>3. S \in SUBSET Priorities /\ S # {}
  BY <1>1, <1>2
<1>4. Min(S) \in S
  <2> HIDE DEF S
  <2>1. S \in SUBSET Nat
    BY <1>3, PrioritiesNat
  <2> QED
    BY <1>3, <2>1, MinNat
<1>5. InheritedPriority(t, ow, wt) = Min(S)
  BY Zenon DEF InheritedPriority, S, kept
<1> HIDE DEF S
<1> QED
  BY <1>3, <1>4, <1>5

----------------------------------------------------------------------------
(* Type correctness.                                                       *)
LEMMA InitTypeOK == Init => TypeOK
<1> SUFFICES ASSUME Init PROVE TypeOK
  OBVIOUS
<1>1. SchedTypeOK
  <2>1. 0 \in Tasks /\ DEFAULT_QUANTUM \in 0 .. DEFAULT_QUANTUM
    BY SizesAssumption DEF Tasks
  <2>2. ready \in SUBSET Priorities
    BY TasksAssumption DEF Init, SchedInit
  <2> QED
    BY <2>1, <2>2, TasksAssumption, CoresAssumption
       DEF Init, SchedInit, SchedTypeOK, Runnable, Blocked
<1> QED
  BY <1>1, EmptySeq DEF Init, TypeOK

LEMMA BoostedType ==
  ASSUME TypeOK, NEW t0, NEW target \in Priorities
  PROVE  Boosted(t0, target) \in [Tasks -> Priorities]
  BY DEF Boosted, TypeOK, SchedTypeOK

LEMMA MoveReadyBitsType ==
  ASSUME TypeOK, NEW mask \in SUBSET Priorities, NEW st, NEW pr \in [Tasks -> Priorities]
  PROVE  MoveReadyBits(mask, st, pr) \in SUBSET Priorities
  BY DEF MoveReadyBits, TypeOK, SchedTypeOK

LEMMA RecomputeType ==
  ASSUME NEW mask \in SUBSET Priorities, NEW st, NEW pr, NEW p \in Priorities
  PROVE  RecomputeReadyBit(mask, st, pr, p) \in SUBSET Priorities
  BY DEF RecomputeReadyBit

LEMMA TickType ==
  ASSUME TypeOK, NEW c \in Cores, KeepMutexes(Tick(c))
  PROVE  TypeOK'
<1> USE DEF TypeOK, SchedTypeOK, KeepMutexes, mutexVars
<1>1. CASE XTENSA \/ c = BootCore
  <2>1. PICK W \in SUBSET {t \in Tasks : state[t] = "BlockedSleep"} : OnTick(c, W)
    BY <1>1 DEF Tick
  <2>2. state' \in [Tasks -> Runnable \cup Blocked] /\ ready' \in SUBSET Priorities
    BY <2>1 DEF OnTick, Runnable, Blocked
  <2>3. quantum' \in [Tasks -> 0 .. DEFAULT_QUANTUM]
    <3> DEFINE q(t) == IF t \in W THEN DEFAULT_QUANTUM ELSE quantum[t]
    <3>1. \A t \in Tasks : q(t) \in 0 .. DEFAULT_QUANTUM
      BY SizesAssumption
    <3>2. quantum' = [t \in Tasks |->
                        IF t = current[c]
                          THEN IF q(current[c]) <= 1 THEN DEFAULT_QUANTUM ELSE q(t) - 1
                        ELSE q(t)]
      BY <2>1, Zenon DEF OnTick
    <3> HIDE DEF q
    <3>3. \A n \in 0 .. DEFAULT_QUANTUM : ~(n <= 1) => n - 1 \in 0 .. DEFAULT_QUANTUM
      BY SizesAssumption
    <3>4. DEFAULT_QUANTUM \in 0 .. DEFAULT_QUANTUM
      BY SizesAssumption
    <3> QED
      BY <3>1, <3>2, <3>3, <3>4
  <2>4. /\ pending' \in [Cores -> BOOLEAN] /\ raised' \in [Cores -> BOOLEAN]
        /\ UNCHANGED <<prio, current, lastRun, pc, reqCore>>
    BY <2>1, SizesAssumption DEF OnTick, NotifyOnly, RaiseOnly
  <2> QED
    BY <2>2, <2>3, <2>4
<1>2. CASE ~(XTENSA \/ c = BootCore)
  BY <1>2 DEF Tick
<1> QED
  BY <1>1, <1>2

LEMMA TrapType ==
  ASSUME TypeOK, NEW c \in Cores, KeepMutexes(Trap(c))
  PROVE  TypeOK'
<1>1. Schedule(c) \in Tasks
  BY ScheduleEligible
<1> USE DEF TypeOK, SchedTypeOK, KeepMutexes, mutexVars
<1>2. /\ state' \in [Tasks -> Runnable \cup Blocked] /\ ready' \in SUBSET Priorities
      /\ current' \in [Cores -> Tasks]
  <2>1. CASE ~pending[c]
    BY <2>1 DEF Trap
  <2>2. CASE pending[c] /\ Schedule(c) = current[c]
    BY <2>2 DEF Trap, StayOn, Runnable
  <2>3. CASE pending[c] /\ Schedule(c) # current[c]
    <3>1. SwitchTo(c, Schedule(c))
      BY <2>3 DEF Trap
    <3> QED
      BY <1>1, <3>1 DEF SwitchTo, Runnable
  <2> QED
    BY <2>1, <2>2, <2>3
<1>3. lastRun' \in [Priorities -> Tasks]
  BY <1>1 DEF Trap
<1> QED
  BY <1>2, <1>3 DEF Trap

LEMMA TaskType ==
  ASSUME TypeOK, NEW c \in Cores, NEW t \in Tasks,
         \/ KeepMutexes(SleepMs(c, t)) \/ KeepMutexes(YieldCurrent(c, t))
         \/ KeepMutexes(ReadCore(c, t)) \/ KeepMutexes(RequestSwitch(c, t))
  PROVE  TypeOK'
<1> USE DEF TypeOK, SchedTypeOK, KeepMutexes, mutexVars, Goto
<1>1. CASE KeepMutexes(SleepMs(c, t))
  <2>1. ready' \in SUBSET Priorities
    BY <1>1, RecomputeType DEF SleepMs
  <2> QED
    BY <1>1, <2>1 DEF SleepMs, Blocked
<1>2. CASE KeepMutexes(YieldCurrent(c, t))
  BY <1>2 DEF YieldCurrent, Runnable
<1>3. CASE KeepMutexes(ReadCore(c, t))
  BY <1>3 DEF ReadCore
<1>4. CASE KeepMutexes(RequestSwitch(c, t))
  BY <1>4, CoresAssumption DEF RequestSwitch
<1> QED
  BY <1>1, <1>2, <1>3, <1>4

LEMMA LockType ==
  ASSUME TypeOK, NEW c \in Cores, NEW t \in Tasks, NEW m \in Mutexes,
         LockAcquires(c, t, m) \/ LockBlocks(c, t, m)
  PROVE  TypeOK'
<1>1. CASE LockAcquires(c, t, m)
  BY <1>1 DEF TypeOK, SchedTypeOK, LockAcquires, schedVars
<1>2. CASE LockBlocks(c, t, m)
  <2> DEFINE pr == Boosted(owner[m], prio[t])
  <2>1. prio[t] \in Priorities /\ pr \in [Tasks -> Priorities]
    BY BoostedType DEF TypeOK, SchedTypeOK
  <2>2. ready' \in SUBSET Priorities
    <3> HIDE DEF pr
    <3>1. MoveReadyBits(ready, state, pr) \in SUBSET Priorities
      BY <2>1, MoveReadyBitsType DEF TypeOK, SchedTypeOK
    <3> QED
      BY <1>2, <2>1, <3>1, RecomputeType DEF LockBlocks, pr
  <2>3. waiters' \in [Mutexes -> Seq(Tasks)]
    BY <1>2, AppendProperties DEF LockBlocks, TypeOK
  <2>4. prio' = pr
    BY <1>2 DEF LockBlocks
  <2> HIDE DEF pr
  <2>5. /\ state' = [state EXCEPT ![t] = "BlockedMutex"]
        /\ blockedOn' = [blockedOn EXCEPT ![t] = m]
        /\ guards' = [guards EXCEPT ![t] = @ \cup {m}]
        /\ pc' = [pc EXCEPT ![t] = "req"]
        /\ UNCHANGED <<owner, quantum, current, lastRun, pending, raised, reqCore>>
    BY <1>2 DEF LockBlocks, Goto
  <2> QED
    BY <2>1, <2>2, <2>3, <2>4, <2>5 DEF TypeOK, SchedTypeOK, Blocked
<1> QED
  BY <1>1, <1>2

LEMMA UnlockType ==
  ASSUME TypeOK, NEW c \in Cores, NEW t \in Tasks, NEW m \in Mutexes,
         UnlockHandsOver(c, t, m) \/ UnlockFrees(c, t, m)
  PROVE  TypeOK'
<1> DEFINE pr(ow, wt) == [prio EXCEPT ![t] = InheritedPriority(t, ow, wt)]
<1>1. \A ow, wt : pr(ow, wt) \in [Tasks -> Priorities]
  BY InheritedType DEF TypeOK, SchedTypeOK
<1> HIDE DEF pr
<1>2. CASE UnlockHandsOver(c, t, m)
  <2> DEFINE i == BestWaiter(m)
             next == waiters[m][i]
             wt == [waiters EXCEPT ![m] = Without(@, i)]
             st == [state EXCEPT ![next] = "Ready"]
  <2>1. i \in DOMAIN waiters[m] /\ next \in Tasks
    BY <1>2, BestWaiterListed DEF UnlockHandsOver
  <2>2. wt \in [Mutexes -> Seq(Tasks)]
    BY <2>1, WithoutSeq DEF TypeOK
  <2>3. HandedOver(m) \in [Mutexes -> Tasks \cup {NoTask}]
    BY <2>1 DEF HandedOver, TypeOK
  <2>4. ready' = MoveReadyBits(ready \cup {prio[next]}, st, pr(HandedOver(m), wt))
    BY <1>2, Zenon DEF UnlockHandsOver, pr
  <2>5. ready' \in SUBSET Priorities
    <3> HIDE DEF st, wt, next
    <3>1. ready \cup {prio[next]} \in SUBSET Priorities
      BY <2>1 DEF TypeOK, SchedTypeOK
    <3> QED
      BY <1>1, <2>4, <3>1, MoveReadyBitsType
  <2>6. prio' = pr(HandedOver(m), wt) /\ waiters' = wt /\ owner' = HandedOver(m)
    BY <1>2, Zenon DEF UnlockHandsOver, pr
  <2> HIDE DEF wt, i
  <2>7. /\ state' = st
        /\ quantum' = [quantum EXCEPT ![next] = DEFAULT_QUANTUM]
        /\ blockedOn' = [blockedOn EXCEPT ![next] = NoMutex]
        /\ pending' = [NotifyOnly(ReadyCores({next})) EXCEPT ![c] = @ \/ prio[next] < prio[t]]
        /\ raised' = RaiseOnly(ReadyCores({next}))
        /\ guards' = [guards EXCEPT ![t] = @ \ {m}]
        /\ pc' = [pc EXCEPT ![t] = "req"]
        /\ UNCHANGED <<current, lastRun, reqCore>>
    BY <1>2 DEF UnlockHandsOver, Goto, i
  <2> HIDE DEF next
  <2>8. /\ state' \in [Tasks -> Runnable \cup Blocked]
        /\ quantum' \in [Tasks -> 0 .. DEFAULT_QUANTUM]
        /\ blockedOn' \in [Tasks -> Mutexes \cup {NoMutex}]
        /\ pending' \in [Cores -> BOOLEAN] /\ raised' \in [Cores -> BOOLEAN]
    <3>1. /\ state' \in [Tasks -> Runnable \cup Blocked]
          /\ blockedOn' \in [Tasks -> Mutexes \cup {NoMutex}]
      BY <2>1, <2>7 DEF TypeOK, SchedTypeOK, Runnable
    <3>2. quantum' \in [Tasks -> 0 .. DEFAULT_QUANTUM]
      BY <2>1, <2>7, SizesAssumption DEF TypeOK, SchedTypeOK
    <3>3. raised' \in [Cores -> BOOLEAN]
      BY <2>7 DEF RaiseOnly, TypeOK, SchedTypeOK
    <3>4. pending' \in [Cores -> BOOLEAN]
      BY <2>7 DEF NotifyOnly, TypeOK, SchedTypeOK
    <3> QED
      BY <3>1, <3>2, <3>3, <3>4
  <2> QED
    BY <1>1, <2>2, <2>3, <2>5, <2>6, <2>7, <2>8 DEF TypeOK, SchedTypeOK
<1>3. CASE UnlockFrees(c, t, m)
  <2> DEFINE ow == [owner EXCEPT ![m] = NoTask]
  <2>1. ready' = MoveReadyBits(ready, state, pr(ow, waiters)) /\ prio' = pr(ow, waiters)
    BY <1>3, Zenon DEF UnlockFrees, pr
  <2>2. ready' \in SUBSET Priorities
    <3> HIDE DEF ow
    <3> QED BY <1>1, <2>1, MoveReadyBitsType DEF TypeOK, SchedTypeOK
  <2> QED
    <3>1. prio' \in [Tasks -> Priorities]
      BY <1>1, <2>1
    <3>2. /\ owner' = ow
          /\ guards' = [guards EXCEPT ![t] = @ \ {m}]
          /\ pc' = [pc EXCEPT ![t] = "req"]
          /\ UNCHANGED <<state, quantum, current, lastRun, pending, raised,
                         reqCore, waiters, blockedOn>>
      BY <1>3 DEF UnlockFrees, Goto
    <3> QED
      BY <2>2, <3>1, <3>2 DEF TypeOK, SchedTypeOK
<1> QED
  BY <1>2, <1>3

(* Every action preserves the type invariant.                              *)
LEMMA NextTypeOK == TypeOK /\ [Next]_vars => TypeOK'
<1> SUFFICES ASSUME TypeOK, [Next]_vars PROVE TypeOK'
  OBVIOUS
<1>1. CASE Next
  BY <1>1, TickType, TrapType, TaskType, LockType, UnlockType DEF Next
<1>2. CASE UNCHANGED vars
  BY <1>2 DEF vars, schedVars, mutexVars, TypeOK, SchedTypeOK
<1> QED
  BY <1>1, <1>2

----------------------------------------------------------------------------
(* The ready mask.                                                         *)
Consistent(mask, st, pr) ==
  \A p \in Priorities :
    p \in mask <=> \E t \in Tasks : pr[t] = p /\ st[t] \in Runnable

(* recompute_ready_bit repairs the one level that may be wrong.            *)
LEMMA RecomputeConsistent ==
  ASSUME NEW mask, NEW st, NEW pr, NEW p,
         \A q \in Priorities \ {p} :
           q \in mask <=> \E t \in Tasks : pr[t] = q /\ st[t] \in Runnable
  PROVE  Consistent(RecomputeReadyBit(mask, st, pr, p), st, pr)
  BY DEF RecomputeReadyBit, Consistent

(* set_effective_priority keeps the mask right, whatever moves.            *)
LEMMA MoveConsistent ==
  ASSUME TypeOK, NEW mask, NEW st, NEW pr \in [Tasks -> Priorities],
         Consistent(mask, st, prio)
  PROVE  Consistent(MoveReadyBits(mask, st, pr), st, pr)
<1> DEFINE moved == {t \in Tasks : pr[t] # prio[t]}
           left == {prio[t] : t \in moved}
           M == MoveReadyBits(mask, st, pr)
<1> SUFFICES ASSUME NEW p \in Priorities
             PROVE  p \in M <=> \E t \in Tasks : pr[t] = p /\ st[t] \in Runnable
  BY DEF Consistent
<1>1. p \in M <=>
        \/ /\ p \in mask \cup left
           /\ p \in left => \E t \in Tasks : pr[t] = p /\ st[t] \in Runnable
        \/ \E t \in moved : st[t] \in Runnable /\ pr[t] = p
  BY DEF MoveReadyBits
<1> HIDE DEF M
<1>2. p \in mask <=> \E t \in Tasks : prio[t] = p /\ st[t] \in Runnable
  BY DEF Consistent
<1>3. ASSUME NEW t \in Tasks, pr[t] = p, st[t] \in Runnable PROVE p \in M
  <2>1. CASE t \in moved
    BY <1>1, <1>3, <2>1
  <2>2. CASE t \notin moved
    BY <1>1, <1>2, <1>3, <2>2
  <2> QED
    BY <2>1, <2>2
<1>4. ASSUME p \in mask, p \notin left
      PROVE  \E t \in Tasks : pr[t] = p /\ st[t] \in Runnable
  <2>1. PICK t \in Tasks : prio[t] = p /\ st[t] \in Runnable
    BY <1>2, <1>4
  <2>2. t \notin moved
    BY <1>4, <2>1
  <2> QED
    BY <2>1, <2>2
<1>5. ASSUME p \in M PROVE \E t \in Tasks : pr[t] = p /\ st[t] \in Runnable
  BY <1>1, <1>4, <1>5
<1> QED
  BY <1>3, <1>5

----------------------------------------------------------------------------
(* The idle tasks never block, so schedule() always has something to       *)
(* answer with.                                                            *)
IdleRunnable == \A t \in IdleTasks : state[t] \in Runnable

(* A task that has blocked itself and is still on a core is on its way to  *)
(* the trap: it has yet to read its core number, or it has read the core   *)
(* it is on, or the flag of that core is up.                               *)
Switching ==
  \A c \in Cores :
    state[current[c]] \in Blocked =>
      \/ pc[current[c]] = "req"
      \/ pc[current[c]] = "store" /\ reqCore[current[c]] = c
      \/ pc[current[c]] = "wait" /\ pending[c]

SchedInv ==
  /\ OneCorePerTask
  /\ AffinityRespected
  /\ Consistent(ready, state, prio)
  /\ IdleRunnable
  /\ Switching

LEMMA InitSchedInv == Init => SchedInv
<1> SUFFICES ASSUME Init PROVE SchedInv
  OBVIOUS
<1> USE DEF Init, SchedInit
<1>1. OneCorePerTask /\ AffinityRespected
  BY TasksAssumption DEF OneCorePerTask, AffinityRespected, Allows, IdleTasks
<1>2. Consistent(ready, state, prio)
  BY TasksAssumption DEF Consistent, Runnable
<1>3. IdleRunnable /\ Switching
  BY TasksAssumption DEF IdleRunnable, Switching, Runnable, Blocked, IdleTasks
<1> QED
  BY <1>1, <1>2, <1>3 DEF SchedInv

(* Steps that move no task between cores.                                  *)
LEMMA SameCores ==
  ASSUME OneCorePerTask, AffinityRespected, current' = current,
         \A t \in Tasks : state'[t] = "Running" => state[t] = "Running"
  PROVE  OneCorePerTask' /\ AffinityRespected'
  BY DEF OneCorePerTask, AffinityRespected, Allows

(* Steps that block nobody.                                                *)
LEMMA NobodyBlocks ==
  ASSUME IdleRunnable, \A t \in Tasks : state[t] \in Runnable => state'[t] \in Runnable
  PROVE  IdleRunnable'
  BY TasksAssumption DEF IdleRunnable, IdleTasks

LEMMA TickInv ==
  ASSUME TypeOK, SchedInv, NEW c \in Cores, KeepMutexes(Tick(c))
  PROVE  SchedInv'
<1> USE DEF SchedInv
<1>1. CASE XTENSA \/ c = BootCore
  <2>1. PICK W \in SUBSET {t \in Tasks : state[t] = "BlockedSleep"} : OnTick(c, W)
    BY <1>1 DEF Tick, KeepMutexes
  <2>2. /\ state' = [t \in Tasks |-> IF t \in W THEN "Ready" ELSE state[t]]
        /\ ready' = ready \cup {prio[t] : t \in W}
        /\ \A d \in Cores : pending[d] => pending'[d]
        /\ UNCHANGED <<prio, current, pc, reqCore>>
    BY <2>1 DEF OnTick, NotifyOnly, TypeOK, SchedTypeOK
  <2>3. OneCorePerTask' /\ AffinityRespected'
    BY <2>2, SameCores
  <2>4. Consistent(ready, state, prio)'
    BY <2>2, SMTT(30) DEF Consistent, Runnable, TypeOK, SchedTypeOK
  <2>5. IdleRunnable'
    BY <2>2, NobodyBlocks DEF Runnable
  <2>6. Switching'
    BY <2>2 DEF Switching, Blocked, TypeOK, SchedTypeOK
  <2> QED
    BY <2>3, <2>4, <2>5, <2>6
<1>2. CASE ~(XTENSA \/ c = BootCore)
  BY <1>2 DEF Tick, KeepMutexes, Consistent, Switching, IdleRunnable,
              OneCorePerTask, AffinityRespected, Allows
<1> QED
  BY <1>1, <1>2

(* There is always a task for core c: its idle task.                       *)
LEMMA AlwaysSomeone ==
  ASSUME TypeOK, SchedInv, NEW c \in Cores
  PROVE  ReadyLevels(c) # {} /\ state[Schedule(c)] \in Runnable
<1> DEFINE i == IdleTask[c]
<1>1. /\ i \in Tasks /\ Allows(i, c) /\ state[i] \in Runnable
      /\ prio[i] \in Priorities
  BY TasksAssumption DEF SchedInv, IdleRunnable, IdleTasks, Allows, TypeOK, SchedTypeOK
<1>2. ~RunningElsewhere(i, c)
  BY TasksAssumption, CoresAssumption
     DEF RunningElsewhere, SchedInv, AffinityRespected, Allows
<1>3. prio[i] \in ready
  BY <1>1 DEF SchedInv, Consistent
<1>4. prio[i] \in ReadyLevels(c)
  BY <1>1, <1>2, <1>3 DEF ReadyLevels, Eligible
<1>5. PICK p \in ready : Schedule(c) \in Eligible(c, p)
  BY <1>4, ScheduleEligible
<1> QED
  BY <1>4, <1>5 DEF Eligible

(* The trap: the incoming task is eligible, so it is on no other core, and *)
(* a blocked outgoing task is never the one that stays.                    *)
LEMMA TrapInv ==
  ASSUME TypeOK, SchedInv, NEW c \in Cores, KeepMutexes(Trap(c))
  PROVE  SchedInv'
<1> DEFINE cur == current[c]
           next == Schedule(c)
<1>1. PICK p \in ready : next \in Eligible(c, p)
  BY AlwaysSomeone, ScheduleEligible
<1>2. /\ next \in Tasks /\ cur \in Tasks /\ state[next] \in Runnable
      /\ Allows(next, c) /\ ~RunningElsewhere(next, c)
  BY <1>1 DEF Eligible, TypeOK, SchedTypeOK
<1>3. /\ pending' = [pending EXCEPT ![c] = FALSE]
      /\ pc' = [pc EXCEPT ![cur] = IF @ = "wait" THEN "run" ELSE @]
      /\ UNCHANGED <<prio, reqCore>>
      /\ ~pending[c] => UNCHANGED <<state, ready, current>>
      /\ pending[c] => IF next = cur THEN StayOn(c, cur) ELSE SwitchTo(c, next)
  BY DEF Trap, KeepMutexes
<1> HIDE DEF next
<1> USE DEF SchedInv
<1>4. CASE ~pending[c]
  <2>1. OneCorePerTask' /\ AffinityRespected' /\ IdleRunnable'
    BY <1>3, <1>4, SameCores, NobodyBlocks
  <2>2. Consistent(ready, state, prio)'
    BY <1>3, <1>4 DEF Consistent
  <2>3. Switching'
    BY <1>2, <1>3, <1>4, ZenonT(60) DEF Switching, OneCorePerTask, TypeOK, SchedTypeOK
  <2> QED
    BY <2>1, <2>2, <2>3
<1>5. CASE pending[c] /\ next = cur
  <2>1. /\ current' = current /\ ready' = ready
        /\ state' = IF ~XTENSA /\ state[cur] = "Ready"
                      THEN [state EXCEPT ![cur] = "Running"] ELSE state
    BY <1>3, <1>5 DEF StayOn
  <2>2. OneCorePerTask' /\ AffinityRespected'
    BY <2>1 DEF OneCorePerTask, AffinityRespected, Allows, TypeOK, SchedTypeOK
  <2>3. IdleRunnable'
    BY <2>1, NobodyBlocks DEF Runnable, TypeOK, SchedTypeOK
  <2>4. Consistent(ready, state, prio)'
    <3>1. \A t \in Tasks : state'[t] \in Runnable <=> state[t] \in Runnable
      BY <1>2, <2>1 DEF Runnable, TypeOK, SchedTypeOK
    <3> QED
      BY <1>3, <2>1, <3>1 DEF Consistent
  <2>5. Switching'
    <3> SUFFICES ASSUME NEW d \in Cores, state'[current[d]] \in Blocked
                 PROVE  \/ pc'[current[d]] = "req"
                        \/ pc'[current[d]] = "store" /\ reqCore'[current[d]] = d
                        \/ pc'[current[d]] = "wait" /\ pending'[d]
      BY <2>1 DEF Switching
    <3>1. current[d] # cur /\ d # c /\ state[current[d]] \in Blocked
      BY <1>2, <1>5, <2>1 DEF Runnable, Blocked, TypeOK, SchedTypeOK
    <3> QED
      BY <1>3, <3>1 DEF Switching, TypeOK, SchedTypeOK
  <2> QED
    BY <2>2, <2>3, <2>4, <2>5
<1>6. CASE pending[c] /\ next # cur
  <2>1. /\ current' = [current EXCEPT ![c] = next]
        /\ state' = [t \in Tasks |->
                       IF t = next THEN "Running"
                       ELSE IF t = cur /\ state[cur] = "Running" THEN "Ready"
                       ELSE state[t]]
        /\ ready' = IF state[cur] = "Running" THEN ready \cup {prio[cur]} ELSE ready
    BY <1>3, <1>6 DEF SwitchTo
  <2>2. OneCorePerTask'
    BY <1>2, <2>1 DEF OneCorePerTask, RunningElsewhere, TypeOK, SchedTypeOK
  <2>3. AffinityRespected'
    BY <1>2, <2>1 DEF AffinityRespected, Allows, TypeOK, SchedTypeOK
  <2>4. IdleRunnable'
    BY <2>1, NobodyBlocks DEF Runnable
  <2>5. Consistent(ready, state, prio)'
    <3>1. \A t \in Tasks : state'[t] \in Runnable <=> state[t] \in Runnable
      BY <1>2, <2>1 DEF Runnable
    <3>2. ready' = ready
      <4>1. prio[cur] \in Priorities
        BY <1>2 DEF TypeOK, SchedTypeOK
      <4>2. state[cur] = "Running" => prio[cur] \in ready
        BY <1>2, <4>1 DEF Consistent, Runnable
      <4> QED
        BY <2>1, <4>2
    <3> QED
      BY <1>3, <3>1, <3>2 DEF Consistent
  <2>6. Switching'
    <3> SUFFICES ASSUME NEW d \in Cores, state'[current'[d]] \in Blocked
                 PROVE  \/ pc'[current'[d]] = "req"
                        \/ pc'[current'[d]] = "store" /\ reqCore'[current'[d]] = d
                        \/ pc'[current'[d]] = "wait" /\ pending'[d]
      BY DEF Switching
    <3>1. d # c /\ current'[d] = current[d]
      BY <1>2, <2>1 DEF Blocked, TypeOK, SchedTypeOK
    <3>2. current[d] # cur /\ current[d] \in Tasks
      BY <3>1 DEF OneCorePerTask, TypeOK, SchedTypeOK
    <3>3. state[current[d]] \in Blocked
      BY <2>1, <3>1, <3>2 DEF Blocked
    <3> QED
      BY <1>3, <3>1, <3>2, <3>3 DEF Switching, TypeOK, SchedTypeOK
  <2> QED
    BY <2>2, <2>3, <2>4, <2>5, <2>6
<1> QED
  BY <1>4, <1>5, <1>6 DEF TypeOK, SchedTypeOK

(* Blocking: from running on c to owing a request_switch.                  *)
LEMMA BlockInv ==
  ASSUME TypeOK, SchedInv, NEW c \in Cores, NEW t \in AppTasks, NEW b \in Blocked,
         Executes(c, t),
         state' = [state EXCEPT ![t] = b],
         pc' = [pc EXCEPT ![t] = "req"],
         UNCHANGED <<current, pending, reqCore>>,
         Consistent(ready, state, prio)'
  PROVE  SchedInv'
<1> USE DEF SchedInv
<1>1. t \in Tasks /\ t \notin IdleTasks
  BY DEF AppTasks
<1>2. OneCorePerTask' /\ AffinityRespected'
  BY <1>1, SameCores DEF Blocked, TypeOK, SchedTypeOK
<1>3. IdleRunnable'
  BY <1>1, TasksAssumption DEF IdleRunnable, IdleTasks, TypeOK, SchedTypeOK
<1>4. Switching'
  BY <1>1 DEF Switching, Executes, TypeOK, SchedTypeOK
<1> QED
  BY <1>2, <1>3, <1>4

LEMMA TaskInv ==
  ASSUME TypeOK, SchedInv, NEW c \in Cores, NEW t \in Tasks,
         \/ KeepMutexes(SleepMs(c, t)) \/ KeepMutexes(YieldCurrent(c, t))
         \/ KeepMutexes(ReadCore(c, t)) \/ KeepMutexes(RequestSwitch(c, t))
  PROVE  SchedInv'
<1> USE DEF KeepMutexes, Goto
<1>1. CASE KeepMutexes(SleepMs(c, t))
  <2>1. /\ state' = [state EXCEPT ![t] = "BlockedSleep"]
        /\ ready' = RecomputeReadyBit(ready, state', prio, prio[t])
        /\ pc' = [pc EXCEPT ![t] = "req"]
        /\ Executes(c, t) /\ t \in AppTasks
        /\ UNCHANGED <<prio, current, pending, reqCore>>
    BY <1>1 DEF SleepMs
  <2>2. \A q \in Priorities \ {prio[t]} :
          q \in ready <=> \E u \in Tasks : prio[u] = q /\ state'[u] \in Runnable
    BY <2>1 DEF SchedInv, Consistent, TypeOK, SchedTypeOK
  <2>3. Consistent(ready', state', prio)
    BY <2>1, <2>2, RecomputeConsistent
  <2>4. Consistent(ready, state, prio)'
    BY <2>1, <2>3 DEF Consistent
  <2> QED
    BY <2>1, <2>4, BlockInv DEF Blocked
<1>2. CASE KeepMutexes(YieldCurrent(c, t))
  <2> USE DEF SchedInv
  <2>1. /\ state' = [state EXCEPT ![t] = "Ready"] /\ ready' = ready \cup {prio[t]}
        /\ pc' = [pc EXCEPT ![t] = "req"]
        /\ UNCHANGED <<prio, current, pending, reqCore>>
    BY <1>2 DEF YieldCurrent
  <2>2. OneCorePerTask' /\ AffinityRespected'
    BY <2>1, SameCores DEF TypeOK, SchedTypeOK
  <2>3. IdleRunnable'
    BY <2>1, NobodyBlocks DEF Runnable, TypeOK, SchedTypeOK
  <2>4. Consistent(ready, state, prio)'
    <3>1. pc[t] = "run" /\ current[c] = t
      BY <1>2 DEF YieldCurrent, Executes
    <3>2. state[t] \in Runnable
      BY <3>1 DEF Switching, TypeOK, SchedTypeOK
    <3> QED
      BY <2>1, <3>2 DEF Consistent, Runnable, TypeOK, SchedTypeOK
  <2>5. Switching'
    BY <2>1 DEF Switching, Blocked, TypeOK, SchedTypeOK
  <2> QED
    BY <2>2, <2>3, <2>4, <2>5
<1>3. CASE KeepMutexes(ReadCore(c, t))
  <2> USE DEF SchedInv
  <2>1. /\ current[c] = t /\ reqCore' = [reqCore EXCEPT ![t] = c]
        /\ pc' = [pc EXCEPT ![t] = "store"]
        /\ UNCHANGED <<state, prio, current, ready, pending>>
    BY <1>3 DEF ReadCore
  <2>2. OneCorePerTask' /\ AffinityRespected' /\ IdleRunnable'
    BY <2>1, SameCores, NobodyBlocks
  <2>3. Consistent(ready, state, prio)'
    BY <2>1 DEF Consistent
  <2>4. Switching'
    BY <2>1 DEF Switching, OneCorePerTask, TypeOK, SchedTypeOK
  <2> QED
    BY <2>2, <2>3, <2>4
<1>4. CASE KeepMutexes(RequestSwitch(c, t))
  <2> USE DEF SchedInv
  <2>1. /\ current[c] = t /\ pc[t] = "store"
        /\ pending' = [pending EXCEPT ![reqCore[t]] = TRUE]
        /\ reqCore' = [reqCore EXCEPT ![t] = BootCore]
        /\ pc' = [pc EXCEPT ![t] = "wait"]
        /\ UNCHANGED <<state, prio, current, ready>>
    BY <1>4 DEF RequestSwitch
  <2>2. OneCorePerTask' /\ AffinityRespected' /\ IdleRunnable'
    BY <2>1, SameCores, NobodyBlocks
  <2>3. Consistent(ready, state, prio)'
    BY <2>1 DEF Consistent
  <2>4. Switching'
    BY <2>1 DEF Switching, OneCorePerTask, TypeOK, SchedTypeOK
  <2> QED
    BY <2>2, <2>3, <2>4
<1> QED
  BY <1>1, <1>2, <1>3, <1>4

LEMMA LockInv ==
  ASSUME TypeOK, SchedInv, NEW c \in Cores, NEW t \in Tasks, NEW m \in Mutexes,
         LockAcquires(c, t, m) \/ LockBlocks(c, t, m)
  PROVE  SchedInv'
<1>1. CASE LockAcquires(c, t, m)
  BY <1>1 DEF LockAcquires, schedVars, SchedInv, OneCorePerTask, AffinityRespected,
              Allows, Consistent, IdleRunnable, Switching
<1>2. CASE LockBlocks(c, t, m)
  <2> DEFINE pr == Boosted(owner[m], prio[t])
             st == [state EXCEPT ![t] = "BlockedMutex"]
             mask == MoveReadyBits(ready, state, pr)
  <2>1. prio[t] \in Priorities /\ pr \in [Tasks -> Priorities]
    BY BoostedType DEF TypeOK, SchedTypeOK
  <2>2. pr[t] = prio[t]
    BY PrioritiesNat DEF Boosted, TypeOK, SchedTypeOK
  <2> HIDE DEF pr
  <2>3. Consistent(mask, state, pr)
    BY <2>1, MoveConsistent DEF SchedInv
  <2> HIDE DEF mask
  <2>4. \A q \in Priorities \ {prio[t]} :
          q \in mask <=> \E u \in Tasks : pr[u] = q /\ st[u] \in Runnable
    BY <2>2, <2>3 DEF Consistent, TypeOK, SchedTypeOK
  <2>5. Consistent(RecomputeReadyBit(mask, st, pr, prio[t]), st, pr)
    BY <2>4, RecomputeConsistent
  <2>6. /\ prio' = pr /\ state' = st
        /\ ready' = RecomputeReadyBit(mask, st, pr, prio[t])
        /\ pc' = [pc EXCEPT ![t] = "req"]
        /\ Executes(c, t) /\ t \in AppTasks
        /\ UNCHANGED <<current, pending, reqCore>>
    BY <1>2 DEF LockBlocks, Goto, pr, mask
  <2> HIDE DEF st
  <2>7. Consistent(ready, state, prio)'
    BY <2>5, <2>6 DEF Consistent
  <2> QED
    BY <2>6, <2>7, BlockInv DEF Blocked, st
<1> QED
  BY <1>1, <1>2

LEMMA UnlockInv ==
  ASSUME TypeOK, SchedInv, NEW c \in Cores, NEW t \in Tasks, NEW m \in Mutexes,
         UnlockHandsOver(c, t, m) \/ UnlockFrees(c, t, m)
  PROVE  SchedInv'
<1> DEFINE pr(ow, wt) == [prio EXCEPT ![t] = InheritedPriority(t, ow, wt)]
<1>1. \A ow, wt : pr(ow, wt) \in [Tasks -> Priorities]
  BY InheritedType DEF TypeOK, SchedTypeOK
<1> HIDE DEF pr
<1> USE DEF SchedInv
<1>2. CASE UnlockHandsOver(c, t, m)
  <2> DEFINE i == BestWaiter(m)
             next == waiters[m][i]
             wt == [waiters EXCEPT ![m] = Without(@, i)]
             new == pr(HandedOver(m), wt)
             st == [state EXCEPT ![next] = "Ready"]
  <2>1. next \in Tasks
    BY <1>2, BestWaiterListed DEF UnlockHandsOver
  <2>2. /\ prio' = new
        /\ state' = st
        /\ ready' = MoveReadyBits(ready \cup {prio[next]}, st, new)
        /\ pc' = [pc EXCEPT ![t] = "req"]
        /\ pending' = [NotifyOnly(ReadyCores({next})) EXCEPT ![c] = @ \/ prio[next] < prio[t]]
        /\ UNCHANGED <<current, reqCore>>
    BY <1>2, Zenon DEF UnlockHandsOver, pr, Goto
  <2>3. new \in [Tasks -> Priorities]
    BY <1>1
  <2> HIDE DEF next, new, i, wt
  <2>4. Consistent(ready \cup {prio[next]}, st, prio)
    BY <2>1 DEF Consistent, Runnable, TypeOK, SchedTypeOK
  <2> HIDE DEF st
  <2>5. Consistent(MoveReadyBits(ready \cup {prio[next]}, st, new), st, new)
    BY <2>3, <2>4, MoveConsistent
  <2>6. Consistent(ready, state, prio)'
    BY <2>2, <2>5 DEF Consistent
  <2> USE DEF st
  <2>7. OneCorePerTask' /\ AffinityRespected'
    BY <2>1, <2>2, SameCores DEF TypeOK, SchedTypeOK
  <2>8. IdleRunnable'
    BY <2>1, <2>2, NobodyBlocks DEF Runnable, TypeOK, SchedTypeOK
  <2>9. Switching'
    <3>1. \A d \in Cores : pending[d] => pending'[d]
      BY <2>2 DEF NotifyOnly, TypeOK, SchedTypeOK
    <3>2. \A u \in Tasks : state'[u] \in Blocked => state[u] \in Blocked
      BY <2>1, <2>2 DEF Blocked, TypeOK, SchedTypeOK
    <3>3. pc' = [pc EXCEPT ![t] = "req"] /\ current' = current /\ reqCore' = reqCore
      BY <2>2
    <3> QED
      BY <3>1, <3>2, <3>3 DEF Switching, TypeOK, SchedTypeOK
  <2> QED
    BY <2>6, <2>7, <2>8, <2>9
<1>3. CASE UnlockFrees(c, t, m)
  <2> DEFINE ow == [owner EXCEPT ![m] = NoTask]
             new == pr(ow, waiters)
  <2>1. /\ ready' = MoveReadyBits(ready, state, new) /\ prio' = new
        /\ pc' = [pc EXCEPT ![t] = "req"]
        /\ UNCHANGED <<state, current, pending, reqCore>>
    BY <1>3, Zenon DEF UnlockFrees, pr, Goto
  <2>2. new \in [Tasks -> Priorities]
    BY <1>1
  <2> HIDE DEF new
  <2>3. Consistent(ready, state, prio)'
    <3>1. Consistent(MoveReadyBits(ready, state, new), state, new)
      BY <2>2, MoveConsistent
    <3> QED
      BY <2>1, <3>1 DEF Consistent
  <2>4. OneCorePerTask' /\ AffinityRespected' /\ IdleRunnable'
    BY <2>1, SameCores, NobodyBlocks
  <2>5. Switching'
    BY <2>1 DEF Switching, TypeOK, SchedTypeOK
  <2> QED
    BY <2>3, <2>4, <2>5
<1> QED
  BY <1>2, <1>3

IInv == TypeOK /\ SchedInv

LEMMA NextIInv == IInv /\ [Next]_vars => IInv'
<1> SUFFICES ASSUME TypeOK, SchedInv, [Next]_vars PROVE TypeOK' /\ SchedInv'
  BY DEF IInv
<1>1. TypeOK'
  BY NextTypeOK
<1>2. CASE Next
  BY <1>1, <1>2, TickInv, TrapInv, TaskInv, LockInv, UnlockInv DEF Next
<1>3. CASE UNCHANGED vars
  BY <1>1, <1>3 DEF vars, schedVars, SchedInv, OneCorePerTask, AffinityRespected,
                    Allows, Consistent, IdleRunnable, Switching
<1> QED
  BY <1>1, <1>2, <1>3

LEMMA AlwaysIInv == Spec => []IInv
<1>1. Init => IInv
  BY InitTypeOK, InitSchedInv DEF IInv
<1> QED
  BY <1>1, NextIInv, PTL DEF Spec

----------------------------------------------------------------------------
(* The waiter lists name no task twice, and a guard is for a mutex its     *)
(* task owns or is still queued for.                                       *)
Distinct(s) == \A i, j \in DOMAIN s : s[i] = s[j] => i = j
ListsDistinct == \A m \in Mutexes : Distinct(waiters[m])
GuardsAccounted ==
  \A t \in Tasks, m \in Mutexes : m \in guards[t] => owner[m] = t \/ blockedOn[t] = m

MutexInv == ListsDistinct /\ WaitersMatchTasks /\ GuardsAccounted /\ InheritanceExact

(* enqueue puts one task at the end of a list.                             *)
LEMMA AppendEntries ==
  ASSUME NEW s \in Seq(Tasks), NEW t \in Tasks
  PROVE  /\ Entries(Append(s, t)) = Entries(s) \cup {t}
         /\ Distinct(s) /\ t \notin Entries(s) => Distinct(Append(s, t))
<1>1. /\ DOMAIN s = 1 .. Len(s) /\ Len(s) \in Nat
      /\ DOMAIN Append(s, t) = 1 .. Len(s) + 1
      /\ \A i \in 1 .. Len(s) : Append(s, t)[i] = s[i]
      /\ Append(s, t)[Len(s) + 1] = t
  BY LenProperties, AppendProperties
<1> QED
  BY <1>1 DEF Entries, Distinct

(* pop_best_waiter takes one task out and keeps the others.                *)
LEMMA WithoutEntries ==
  ASSUME NEW s \in Seq(Tasks), NEW i \in DOMAIN s, Distinct(s)
  PROVE  Entries(Without(s, i)) = Entries(s) \ {s[i]} /\ Distinct(Without(s, i))
<1> DEFINE r == Without(s, i)
<1>1. /\ DOMAIN s = 1 .. Len(s) /\ Len(s) \in Nat /\ i \in 1 .. Len(s)
      /\ DOMAIN r = 1 .. Len(s) - 1
      /\ \A j \in 1 .. Len(s) - 1 : r[j] = IF j < i THEN s[j] ELSE s[j + 1]
  BY LenProperties DEF Without
<1> HIDE DEF r
<1>2. \A j \in DOMAIN r : \E k \in DOMAIN s : r[j] = s[k] /\ k # i
  BY <1>1
<1>3. \A k \in DOMAIN s : k # i => \E j \in DOMAIN r : r[j] = s[k]
  <2> SUFFICES ASSUME NEW k \in DOMAIN s, k # i PROVE \E j \in DOMAIN r : r[j] = s[k]
    OBVIOUS
  <2>1. CASE k < i
    BY <1>1, <2>1
  <2>2. CASE k > i
    <3>1. k - 1 \in DOMAIN r /\ r[k - 1] = s[k]
      BY <1>1, <2>2
    <3> QED
      BY <3>1
  <2> QED
    BY <1>1, <2>1, <2>2
<1>4. Entries(r) = Entries(s) \ {s[i]}
  BY <1>1, <1>2, <1>3 DEF Entries, Distinct
<1>5. Distinct(r)
  <2> DEFINE at(j) == IF j < i THEN j ELSE j + 1
  <2>1. \A j \in DOMAIN r : at(j) \in DOMAIN s /\ r[j] = s[at(j)]
    BY <1>1
  <2>2. \A j, k \in DOMAIN r : at(j) = at(k) => j = k
    BY <1>1
  <2> HIDE DEF at
  <2> QED
    BY <2>1, <2>2 DEF Distinct
<1> QED
  BY <1>4, <1>5 DEF r

(* A task that executes is runnable, and so is queued nowhere.             *)
LEMMA ExecutingIsFree ==
  ASSUME TypeOK, SchedInv, MutexInv, NEW c \in Cores, NEW t \in Tasks, Executes(c, t)
  PROVE  /\ state[t] \in Runnable /\ state[t] # "BlockedMutex"
         /\ blockedOn[t] = NoMutex /\ \A m \in Mutexes : t \notin Waiting(m)
<1>1. state[t] \in Runnable
  BY DEF Executes, SchedInv, Switching, TypeOK, SchedTypeOK
<1>2. state[t] # "BlockedMutex"
  BY <1>1 DEF Runnable
<1> QED
  BY <1>1, <1>2 DEF MutexInv, WaitersMatchTasks

(* What has a waiter has an owner, and a waiter is a task.                 *)
LEMMA WaitedIsHeld ==
  ASSUME TypeOK, MutexInv, NEW n \in Mutexes, NEW w \in Waiting(n)
  PROVE  w \in Tasks /\ owner[n] \in Tasks /\ blockedOn[w] = n
<1>1. w \in Tasks /\ waiters[n] # <<>>
  BY ElementOfSeq, LenProperties DEF Waiting, Entries, TypeOK
<1> QED
  BY <1>1 DEF MutexInv, WaitersMatchTasks, TypeOK

(* Steps of the scheduler alone.                                           *)
LEMMA SchedulerMutexInv ==
  ASSUME MutexInv, UNCHANGED <<mutexVars, prio>>,
         \A t \in Tasks : state'[t] = "BlockedMutex" <=> state[t] = "BlockedMutex"
  PROVE  MutexInv'
<1> USE DEF MutexInv, mutexVars
<1>1. ListsDistinct' /\ GuardsAccounted'
  BY DEF ListsDistinct, GuardsAccounted
<1>2. WaitersMatchTasks'
  BY DEF WaitersMatchTasks, Waiting
<1>3. InheritanceExact'
  BY DEF InheritanceExact, OwnerInherits, NoStaleBoost, Waiting
<1> QED
  BY <1>1, <1>2, <1>3

(* Ticks wake sleepers, traps move runnable tasks, and a task that sleeps  *)
(* or yields was running: nobody enters or leaves a mutex wait.            *)
LEMMA SchedStepMutexInv ==
  ASSUME TypeOK, SchedInv, MutexInv, NEW c \in Cores, NEW t \in Tasks,
         \/ KeepMutexes(Tick(c)) \/ KeepMutexes(Trap(c))
         \/ KeepMutexes(SleepMs(c, t)) \/ KeepMutexes(YieldCurrent(c, t))
         \/ KeepMutexes(ReadCore(c, t)) \/ KeepMutexes(RequestSwitch(c, t))
  PROVE  MutexInv'
<1>1. UNCHANGED <<mutexVars, prio>>
  BY DEF KeepMutexes, Tick, OnTick, Trap, SleepMs, YieldCurrent, ReadCore, RequestSwitch
<1>2. \A u \in Tasks : state'[u] = "BlockedMutex" <=> state[u] = "BlockedMutex"
  <2>1. CASE KeepMutexes(Tick(c))
    <3>1. CASE XTENSA \/ c = BootCore
      <4>1. PICK W \in SUBSET {u \in Tasks : state[u] = "BlockedSleep"} : OnTick(c, W)
        BY <2>1, <3>1 DEF Tick, KeepMutexes
      <4> QED
        BY <4>1 DEF OnTick
    <3>2. CASE ~(XTENSA \/ c = BootCore)
      BY <2>1, <3>2 DEF Tick, KeepMutexes
    <3> QED
      BY <3>1, <3>2
  <2>2. CASE KeepMutexes(Trap(c))
    <3> DEFINE cur == current[c]
               next == Schedule(c)
    <3>1. /\ ~pending[c] => UNCHANGED state
          /\ pending[c] => IF next = cur THEN StayOn(c, cur) ELSE SwitchTo(c, next)
      BY <2>2 DEF Trap, KeepMutexes
    <3>2. state[next] \in Runnable /\ cur \in Tasks
      BY AlwaysSomeone DEF TypeOK, SchedTypeOK
    <3> HIDE DEF next
    <3>3. CASE ~pending[c]
      BY <3>1, <3>3
    <3>4. CASE pending[c] /\ next = cur
      BY <3>1, <3>2, <3>4 DEF StayOn, Runnable, TypeOK, SchedTypeOK
    <3>5. CASE pending[c] /\ next # cur
      <4>1. SwitchTo(c, next)
        BY <3>1, <3>5
      <4>2. state' = [u \in Tasks |-> IF u = next THEN "Running"
                                     ELSE IF u = cur /\ state[cur] = "Running" THEN "Ready"
                                     ELSE state[u]]
        BY <4>1 DEF SwitchTo
      <4> QED
        BY <3>2, <4>2 DEF Runnable
    <3> QED
      BY <3>3, <3>4, <3>5
  <2>3. CASE KeepMutexes(SleepMs(c, t)) \/ KeepMutexes(YieldCurrent(c, t))
    <3>1. Executes(c, t) /\ \E l \in {"BlockedSleep", "Ready"} : state' = [state EXCEPT ![t] = l]
      BY <2>3 DEF KeepMutexes, SleepMs, YieldCurrent
    <3>2. state[t] # "BlockedMutex"
      BY <3>1, ExecutingIsFree
    <3> QED
      BY <3>1, <3>2 DEF TypeOK, SchedTypeOK
  <2>4. CASE KeepMutexes(ReadCore(c, t)) \/ KeepMutexes(RequestSwitch(c, t))
    BY <2>4 DEF KeepMutexes, ReadCore, RequestSwitch
  <2> QED
    BY <2>1, <2>2, <2>3, <2>4
<1> QED
  BY <1>1, <1>2, SchedulerMutexInv

(* A free mutex has no waiters, so its new owner inherits nothing yet.     *)
LEMMA LockAcquiresMutexInv ==
  ASSUME TypeOK, SchedInv, MutexInv, NEW c \in Cores, NEW t \in Tasks, NEW m \in Mutexes,
         LockAcquires(c, t, m)
  PROVE  MutexInv'
<1> USE DEF MutexInv
<1>1. /\ owner[m] = NoTask /\ owner' = [owner EXCEPT ![m] = t]
      /\ guards' = [guards EXCEPT ![t] = @ \cup {m}]
      /\ UNCHANGED <<waiters, blockedOn, state, prio>>
  BY DEF LockAcquires, schedVars
<1>2. Waiting(m) = {}
  BY <1>1 DEF WaitersMatchTasks, Waiting, Entries
<1>3. \A n \in Mutexes : Waiting(n)' = Waiting(n)
  BY <1>1 DEF Waiting
<1>4. ListsDistinct'
  BY <1>1 DEF ListsDistinct
<1>5. WaitersMatchTasks'
  BY <1>1, <1>2, <1>3, MutexAssumption DEF WaitersMatchTasks, TypeOK
<1>6. GuardsAccounted'
  BY <1>1, MutexAssumption DEF GuardsAccounted, TypeOK
<1>7. InheritanceExact'
  BY <1>1, <1>2, <1>3, MutexAssumption DEF InheritanceExact, OwnerInherits, NoStaleBoost, TypeOK
<1> QED
  BY <1>4, <1>5, <1>6, <1>7

(* boost_chain contains whoever a member waits for, and each member but    *)
(* the first is waited for by a member.                                    *)
LEMMA ChainLinked ==
  ASSUME NEW t0 \in Tasks
  PROVE  /\ t0 \in BoostChain(t0)
         /\ \A y \in BoostChain(t0), x \in Tasks : Follows(y, x) => x \in BoostChain(t0)
         /\ \A x \in BoostChain(t0) : x # t0 => \E y \in BoostChain(t0) : Follows(y, x)
<1> DEFINE C == BoostChain(t0)
<1>1. t0 \in C
  BY Zenon DEF BoostChain
<1>2. \A y \in C, x \in Tasks : Follows(y, x) => x \in C
  <2> SUFFICES ASSUME NEW y \in C, NEW x \in Tasks, Follows(y, x),
                      NEW S \in SUBSET Tasks, t0 \in S, ChainClosed(S)
               PROVE  x \in S
    BY Zenon DEF BoostChain
  <2>1. y \in S
    BY Zenon DEF BoostChain
  <2> QED
    BY <2>1, Zenon DEF ChainClosed
<1>3. \A x \in C : x # t0 => \E y \in C : Follows(y, x)
  <2> SUFFICES ASSUME NEW x \in C, x # t0, \A y \in C : ~Follows(y, x)
               PROVE  FALSE
    BY Zenon
  <2> DEFINE S == C \ {x}
  <2>1. C \in SUBSET Tasks
    BY DEF BoostChain
  <2> HIDE DEF C
  <2>2. S \in SUBSET Tasks /\ t0 \in S
    BY <1>1, <2>1
  <2>3. ChainClosed(S)
    BY <1>2, Zenon DEF ChainClosed
  <2>4. x \in S
    BY <2>2, <2>3, Zenon DEF BoostChain, C
  <2> QED
    BY <2>4
<1> QED
  BY <1>1, <1>2, <1>3

(* The lists after a task joined the queue of a held mutex.                *)
LEMMA LockBlocksLists ==
  ASSUME TypeOK, SchedInv, MutexInv, NEW c \in Cores, NEW t \in Tasks, NEW m \in Mutexes,
         LockBlocks(c, t, m)
  PROVE  /\ Waiting(m)' = Waiting(m) \cup {t}
         /\ \A n \in Mutexes \ {m} : Waiting(n)' = Waiting(n)
         /\ ListsDistinct' /\ WaitersMatchTasks' /\ GuardsAccounted'
<1> USE DEF MutexInv
<1>1. /\ owner[m] # NoTask /\ owner[m] # t /\ Executes(c, t)
      /\ state' = [state EXCEPT ![t] = "BlockedMutex"]
      /\ waiters' = [waiters EXCEPT ![m] = Append(@, t)]
      /\ blockedOn' = [blockedOn EXCEPT ![t] = m]
      /\ guards' = [guards EXCEPT ![t] = @ \cup {m}]
      /\ owner' = owner
  BY DEF LockBlocks
<1>2. /\ state[t] # "BlockedMutex" /\ blockedOn[t] = NoMutex
      /\ \A n \in Mutexes : t \notin Waiting(n)
  BY <1>1, ExecutingIsFree
<1>3. /\ Waiting(m)' = Waiting(m) \cup {t}
      /\ Distinct(waiters'[m])
  BY <1>1, <1>2, AppendEntries DEF Waiting, TypeOK, ListsDistinct
<1>4. \A n \in Mutexes \ {m} : Waiting(n)' = Waiting(n)
  BY <1>1 DEF Waiting, TypeOK
<1>5. ListsDistinct'
  BY <1>1, <1>3 DEF ListsDistinct, TypeOK
<1>6. WaitersMatchTasks'
  <2>1. \A n \in Mutexes, u \in Tasks :
          u \in Waiting(n)' <=> state'[u] = "BlockedMutex" /\ blockedOn'[u] = n
    <3>1. /\ state'[t] = "BlockedMutex" /\ blockedOn'[t] = m
          /\ \A u \in Tasks \ {t} : state'[u] = state[u] /\ blockedOn'[u] = blockedOn[u]
      BY <1>1 DEF TypeOK, SchedTypeOK
    <3>2. \A n \in Mutexes : t \in Waiting(n)' <=> n = m
      BY <1>2, <1>3, <1>4
    <3>3. \A n \in Mutexes, u \in Tasks \ {t} : u \in Waiting(n)' <=> u \in Waiting(n)
      BY <1>3, <1>4
    <3> QED
      BY <3>1, <3>2, <3>3 DEF WaitersMatchTasks
  <2>2. \A u \in Tasks : state'[u] = "BlockedMutex" <=> blockedOn'[u] # NoMutex
    BY <1>1, MutexAssumption DEF WaitersMatchTasks, TypeOK, SchedTypeOK
  <2>3. \A n \in Mutexes : waiters'[n] # <<>> => owner'[n] # NoTask /\ owner'[n] \notin Waiting(n)'
    <3> SUFFICES ASSUME NEW n \in Mutexes, waiters'[n] # <<>>
                 PROVE  owner'[n] # NoTask /\ owner'[n] \notin Waiting(n)'
      OBVIOUS
    <3>1. CASE n # m
      BY <1>1, <1>4, <3>1 DEF WaitersMatchTasks, TypeOK
    <3>2. CASE n = m
      <4>1. owner[m] \notin Waiting(m)
        BY DEF WaitersMatchTasks, Waiting, Entries
      <4> QED
        BY <1>1, <1>3, <3>2, <4>1
    <3> QED
      BY <3>1, <3>2
  <2> QED
    BY <2>1, <2>2, <2>3 DEF WaitersMatchTasks
<1>7. GuardsAccounted'
  BY <1>1, <1>2, MutexAssumption DEF GuardsAccounted, TypeOK
<1> QED
  BY <1>3, <1>4, <1>5, <1>6, <1>7

(* The boost reaches everyone the caller comes to wait for, and nobody     *)
(* without a reason: each boosted task keeps the caller, or another        *)
(* boosted one, waiting.                                                   *)
LEMMA LockBlocksMutexInv ==
  ASSUME TypeOK, SchedInv, MutexInv, NEW c \in Cores, NEW t \in Tasks, NEW m \in Mutexes,
         LockBlocks(c, t, m)
  PROVE  MutexInv'
<1> DEFINE t0 == owner[m]
           target == prio[t]
           C == BoostChain(t0)
<1>1. /\ t0 \in Tasks /\ owner' = owner /\ prio' = Boosted(t0, target)
  BY DEF LockBlocks, TypeOK
<1>2. /\ \A u \in Tasks : prio[u] \in Nat /\ BasePrio[u] \in Nat
      /\ \A u \in Tasks : prio'[u] = IF u \in C /\ target < prio[u] THEN target ELSE prio[u]
  BY <1>1, PrioritiesNat, TasksAssumption DEF Boosted, TypeOK, SchedTypeOK
<1>3. /\ Waiting(m)' = Waiting(m) \cup {t}
      /\ \A n \in Mutexes \ {m} : Waiting(n)' = Waiting(n)
      /\ ListsDistinct' /\ WaitersMatchTasks' /\ GuardsAccounted'
  BY LockBlocksLists
<1>4. /\ t0 \in C
      /\ \A y \in C, x \in Tasks : Follows(y, x) => x \in C
      /\ \A x \in C : x # t0 => \E y \in C : Follows(y, x)
      /\ C \subseteq Tasks
  BY <1>1, ChainLinked DEF BoostChain
<1> HIDE DEF C
<1>5. \A n \in Mutexes : \A w \in Waiting(n) : w \in Tasks /\ owner[n] \in Tasks /\ Follows(w, owner[n])
  <2> SUFFICES ASSUME NEW n \in Mutexes, NEW w \in Waiting(n)
               PROVE  w \in Tasks /\ owner[n] \in Tasks /\ Follows(w, owner[n])
    OBVIOUS
  <2> QED
    BY WaitedIsHeld, MutexAssumption DEF Follows
<1>6. prio'[t] = prio[t]
  BY <1>2
<1>7. OwnerInherits'
  <2> SUFFICES ASSUME NEW n \in Mutexes, NEW w \in Waiting(n)'
               PROVE  prio'[owner[n]] <= prio'[w]
    BY <1>1 DEF OwnerInherits
  <2>1. CASE w \in Waiting(n)
    <3>1. prio[owner[n]] <= prio[w] /\ w \in Tasks /\ owner[n] \in Tasks /\ (w \in C => owner[n] \in C)
      BY <1>4, <1>5, <2>1 DEF MutexInv, InheritanceExact, OwnerInherits
    <3> QED
      BY <1>2, <3>1
  <2>2. CASE w = t /\ n = m
    BY <1>1, <1>2, <1>4, <1>6, <2>2
  <2> QED
    BY <1>3, <2>1, <2>2
<1>8. NoStaleBoost'
  <2> SUFFICES ASSUME NEW x \in Tasks, prio'[x] # BasePrio[x]
               PROVE  /\ prio'[x] < BasePrio[x]
                      /\ \E n \in Mutexes : owner[n] = x /\ \E w \in Waiting(n)' : prio'[w] = prio'[x]
    BY <1>1 DEF NoStaleBoost
  <2>0. prio[x] = BasePrio[x] \/ (prio[x] < BasePrio[x] /\
          \E n \in Mutexes : owner[n] = x /\ \E w \in Waiting(n) : prio[w] = prio[x])
    BY DEF MutexInv, InheritanceExact, NoStaleBoost
  <2>9. \A n \in Mutexes : Waiting(n) \subseteq Waiting(n)'
    BY <1>3
  <2>1. CASE prio'[x] = prio[x]
    <3>0. PICK n \in Mutexes : owner[n] = x /\ \E w \in Waiting(n) : prio[w] = prio[x]
      BY <2>0, <2>1
    <3>1. PICK w \in Waiting(n) : owner[n] = x /\ prio[w] = prio[x] /\ prio[x] < BasePrio[x]
      BY <2>0, <2>1, <3>0
    <3>2. w \in Tasks /\ (w \in C => x \in C)
      BY <1>4, <1>5, <3>1
    <3>3. prio'[w] = prio'[x]
      BY <1>2, <2>1, <3>1, <3>2
    <3> QED
      BY <2>1, <2>9, <3>1, <3>3
  <2>2. CASE prio'[x] # prio[x]
    <3>1. x \in C /\ target < prio[x] /\ prio'[x] = target
      BY <1>2, <2>2
    <3>2. prio'[x] < BasePrio[x]
      BY <1>2, <2>0, <3>1
    <3>3. CASE x = t0
      BY <1>3, <1>6, <3>1, <3>2, <3>3
    <3>4. CASE x # t0
      <4>1. PICK y \in C : Follows(y, x)
        BY <1>4, <3>1, <3>4
      <4>2. y \in Tasks /\ blockedOn[y] \in Mutexes /\ owner[blockedOn[y]] = x
        BY <1>4, <4>1 DEF Follows, TypeOK
      <4>3. y \in Waiting(blockedOn[y])
        BY <4>1, <4>2 DEF Follows, MutexInv, WaitersMatchTasks
      <4>4. prio[x] <= prio[y]
        BY <4>2, <4>3 DEF MutexInv, InheritanceExact, OwnerInherits
      <4>5. prio'[y] = target
        BY <1>2, <3>1, <4>1, <4>2, <4>4
      <4> QED
        BY <2>9, <3>1, <3>2, <4>2, <4>3, <4>5
    <3> QED
      BY <3>3, <3>4
  <2> QED
    BY <2>1, <2>2
<1> QED
  BY <1>3, <1>7, <1>8 DEF MutexInv, InheritanceExact

(* What recompute_owner_priority answers: no less urgent than the base     *)
(* priority and each waiter of what is still held, and one of these.       *)
LEMMA InheritedExact ==
  ASSUME TypeOK, NEW t \in Tasks, NEW ow, NEW wt
  PROVE  LET p == InheritedPriority(t, ow, wt)
             Keeps(w) == \E m \in Mutexes : ow[m] = t /\ w \in Entries(wt[m])
         IN  /\ p <= BasePrio[t]
             /\ \A w \in Tasks : Keeps(w) => p <= prio[w]
             /\ p = BasePrio[t] \/ \E w \in Tasks : Keeps(w) /\ p = prio[w]
<1> DEFINE kept == {w \in Tasks : \E m \in Mutexes : ow[m] = t /\ w \in Entries(wt[m])}
           S == {BasePrio[t]} \cup {prio[w] : w \in kept}
<1>1. InheritedPriority(t, ow, wt) = Min(S)
  BY Zenon DEF InheritedPriority
<1>2. \A w \in Tasks : w \in kept <=> \E m \in Mutexes : ow[m] = t /\ w \in Entries(wt[m])
  OBVIOUS
<1>3. kept \subseteq Tasks /\ BasePrio[t] \in Nat /\ \A w \in Tasks : prio[w] \in Nat
  BY PrioritiesNat, TasksAssumption DEF TypeOK, SchedTypeOK
<1> HIDE DEF kept
<1>4. S \in SUBSET Nat /\ S # {}
  BY <1>3
<1>5. Min(S) \in S /\ \A y \in S : Min(S) <= y
  BY <1>4, MinNat
<1>6. \A w \in kept : prio[w] \in S
  OBVIOUS
<1>7. Min(S) = BasePrio[t] \/ \E w \in kept : Min(S) = prio[w]
  BY <1>5
<1> QED
  BY <1>1, <1>2, <1>3, <1>5, <1>6, <1>7

(* unlock, seen from the lists: t gives m up, and next, its best waiter,   *)
(* takes it and leaves the list.                                           *)
LEMMA UnlockHandsOverMutexInv ==
  ASSUME TypeOK, SchedInv, MutexInv, NEW c \in Cores, NEW t \in Tasks, NEW m \in Mutexes,
         UnlockHandsOver(c, t, m)
  PROVE  MutexInv'
<1> DEFINE i == BestWaiter(m)
           next == waiters[m][i]
           wt == [waiters EXCEPT ![m] = Without(@, i)]
           ow == HandedOver(m)
           p == InheritedPriority(t, ow, wt)
<1>1. /\ Executes(c, t) /\ owner[m] = t /\ waiters[m] # <<>>
      /\ owner' = ow /\ waiters' = wt
      /\ state' = [state EXCEPT ![next] = "Ready"]
      /\ blockedOn' = [blockedOn EXCEPT ![next] = NoMutex]
      /\ prio' = [prio EXCEPT ![t] = p]
      /\ guards' = [guards EXCEPT ![t] = @ \ {m}]
  BY Zenon DEF UnlockHandsOver
<1>2. /\ i \in DOMAIN waiters[m] /\ next \in Tasks /\ next \in Waiting(m)
      /\ \A w \in Waiting(m) : prio[next] <= prio[w]
  BY <1>1, BestWaiterListed DEF Waiting, Entries
<1>3. /\ \A n \in Mutexes : t \notin Waiting(n)
      /\ t # next
  BY <1>1, <1>2, ExecutingIsFree
<1>4. /\ Waiting(m)' = Waiting(m) \ {next}
      /\ Distinct(waiters'[m])
      /\ \A n \in Mutexes \ {m} : Waiting(n)' = Waiting(n) /\ waiters'[n] = waiters[n]
  <2>1. /\ Entries(Without(waiters[m], i)) = Entries(waiters[m]) \ {next}
        /\ Distinct(Without(waiters[m], i))
    BY <1>2, WithoutEntries DEF MutexInv, ListsDistinct, TypeOK
  <2> QED
    BY <1>1, <2>1 DEF Waiting, TypeOK
<1>5. /\ owner'[m] = next
      /\ \A n \in Mutexes \ {m} : owner'[n] = owner[n]
  BY <1>1 DEF HandedOver, TypeOK
<1>6. /\ p <= BasePrio[t]
      /\ \A n \in Mutexes : owner'[n] = t => \A w \in Waiting(n)' : w \in Tasks => p <= prio[w]
      /\ \/ p = BasePrio[t]
         \/ \E n \in Mutexes : owner'[n] = t /\ \E w \in Waiting(n)' : w \in Tasks /\ p = prio[w]
  <2> HIDE DEF ow, wt
  <2>1. LET Keeps(w) == \E n \in Mutexes : ow[n] = t /\ w \in Entries(wt[n])
        IN  /\ p <= BasePrio[t]
            /\ \A w \in Tasks : Keeps(w) => p <= prio[w]
            /\ p = BasePrio[t] \/ \E w \in Tasks : Keeps(w) /\ p = prio[w]
    BY InheritedExact
  <2> HIDE DEF p
  <2> QED
    BY <1>1, <2>1 DEF Waiting
<1> HIDE DEF p, ow, wt, next, i
<1>7. \A n \in Mutexes, u \in Tasks :
        u \in Waiting(n) <=> state[u] = "BlockedMutex" /\ blockedOn[u] = n
  BY DEF MutexInv, WaitersMatchTasks
<1>8. /\ \A n \in Mutexes, u \in Tasks : u \in Waiting(n)' <=> u \in Waiting(n) /\ u # next
      /\ \A n \in Mutexes : Waiting(n)' \subseteq Tasks
  <2>1. \A n \in Mutexes \ {m} : next \notin Waiting(n)
    BY <1>2, <1>7
  <2>2. \A n \in Mutexes : Waiting(n) \subseteq Tasks
    BY ElementOfSeq, LenProperties DEF Waiting, Entries, TypeOK
  <2> QED
    BY <1>4, <2>1, <2>2
<1>9. ListsDistinct'
  BY <1>1, <1>4 DEF MutexInv, ListsDistinct
<1>10. WaitersMatchTasks'
  <2>0. /\ state'[next] = "Ready" /\ blockedOn'[next] = NoMutex
        /\ \A u \in Tasks \ {next} : state'[u] = state[u] /\ blockedOn'[u] = blockedOn[u]
    BY <1>1, <1>2 DEF TypeOK, SchedTypeOK
  <2>1. \A n \in Mutexes, u \in Tasks :
          u \in Waiting(n)' <=> state'[u] = "BlockedMutex" /\ blockedOn'[u] = n
    BY <1>2, <1>7, <1>8, <2>0
  <2>2. \A u \in Tasks : state'[u] = "BlockedMutex" <=> blockedOn'[u] # NoMutex
    BY <1>2, <2>0 DEF MutexInv, WaitersMatchTasks
  <2>3. \A n \in Mutexes : waiters'[n] # <<>> => owner'[n] # NoTask /\ owner'[n] \notin Waiting(n)'
    BY <1>2, <1>4, <1>5, MutexAssumption DEF MutexInv, WaitersMatchTasks
  <2> QED
    BY <2>1, <2>2, <2>3 DEF WaitersMatchTasks
<1>11. GuardsAccounted'
  <2> SUFFICES ASSUME NEW u \in Tasks, NEW n \in Mutexes, n \in guards'[u]
               PROVE  owner'[n] = u \/ blockedOn'[u] = n
    BY DEF GuardsAccounted
  <2>1. n \in guards[u] /\ (u = t => n # m)
    BY <1>1 DEF TypeOK
  <2>2. owner[n] = u \/ blockedOn[u] = n
    BY <2>1 DEF MutexInv, GuardsAccounted
  <2>3. blockedOn[next] = m
    BY <1>2, <1>7
  <2> QED
    BY <1>1, <1>2, <1>5, <2>1, <2>2, <2>3 DEF TypeOK
<1>12. InheritanceExact'
  <2>0. /\ prio'[t] = p /\ \A u \in Tasks \ {t} : prio'[u] = prio[u]
    BY <1>1 DEF TypeOK, SchedTypeOK
  <2>3. \A n \in Mutexes : \A w \in Waiting(n)' : w \in Tasks /\ prio'[w] = prio[w]
    BY <1>3, <1>8, <2>0
  <2>1. OwnerInherits'
    <3> SUFFICES ASSUME NEW n \in Mutexes, NEW w \in Waiting(n)'
                 PROVE  prio'[owner'[n]] <= prio'[w]
      BY DEF OwnerInherits
    <3>1. CASE owner'[n] = t
      BY <1>6, <2>0, <2>3, <3>1
    <3>2. CASE n = m
      BY <1>2, <1>3, <1>4, <1>5, <2>0, <2>3, <3>2
    <3>3. CASE n # m /\ owner'[n] # t
      <4>1. w \in Waiting(n) /\ owner'[n] = owner[n]
        BY <1>4, <1>5, <3>3
      <4>2. owner[n] \in Tasks /\ prio[owner[n]] <= prio[w]
        BY <4>1, WaitedIsHeld DEF MutexInv, InheritanceExact, OwnerInherits
      <4> QED
        BY <2>0, <2>3, <3>3, <4>1, <4>2
    <3> QED
      BY <3>1, <3>2, <3>3
  <2>2. NoStaleBoost'
    <3> SUFFICES ASSUME NEW x \in Tasks, prio'[x] # BasePrio[x]
                 PROVE  /\ prio'[x] < BasePrio[x]
                        /\ \E n \in Mutexes : owner'[n] = x /\ \E w \in Waiting(n)' : prio'[w] = prio'[x]
      BY DEF NoStaleBoost
    <3>1. CASE x = t
      <4>1. p \in Nat /\ BasePrio[t] \in Nat
        BY InheritedType, PrioritiesNat, TasksAssumption DEF p
      <4> QED
        BY <1>6, <2>0, <2>3, <3>1, <4>1
    <3>2. CASE x # t
      <4>1. PICK n \in Mutexes : owner[n] = x /\ \E w \in Waiting(n) : prio[w] = prio[x]
        BY <2>0, <3>2 DEF MutexInv, InheritanceExact, NoStaleBoost
      <4>2. n # m /\ owner'[n] = x /\ Waiting(n)' = Waiting(n) /\ prio[x] < BasePrio[x]
        BY <1>1, <1>4, <1>5, <2>0, <3>2, <4>1 DEF MutexInv, InheritanceExact, NoStaleBoost
      <4> QED
        BY <2>0, <2>3, <3>2, <4>1, <4>2
    <3> QED
      BY <3>1, <3>2
  <2> QED
    BY <2>1, <2>2 DEF InheritanceExact
<1> QED
  BY <1>9, <1>10, <1>11, <1>12 DEF MutexInv

(* unlock of a mutex nobody waits for.                                     *)
LEMMA UnlockFreesMutexInv ==
  ASSUME TypeOK, SchedInv, MutexInv, NEW c \in Cores, NEW t \in Tasks, NEW m \in Mutexes,
         UnlockFrees(c, t, m)
  PROVE  MutexInv'
<1> DEFINE ow == [owner EXCEPT ![m] = NoTask]
           p == InheritedPriority(t, ow, waiters)
<1>1. /\ Executes(c, t) /\ owner[m] = t /\ waiters[m] = <<>>
      /\ owner' = ow
      /\ prio' = [prio EXCEPT ![t] = p]
      /\ guards' = [guards EXCEPT ![t] = @ \ {m}]
      /\ UNCHANGED <<waiters, blockedOn, state>>
  BY Zenon DEF UnlockFrees
<1>2. /\ owner'[m] = NoTask
      /\ \A n \in Mutexes \ {m} : owner'[n] = owner[n]
  BY <1>1 DEF TypeOK
<1>3. /\ \A n \in Mutexes : Waiting(n)' = Waiting(n) /\ t \notin Waiting(n) /\ Waiting(n) \subseteq Tasks
      /\ Waiting(m) = {}
  BY <1>1, ExecutingIsFree, ElementOfSeq, LenProperties DEF Waiting, Entries, TypeOK
<1>4. LET Keeps(w) == \E n \in Mutexes : ow[n] = t /\ w \in Entries(waiters[n])
      IN  /\ p <= BasePrio[t]
          /\ \A w \in Tasks : Keeps(w) => p <= prio[w]
          /\ p = BasePrio[t] \/ \E w \in Tasks : Keeps(w) /\ p = prio[w]
  <2> HIDE DEF ow
  <2> QED
    BY InheritedExact
<1>5. p \in Nat /\ BasePrio[t] \in Nat
  BY InheritedType, PrioritiesNat, TasksAssumption
<1> HIDE DEF p
<1>6. /\ \A n \in Mutexes : owner'[n] = t => \A w \in Waiting(n) : p <= prio[w]
      /\ p = BasePrio[t] \/ \E n \in Mutexes : owner'[n] = t /\ \E w \in Waiting(n) : p = prio[w]
  BY <1>1, <1>3, <1>4 DEF Waiting
<1> HIDE DEF ow
<1>7. ListsDistinct'
  BY <1>1 DEF MutexInv, ListsDistinct
<1>8. WaitersMatchTasks'
  BY <1>1, <1>2, <1>3 DEF MutexInv, WaitersMatchTasks
<1>9. GuardsAccounted'
  BY <1>1, <1>2 DEF MutexInv, GuardsAccounted, TypeOK
<1>10. InheritanceExact'
  <2>0. /\ prio'[t] = p /\ \A u \in Tasks \ {t} : prio'[u] = prio[u]
    BY <1>1 DEF TypeOK, SchedTypeOK
  <2>3. \A n \in Mutexes : \A w \in Waiting(n) : w \in Tasks /\ prio'[w] = prio[w]
    BY <1>3, <2>0
  <2>1. OwnerInherits'
    <3> SUFFICES ASSUME NEW n \in Mutexes, NEW w \in Waiting(n)
                 PROVE  prio'[owner'[n]] <= prio'[w]
      BY <1>3 DEF OwnerInherits
    <3>1. CASE owner'[n] = t
      BY <1>6, <2>0, <2>3, <3>1
    <3>2. CASE owner'[n] # t
      <4>1. n # m /\ owner'[n] = owner[n]
        BY <1>2, <1>3
      <4>2. owner[n] \in Tasks \ {t} /\ prio[owner[n]] <= prio[w]
        BY <3>2, <4>1, WaitedIsHeld DEF MutexInv, InheritanceExact, OwnerInherits
      <4> QED
        BY <2>0, <2>3, <4>1, <4>2
    <3> QED
      BY <3>1, <3>2
  <2>2. NoStaleBoost'
    <3> SUFFICES ASSUME NEW x \in Tasks, prio'[x] # BasePrio[x]
                 PROVE  /\ prio'[x] < BasePrio[x]
                        /\ \E n \in Mutexes : owner'[n] = x /\ \E w \in Waiting(n) : prio'[w] = prio'[x]
      BY <1>3 DEF NoStaleBoost
    <3>1. CASE x = t
      BY <1>4, <1>5, <1>6, <2>0, <2>3, <3>1
    <3>2. CASE x # t
      <4>1. PICK n \in Mutexes : owner[n] = x /\ \E w \in Waiting(n) : prio[w] = prio[x]
        BY <2>0, <3>2 DEF MutexInv, InheritanceExact, NoStaleBoost
      <4>2. n # m /\ owner'[n] = x /\ prio[x] < BasePrio[x]
        BY <1>2, <1>3, <2>0, <3>2, <4>1 DEF MutexInv, InheritanceExact, NoStaleBoost
      <4> QED
        BY <2>0, <2>3, <3>2, <4>1, <4>2
    <3> QED
      BY <3>1, <3>2
  <2> QED
    BY <2>1, <2>2 DEF InheritanceExact
<1> QED
  BY <1>7, <1>8, <1>9, <1>10 DEF MutexInv

(* Lists, guards and priorities start in order.                            *)
LEMMA InitMutexInv == Init => MutexInv
<1> SUFFICES ASSUME Init PROVE MutexInv
  OBVIOUS
<1>1. \A m \in Mutexes : waiters[m] = <<>> /\ Waiting(m) = {}
  BY DEF Init, Waiting, Entries
<1> QED
  BY <1>1, TasksAssumption
     DEF Init, SchedInit, MutexInv, ListsDistinct, Distinct, WaitersMatchTasks, GuardsAccounted,
         InheritanceExact, OwnerInherits, NoStaleBoost

(* The lists, the guards and the inherited priorities, in every state.     *)
LEMMA AlwaysMutexInv == Spec => [](IInv /\ MutexInv)
<1>1. Init => IInv /\ MutexInv
  BY InitTypeOK, InitSchedInv, InitMutexInv DEF IInv
<1>2. IInv /\ MutexInv /\ [Next]_vars => (IInv /\ MutexInv)'
  <2> SUFFICES ASSUME TypeOK, SchedInv, MutexInv, [Next]_vars PROVE IInv' /\ MutexInv'
    BY DEF IInv
  <2>1. IInv'
    BY NextIInv DEF IInv
  <2>2. CASE UNCHANGED vars
    <3>1. UNCHANGED <<mutexVars, prio, state>>
      BY <2>2 DEF vars, schedVars
    <3> QED
      BY <2>1, <3>1, SchedulerMutexInv
  <2>3. CASE Next
    <3>1. CASE \E c \in Cores : KeepMutexes(Tick(c)) \/ KeepMutexes(Trap(c))
      <4>1. 0 \in Tasks
        BY SizesAssumption DEF Tasks
      <4> QED
        BY <2>1, <3>1, <4>1, SchedStepMutexInv
    <3>2. CASE \E c \in Cores, t \in Tasks :
                 \/ KeepMutexes(SleepMs(c, t)) \/ KeepMutexes(YieldCurrent(c, t))
                 \/ KeepMutexes(ReadCore(c, t)) \/ KeepMutexes(RequestSwitch(c, t))
      BY <2>1, <3>2, SchedStepMutexInv
    <3>3. CASE \E c \in Cores, t \in Tasks, m \in Mutexes :
                 \/ LockAcquires(c, t, m) \/ LockBlocks(c, t, m)
                 \/ UnlockHandsOver(c, t, m) \/ UnlockFrees(c, t, m)
      BY <2>1, <3>3, LockAcquiresMutexInv, LockBlocksMutexInv, UnlockHandsOverMutexInv,
         UnlockFreesMutexInv
    <3> QED
      BY <2>3, <3>1, <3>2, <3>3 DEF Next
  <2> QED
    BY <2>2, <2>3
<1> QED
  BY <1>1, <1>2, PTL DEF Spec

----------------------------------------------------------------------------
(* Every TCB field, ready bit, rotor, pending flag and mutex entry stays   *)
(* within its type.                                                        *)
THEOREM TypeCorrect == Spec => []TypeOK
<1>1. IInv => TypeOK
  BY DEF IInv
<1> QED
  BY <1>1, AlwaysIInv, PTL

(* The incrementally maintained ready_mask always equals the mask          *)
(* recompute_ready_mask would compute.                                     *)
THEOREM ReadyMask == Spec => []ReadyMaskConsistent
<1>1. IInv => ReadyMaskConsistent
  BY DEF IInv, SchedInv, Consistent, ReadyMaskConsistent
<1> QED
  BY <1>1, AlwaysIInv, PTL

(* No task runs on two cores, or on a core its affinity forbids.           *)
THEOREM CoresExclusive == Spec => [](OneCorePerTask /\ AffinityRespected)
<1>1. IInv => OneCorePerTask /\ AffinityRespected
  BY DEF IInv, SchedInv
<1> QED
  BY <1>1, AlwaysIInv, PTL

(* A task that blocked itself runs no further until it has been woken,     *)
(* wherever it was preempted on its way through request_switch.            *)
THEOREM BlockedDoNotRun == Spec => []NoRunWhileBlocked
<1>1. IInv => NoRunWhileBlocked
  BY DEF IInv, SchedInv, Switching, NoRunWhileBlocked, TypeOK, SchedTypeOK
<1> QED
  BY <1>1, AlwaysIInv, PTL

(* The panic in _flint_armv6m_switch is unreachable.                       *)
THEOREM NeverABlockedChoice == Spec => []ScheduleFindsRunnable
<1>1. IInv => ScheduleFindsRunnable
  BY AlwaysSomeone DEF IInv, ScheduleFindsRunnable
<1> QED
  BY <1>1, AlwaysIInv, PTL

(* mutex.rs: "On resume, ownership has been transferred to us by           *)
(* unlock()".  Whoever executes owns every mutex it has a guard for.       *)
THEOREM GuardsOwned == Spec => []GuardsAreOwned
<1>1. IInv /\ MutexInv => GuardsAreOwned
  <2> SUFFICES ASSUME TypeOK, SchedInv, MutexInv, NEW c \in Cores, pc[current[c]] = "run",
                      NEW m \in guards[current[c]]
               PROVE  owner[m] = current[c]
    BY DEF IInv, GuardsAreOwned
  <2>1. current[c] \in Tasks /\ m \in Mutexes /\ Executes(c, current[c])
    BY DEF Executes, TypeOK, SchedTypeOK
  <2>2. blockedOn[current[c]] = NoMutex
    BY <2>1, ExecutingIsFree
  <2> QED
    BY <2>1, <2>2, MutexAssumption DEF MutexInv, GuardsAccounted
<1> QED
  BY <1>1, AlwaysMutexInv, PTL

(* A task is in a waiter list exactly when its TCB says it waits for that  *)
(* mutex, and a mutex with waiters has an owner that is not among them.    *)
THEOREM WaitersMatch == Spec => []WaitersMatchTasks
<1>1. IInv /\ MutexInv => WaitersMatchTasks
  BY DEF MutexInv
<1> QED
  BY <1>1, AlwaysMutexInv, PTL

(* Priority inheritance is exact along chains of any length: a holder is   *)
(* as urgent as what it keeps waiting, and above its base priority for no  *)
(* other reason (boost_chain, recompute_owner_priority).                   *)
THEOREM InheritanceIsExact == Spec => []InheritanceExact
<1>1. IInv /\ MutexInv => InheritanceExact
  BY DEF MutexInv
<1> QED
  BY <1>1, AlwaysMutexInv, PTL

----------------------------------------------------------------------------
(* Induction over a set of naturals, from its least missing element.       *)
LEMMA SetInduction ==
  ASSUME NEW S, 0 \in S, \A n \in Nat : n \in S => n + 1 \in S
  PROVE  Nat \subseteq S
<1> SUFFICES ASSUME NEW n \in Nat, n \notin S PROVE FALSE
  OBVIOUS
<1> DEFINE x == Min(Nat \ S)
<1>1. x \in Nat \ S /\ \A y \in Nat \ S : x <= y
  BY MinNat
<1> HIDE DEF x
<1>2. x # 0 /\ x - 1 \in Nat /\ x - 1 \in S
  BY <1>1
<1> QED
  BY <1>1, <1>2

(* A link leads from a task to a task that owns what it waits for.         *)
LEMMA LinkType ==
  ASSUME TypeOK, NEW t \in Tasks \cup {NoTask}
  PROVE  /\ Link(t) \in Tasks \cup {NoTask}
         /\ Link(t) # NoTask => t \in Tasks /\ Follows(t, Link(t)) /\ blockedOn[t] \in Table
  BY MutexAssumption DEF Link, TypeOK, Follows, Table

(* A link to another task is the only one.                                 *)
LEMMA LinkFollows ==
  ASSUME TypeOK, NEW t \in Tasks, NEW u \in Tasks, Follows(t, u), u # t
  PROVE  Link(t) = u
  BY MutexAssumption DEF Link, TypeOK, Follows

(* The walk exists: it starts at t0 and takes one link at a time.          *)
LEMMA WalkSteps ==
  ASSUME TypeOK, NEW t0 \in Tasks
  PROVE  /\ WalkAt(t0) \in [1 .. MAX_MUTEXES -> Tasks \cup {NoTask}]
         /\ MAX_MUTEXES >= 1 => WalkAt(t0)[1] = t0
         /\ \A k \in 1 .. MAX_MUTEXES - 1 : WalkAt(t0)[k + 1] = Link(WalkAt(t0)[k])
<1> DEFINE T == Tasks \cup {NoTask}
           M == MAX_MUTEXES
           IsWalk(f, n) == f = [k \in 1 .. n |-> IF k = 1 THEN t0 ELSE Link(f[k - 1])]
           S == {n \in Nat : \E f \in [1 .. n -> T] : IsWalk(f, n)}
<1>0. M \in Nat
  BY MutexAssumption
<1>1. 0 \in S
  <2> DEFINE f == [k \in 1 .. 0 |-> t0]
  <2>1. f \in [1 .. 0 -> T] /\ IsWalk(f, 0)
    OBVIOUS
  <2> QED
    BY <2>1
<1>2. ASSUME NEW n \in Nat, n \in S PROVE n + 1 \in S
  <2>1. PICK f \in [1 .. n -> T] : IsWalk(f, n)
    BY <1>2
  <2> DEFINE e == IF n = 0 THEN t0 ELSE Link(f[n])
             g == [k \in 1 .. n + 1 |-> IF k = n + 1 THEN e ELSE f[k]]
  <2>2. e \in T
    <3>1. n # 0 => f[n] \in T
      OBVIOUS
    <3> QED
      BY <3>1, LinkType
  <2> HIDE DEF e
  <2>3. g \in [1 .. n + 1 -> T]
    BY <2>2
  <2>4. ASSUME NEW k \in 1 .. n + 1
        PROVE  g[k] = IF k = 1 THEN t0 ELSE Link(g[k - 1])
    <3>1. CASE k = n + 1
      <4>1. k # 1 => k - 1 = n /\ n # 0 /\ g[k - 1] = f[n]
        BY <3>1
      <4>2. g[k] = e /\ (k = 1 <=> n = 0)
        BY <3>1
      <4> QED
        BY <4>1, <4>2 DEF e
    <3>2. CASE k # n + 1
      <4>1. k \in 1 .. n /\ g[k] = f[k] /\ (k # 1 => g[k - 1] = f[k - 1])
        BY <3>2
      <4>2. f[k] = IF k = 1 THEN t0 ELSE Link(f[k - 1])
        BY <2>1, <4>1
      <4> QED
        BY <4>1, <4>2
    <3> QED
      BY <3>1, <3>2
  <2> DEFINE h == [k \in 1 .. n + 1 |-> IF k = 1 THEN t0 ELSE Link(g[k - 1])]
  <2>5. g = h
    <3>1. g = [k \in 1 .. n + 1 |-> g[k]]
      BY <2>3
    <3> QED
      BY <2>4, <3>1
  <2> HIDE DEF g
  <2> QED
    BY <2>3, <2>5
<1>3. M \in S
  <2> HIDE DEF S
  <2> QED
    BY <1>0, <1>1, <1>2, SetInduction
<1>4. PICK f \in [1 .. M -> T] : IsWalk(f, M)
  BY <1>3
<1> DEFINE at == WalkAt(t0)
<1>5. at = [k \in 1 .. M |-> IF k = 1 THEN t0 ELSE Link(at[k - 1])]
  <2>1. at = CHOOSE g : g = [k \in 1 .. M |-> IF k = 1 THEN t0 ELSE Link(g[k - 1])]
    BY DEF WalkAt
  <2> HIDE DEF at
  <2> QED
    BY <1>4, <2>1, Zenon
<1> HIDE DEF at
<1>6. \A k \in 1 .. M : at[k] = IF k = 1 THEN t0 ELSE Link(at[k - 1])
  BY <1>5
<1>7. \A k \in 1 .. M - 1 : at[k + 1] = Link(at[k])
  <2> SUFFICES ASSUME NEW k \in 1 .. M - 1 PROVE at[k + 1] = Link(at[k])
    OBVIOUS
  <2>1. k + 1 \in 1 .. M /\ k + 1 # 1 /\ (k + 1) - 1 = k
    BY <1>0
  <2> QED
    BY <1>6, <2>1
<1>8. M >= 1 => at[1] = t0
  BY <1>0, <1>6
<1>9. \A k \in 1 .. M : at[k] \in T
  <2> DEFINE P == {n \in Nat : n + 1 \in 1 .. M => at[n + 1] \in T}
  <2>1. 0 \in P
    BY <1>0, <1>8
  <2>2. ASSUME NEW n \in Nat, n \in P PROVE n + 1 \in P
    <3> SUFFICES ASSUME (n + 1) + 1 \in 1 .. M PROVE at[(n + 1) + 1] \in T
      OBVIOUS
    <3>1. n + 1 \in 1 .. M /\ n + 1 \in 1 .. M - 1
      BY <1>0
    <3>2. at[n + 1] \in T
      BY <2>2, <3>1
    <3>3. at[(n + 1) + 1] = Link(at[n + 1])
      BY <1>7, <3>1
    <3> QED
      BY <3>2, <3>3, LinkType
  <2>3. Nat \subseteq P
    <3> HIDE DEF P
    <3> QED
      BY <2>1, <2>2, SetInduction
  <2>4. ASSUME NEW k \in 1 .. M PROVE at[k] \in T
    <3>1. k - 1 \in Nat /\ (k - 1) + 1 = k
      BY <1>0
    <3>2. k - 1 \in P
      BY <2>3, <3>1
    <3> QED
      BY <3>1, <3>2
  <2> QED
    BY <2>4
<1>10. at \in [1 .. M -> T]
  <2>1. at = [k \in 1 .. M |-> at[k]]
    BY <1>5
  <2> QED
    BY <1>9, <2>1
<1> QED
  BY <1>7, <1>8, <1>10 DEF at

(* find_or_create refuses a full table: no more mutexes are held than it   *)
(* has entries.                                                            *)
TableFits == Cardinality(Table) <= MAX_MUTEXES

LEMMA TableFinite ==
  /\ IsFiniteSet(Table)
  /\ Cardinality(Table) \in Nat
<1>1. Table \in SUBSET Mutexes
  BY DEF Table
<1>2. IsFiniteSet(Table)
  BY <1>1, MutexAssumption, FS_Subset
<1> QED
  BY <1>2, FS_CardinalityType

LEMMA AlwaysTableFits == Spec => []TableFits
<1>1. Init => TableFits
  <2> SUFFICES ASSUME Init PROVE TableFits
    OBVIOUS
  <2>1. Table = {}
    BY DEF Init, Table
  <2> QED
    BY <2>1, FS_EmptySet, MutexAssumption DEF TableFits
<1>2. TypeOK /\ TableFits /\ [Next]_vars => TableFits'
  <2> SUFFICES ASSUME TypeOK, TableFits, [Next]_vars PROVE TableFits'
    OBVIOUS
  <2>1. CASE owner' = owner
    <3>1. Table' = Table
      BY <2>1 DEF Table
    <3> QED
      BY <3>1 DEF TableFits
  <2>2. ASSUME NEW c \in Cores, NEW t \in Tasks, NEW m \in Mutexes, LockAcquires(c, t, m)
        PROVE  TableFits'
    <3>1. Table' = Table \cup {m} /\ m \notin Table
      BY <2>2, MutexAssumption DEF LockAcquires, Table, TypeOK
    <3>2. Cardinality(Table \cup {m}) = Cardinality(Table) + 1
      BY <3>1, TableFinite, FS_AddElement
    <3>3. Cardinality(Table) < MAX_MUTEXES
      BY <2>2 DEF LockAcquires
    <3> QED
      BY <3>1, <3>2, <3>3, TableFinite, MutexAssumption DEF TableFits
  <2>3. ASSUME NEW c \in Cores, NEW t \in Tasks, NEW m \in Mutexes,
               UnlockHandsOver(c, t, m) \/ UnlockFrees(c, t, m)
        PROVE  TableFits'
    <3>1. owner[m] = t /\ \E x : owner' = [owner EXCEPT ![m] = x]
      BY <2>3 DEF UnlockHandsOver, UnlockFrees, HandedOver
    <3>2. Table' \in SUBSET Table
      BY <3>1, MutexAssumption DEF Table, TypeOK
    <3>3. Cardinality(Table') <= Cardinality(Table) /\ Cardinality(Table') \in Nat
      BY <3>2, TableFinite, FS_Subset, FS_CardinalityType
    <3> QED
      BY <3>3, TableFinite, MutexAssumption DEF TableFits
  <2>4. CASE UNCHANGED vars
    BY <2>1, <2>4 DEF vars, mutexVars
  <2>5. CASE Next
    BY <2>1, <2>2, <2>3, <2>5 DEF Next, KeepMutexes, mutexVars, LockBlocks
  <2> QED
    BY <2>4, <2>5
<1> QED
  BY <1>1, <1>2, TypeCorrect, PTL DEF Spec

(* The walk boosts nobody who is not on the chain.                         *)
LEMMA WalkInChain ==
  ASSUME TypeOK, NEW t0 \in Tasks
  PROVE  Walk(t0) \subseteq BoostChain(t0)
<1> DEFINE at == WalkAt(t0)
           M == MAX_MUTEXES
           C == BoostChain(t0)
           P == {n \in Nat : n + 1 \in 1 .. M => at[n + 1] \in C \cup {NoTask}}
<1>0. M \in Nat
  BY MutexAssumption
<1>1. /\ at \in [1 .. M -> Tasks \cup {NoTask}]
      /\ M >= 1 => at[1] = t0
      /\ \A k \in 1 .. M - 1 : at[k + 1] = Link(at[k])
  BY WalkSteps
<1>2. t0 \in C /\ \A y \in C, x \in Tasks : Follows(y, x) => x \in C
  BY ChainLinked
<1> HIDE DEF at, C
<1>3. 0 \in P
  BY <1>0, <1>1, <1>2
<1>4. ASSUME NEW n \in Nat, n \in P PROVE n + 1 \in P
  <2> SUFFICES ASSUME (n + 1) + 1 \in 1 .. M, at[(n + 1) + 1] # NoTask
               PROVE  at[(n + 1) + 1] \in C
    OBVIOUS
  <2>1. n + 1 \in 1 .. M /\ n + 1 \in 1 .. M - 1
    BY <1>0
  <2>2. at[n + 1] \in Tasks \cup {NoTask} /\ at[n + 1] \in C \cup {NoTask}
    BY <1>1, <1>4, <2>1
  <2>3. at[(n + 1) + 1] = Link(at[n + 1])
    BY <1>1, <2>1
  <2>4. /\ at[n + 1] \in Tasks /\ Follows(at[n + 1], at[(n + 1) + 1])
        /\ at[(n + 1) + 1] \in Tasks
    BY <2>2, <2>3, LinkType
  <2> QED
    BY <1>2, <2>2, <2>4, MutexAssumption
<1>5. Nat \subseteq P
  <2> HIDE DEF P
  <2> QED
    BY <1>3, <1>4, SetInduction
<1>6. ASSUME NEW k \in 1 .. M PROVE at[k] \in C \cup {NoTask}
  <2>1. k - 1 \in Nat /\ (k - 1) + 1 = k
    BY <1>0
  <2>2. k - 1 \in P
    BY <1>5, <2>1
  <2> QED
    BY <2>1, <2>2
<1> QED
  BY <1>6 DEF Walk, at, C

(* A full-length path of tasks, each the link of the one before, visits    *)
(* its last task twice: it passes through more owners than there are       *)
(* mutexes held, and from the first owner met again it goes round.         *)
LEMMA LongPathsRepeat ==
  ASSUME TypeOK, TableFits, NEW m \in Table, NEW M \in Nat, M = MAX_MUTEXES,
         NEW f \in [1 .. M + 1 -> Tasks], f[1] = owner[m],
         \A k \in 1 .. M : f[k + 1] = Link(f[k])
  PROVE  \E k \in 1 .. M : f[k] = f[M + 1]
<1> DEFINE g == [k \in 1 .. M + 1 |-> IF k = 1 THEN m ELSE blockedOn[f[k - 1]]]
<1>1. \A k \in 1 .. M + 1 : g[k] \in Table /\ owner[g[k]] = f[k]
  <2> SUFFICES ASSUME NEW k \in 1 .. M + 1 PROVE g[k] \in Table /\ owner[g[k]] = f[k]
    OBVIOUS
  <2>1. CASE k = 1
    BY <2>1
  <2>2. CASE k # 1
    <3>1. k - 1 \in 1 .. M /\ (k - 1) + 1 = k /\ k - 1 \in 1 .. M + 1
      BY <2>2
    <3>2. f[k - 1] \in Tasks /\ f[k] \in Tasks /\ f[k] = Link(f[k - 1])
      BY <3>1
    <3>3. blockedOn[f[k - 1]] \in Table /\ Follows(f[k - 1], f[k])
      BY <3>2, LinkType, MutexAssumption
    <3> QED
      BY <2>2, <3>3 DEF Follows
  <2> QED
    BY <2>1, <2>2
<1>2. g \in [1 .. M + 1 -> Table]
  BY <1>1
<1> HIDE DEF g
<1>3. IsFiniteSet(1 .. M + 1) /\ Cardinality(1 .. M + 1) = M + 1
  BY FS_Interval
<1>4. Cardinality(Table) < Cardinality(1 .. M + 1)
  BY <1>3, TableFinite DEF TableFits
<1>5. PICK x, y \in 1 .. M + 1 : x # y /\ g[x] = g[y]
  BY <1>2, <1>3, <1>4, TableFinite, FS_PigeonHole
<1>6. PICK i \in 1 .. M + 1, j \in 1 .. M + 1 : i < j /\ f[i] = f[j]
  <2>1. f[x] = f[y] /\ (x < y \/ y < x)
    BY <1>1, <1>5
  <2> QED
    BY <2>1
<1> DEFINE P == {n \in Nat : j + n \in 1 .. M + 1 => f[i + n] = f[j + n]}
<1>7. 0 \in P
  BY <1>6
<1>8. ASSUME NEW n \in Nat, n \in P PROVE n + 1 \in P
  <2> SUFFICES ASSUME j + (n + 1) \in 1 .. M + 1 PROVE f[i + (n + 1)] = f[j + (n + 1)]
    OBVIOUS
  <2>1. /\ j + n \in 1 .. M /\ i + n \in 1 .. M /\ j + n \in 1 .. M + 1
        /\ i + (n + 1) = (i + n) + 1 /\ j + (n + 1) = (j + n) + 1
    BY <1>6
  <2>2. f[i + n] = f[j + n]
    BY <1>8, <2>1
  <2>3. f[(i + n) + 1] = Link(f[i + n]) /\ f[(j + n) + 1] = Link(f[j + n])
    BY <2>1
  <2> QED
    BY <2>1, <2>2, <2>3
<1>9. Nat \subseteq P
  <2> HIDE DEF P
  <2> QED
    BY <1>7, <1>8, SetInduction
<1> DEFINE n == (M + 1) - j
<1>10. n \in Nat /\ j + n = M + 1 /\ j + n \in 1 .. M + 1 /\ i + n \in 1 .. M
  BY <1>6
<1>11. n \in P
  BY <1>9, <1>10
<1> HIDE DEF n
<1>12. f[i + n] = f[M + 1]
  BY <1>10, <1>11
<1> QED
  BY <1>10, <1>12

(* The walk reaches whoever a task it boosts waits for.                    *)
LEMMA WalkIsClosed ==
  ASSUME TypeOK, TableFits, NEW m \in Table
  PROVE  owner[m] \in Walk(owner[m]) /\ ChainClosed(Walk(owner[m]))
<1> DEFINE t0 == owner[m]
           at == WalkAt(t0)
           M == MAX_MUTEXES
<1>0. M \in Nat /\ t0 \in Tasks /\ t0 # NoTask
  BY MutexAssumption DEF Table, TypeOK
<1>1. M >= 1
  <2>1. Cardinality(Table) # 0
    BY TableFinite, FS_EmptySet
  <2> QED
    BY <1>0, <2>1, TableFinite DEF TableFits
<1>2. /\ at \in [1 .. M -> Tasks \cup {NoTask}]
      /\ at[1] = t0
      /\ \A k \in 1 .. M - 1 : at[k + 1] = Link(at[k])
  BY <1>0, <1>1, WalkSteps
<1>3. \A x : x \in Walk(t0) <=> x # NoTask /\ \E k \in 1 .. M : x = at[k]
  BY DEF Walk
<1> HIDE DEF at, t0
<1>4. t0 \in Walk(t0)
  BY <1>0, <1>1, <1>2, <1>3
<1>5. ChainClosed(Walk(t0))
  <2> SUFFICES ASSUME NEW y \in Walk(t0), NEW u \in Tasks, Follows(y, u), u \notin Walk(t0)
               PROVE  FALSE
    BY Zenon DEF ChainClosed
  <2>1. PICK k \in 1 .. M : y = at[k] /\ y \in Tasks
    BY <1>2, <1>3
  <2>2. u # NoTask /\ Link(y) = u
    BY <2>1, LinkFollows, MutexAssumption
  <2>3. k = M
    <3> SUFFICES ASSUME k # M PROVE FALSE
      OBVIOUS
    <3>1. k \in 1 .. M - 1 /\ k + 1 \in 1 .. M
      BY <1>0
    <3>2. at[k + 1] = u
      BY <1>2, <2>1, <2>2, <3>1
    <3> QED
      BY <1>3, <2>2, <3>1, <3>2
  <2> DEFINE P == {n \in Nat : M - n \in 1 .. M => at[M - n] \in Tasks}
  <2>4. 0 \in P
    BY <1>0, <2>1, <2>3
  <2>5. ASSUME NEW n \in Nat, n \in P PROVE n + 1 \in P
    <3> SUFFICES ASSUME M - (n + 1) \in 1 .. M PROVE at[M - (n + 1)] \in Tasks
      OBVIOUS
    <3> DEFINE j == M - (n + 1)
    <3>1. j \in 1 .. M - 1 /\ j + 1 = M - n /\ M - n \in 1 .. M
      BY <1>0
    <3>2. at[M - n] \in Tasks /\ at[M - n] = Link(at[j]) /\ at[j] \in Tasks \cup {NoTask}
      BY <1>2, <2>5, <3>1
    <3> QED
      BY <3>2, LinkType, MutexAssumption
  <2>6. Nat \subseteq P
    <3> HIDE DEF P
    <3> QED
      BY <2>4, <2>5, SetInduction
  <2>7. ASSUME NEW i \in 1 .. M PROVE at[i] \in Tasks
    <3>1. M - i \in Nat /\ M - (M - i) = i
      BY <1>0
    <3>2. M - i \in P
      BY <2>6, <3>1
    <3> QED
      BY <3>1, <3>2
  <2> DEFINE f == [i \in 1 .. M + 1 |-> IF i = M + 1 THEN u ELSE at[i]]
  <2>8. /\ f \in [1 .. M + 1 -> Tasks]
        /\ f[M + 1] = u /\ \A i \in 1 .. M : f[i] = at[i]
    BY <1>0, <2>7
  <2> HIDE DEF f
  <2>9. f[1] = t0
    BY <1>0, <1>1, <1>2, <2>8
  <2>10. \A i \in 1 .. M : f[i + 1] = Link(f[i])
    <3> SUFFICES ASSUME NEW i \in 1 .. M PROVE f[i + 1] = Link(f[i])
      OBVIOUS
    <3>1. CASE i = M
      BY <1>0, <1>1, <2>1, <2>2, <2>3, <2>8, <3>1
    <3>2. CASE i # M
      <4>1. i \in 1 .. M - 1 /\ i + 1 \in 1 .. M
        BY <1>0, <3>2
      <4> QED
        BY <1>2, <2>8, <4>1
    <3> QED
      BY <3>1, <3>2
  <2>11. \E i \in 1 .. M : f[i] = f[M + 1]
    BY <1>0, <2>8, <2>9, <2>10, LongPathsRepeat DEF t0
  <2> QED
    BY <1>3, <2>2, <2>8, <2>11
<1> QED
  BY <1>4, <1>5 DEF t0

(* MAX_MUTEXES links are enough: wherever a mutex is held, boost_chain's   *)
(* bounded loop boosts exactly the tasks its holder depends on, whatever   *)
(* the number of tasks and mutexes and even where tasks wait in a circle.  *)
THEOREM WalkIsComplete == Spec => []WalkCoversChain
<1>1. TypeOK /\ TableFits => WalkCoversChain
  <2> SUFFICES ASSUME TypeOK, TableFits, NEW m \in Table
               PROVE  Walk(owner[m]) = BoostChain(owner[m])
    BY DEF WalkCoversChain
  <2>1. owner[m] \in Tasks
    BY DEF Table, TypeOK
  <2>2. Walk(owner[m]) \subseteq BoostChain(owner[m])
    BY <2>1, WalkInChain
  <2>3. Walk(owner[m]) \in SUBSET Tasks
    BY <2>2 DEF BoostChain
  <2>4. owner[m] \in Walk(owner[m]) /\ ChainClosed(Walk(owner[m]))
    BY WalkIsClosed
  <2>5. BoostChain(owner[m]) \subseteq Walk(owner[m])
    BY <2>3, <2>4, Zenon DEF BoostChain
  <2> QED
    BY <2>2, <2>5
<1> QED
  BY <1>1, TypeCorrect, AlwaysTableFits, PTL
=============================================================================
