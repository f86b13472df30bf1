------------------------------ MODULE DynObj ------------------------------
(***************************************************************************)
(* The runtime-created objects of kernel/src/dynobj.rs: counting           *)
(* semaphores, byte queues, recursive mutexes and event groups, all        *)
(* blocking through test_or_enrol and waking through produce_and_wake.     *)
(*                                                                         *)
(* Each blocking call is one loop: under both locks test the resource and  *)
(* take it, or enrol and block ("test"); when resumed, delist ("resume");  *)
(* then look at the deadline ("check") and go round.  The kernel is always *)
(* asked to wait forever (u32::MAX); only "check" knows the real timeout.  *)
(*                                                                         *)
(* A queue is its length: items are opaque bytes.  send_to_front blocks    *)
(* and wakes exactly as send does.                                         *)
(***************************************************************************)
EXTENDS Waiters, Integers

CONSTANTS
  Semaphores, Queues, RMutexes, Groups,   \* the objects, by kind
  SEM_MAX,       \* Semaphore.max
  CAPACITY,      \* DynQueue.capacity
  DEPTH_MAX,     \* bound: nested locks of one owner
  Bits,          \* the event bits in use
  MAX_WAKE,      \* wakes of one EventGroup::set
  Timed,         \* the objects whose callers may give a finite timeout
  ISR_REMOTE,    \* whether send_from_isr may run on another core than a task
  NoOwner,       \* NO_OWNER
  NoCall         \* a task outside every call

ASSUME DynObjAssumption ==
  /\ Objects = Semaphores \cup Queues \cup RMutexes \cup Groups
  /\ Semaphores \cap Queues = {} /\ RMutexes \cap Groups = {}   \* an address is of one object
  /\ (Semaphores \cup Queues) \cap (RMutexes \cup Groups) = {}
  /\ SEM_MAX \in Nat \ {0}
  /\ CAPACITY \in Nat \ {0}
  /\ DEPTH_MAX \in Nat \ {0}
  /\ MAX_WAKE \in Nat \ {0} /\ MAX_WAKE >= MAX_WAITERS   \* 16 and 16
  /\ Timed \subseteq Objects
  /\ ISR_REMOTE \in BOOLEAN
  /\ NoOwner \notin Tasks

VARIABLES
  count,         \* Semaphore.count
  len,           \* DynQueue.len
  isr, isrLen,   \* where send_from_isr is, and the DynQueue.len it has read
  items,         \* history: items sent and not received, per queue
  owner, depth,  \* RecursiveMutex
  bits,          \* EventGroup.bits, as a set
  call,          \* the call a task is in
  pc,            \* where it is in it
  expired,       \* its deadline has passed
  wakes,         \* EventGroup::set: wakes this task has still to do
  held           \* history: lock returns minus unlocks, per task

isrVars == <<isr, isrLen>>
objVars == <<count, len, isrVars, items, owner, depth, bits, held>>
vars == <<waiterVars, objVars, call, pc, expired, wakes>>

(* The calls, and for a wait the bits, all of them or any, and whether     *)
(* they are cleared on the way out.                                        *)
Calls ==
  LET all == [op : {"take"}, obj : Semaphores, finite : BOOLEAN]
               \cup [op : {"send", "recv"}, obj : Queues, finite : BOOLEAN]
               \cup [op : {"lock"}, obj : RMutexes, finite : BOOLEAN]
               \cup [op : {"wait"}, obj : Groups, finite : BOOLEAN,
                     want : (SUBSET Bits) \ {{}}, all : BOOLEAN, clear : BOOLEAN]
  IN  {k \in all : k.finite => k.obj \in Timed}
Side(k) == IF k.op = "send" THEN "send" ELSE "recv"

Unlocks == [op : {"unlock"}, obj : RMutexes]
Sets == [op : {"set"}, obj : Groups]

ASSUME CallsAssumption == NoCall \notin Calls \cup Unlocks \cup Sets

TypeOK ==
  /\ WaitersTypeOK
  /\ count \in [Semaphores -> 0 .. SEM_MAX]
  /\ len \in [Queues -> 0 .. CAPACITY]
  /\ isr \in [Queues -> {"idle", "put", "wake"}]
  /\ isrLen \in [Queues -> 0 .. CAPACITY]
  /\ items \in [Queues -> Int]
  /\ owner \in [RMutexes -> Tasks \cup {NoOwner}]
  /\ depth \in [RMutexes -> 0 .. DEPTH_MAX]
  /\ bits \in [Groups -> SUBSET Bits]
  /\ call \in [Tasks -> Calls \cup Unlocks \cup Sets \cup {NoCall}]
  /\ pc \in [Tasks -> {"idle", "test", "resume", "check", "release", "waking"}]
  /\ expired \in [Tasks -> BOOLEAN]
  /\ wakes \in [Tasks -> 0 .. MAX_WAKE]
  /\ held \in [RMutexes -> [Tasks -> 0 .. DEPTH_MAX]]

Init ==
  /\ WaitersInit({})
  /\ count = [s \in Semaphores |-> 0]
  /\ len = [q \in Queues |-> 0]
  /\ isr = [q \in Queues |-> "idle"]
  /\ isrLen = [q \in Queues |-> 0]
  /\ items = [q \in Queues |-> 0]
  /\ owner = [m \in RMutexes |-> NoOwner]
  /\ depth = [m \in RMutexes |-> 0]
  /\ bits = [g \in Groups |-> {}]
  /\ call = [t \in Tasks |-> NoCall]
  /\ pc = [t \in Tasks |-> "idle"]
  /\ expired = [t \in Tasks |-> FALSE]
  /\ wakes = [t \in Tasks |-> 0]
  /\ held = [m \in RMutexes |-> [t \in Tasks |-> 0]]

Goto(t, l) == pc' = [pc EXCEPT ![t] = l]
Return(t) ==
  /\ Goto(t, "idle")
  /\ call' = [call EXCEPT ![t] = NoCall]
  /\ expired' = [expired EXCEPT ![t] = FALSE]

----------------------------------------------------------------------------
(* take, send, recv, lock or wait is entered: the deadline is computed     *)
(* once.                                                                   *)
Enter(t, k) ==
  /\ pc[t] = "idle"
  /\ k.op = "lock" /\ owner[k.obj] = t => depth[k.obj] < DEPTH_MAX
  /\ call' = [call EXCEPT ![t] = k]
  /\ Goto(t, "test")
  /\ UNCHANGED <<waiterVars, objVars, expired, wakes>>

(* EventGroup::satisfied.                                                  *)
Satisfied(k) ==
  IF k.all THEN k.want \subseteq bits[k.obj] ELSE k.want \cap bits[k.obj] # {}

(* The closure each call passes to test_or_enrol: would it succeed?        *)
Available(t) ==
  LET k == call[t] IN
  CASE k.op = "take" -> count[k.obj] > 0
    [] k.op = "send" -> len[k.obj] < CAPACITY
    [] k.op = "recv" -> len[k.obj] > 0
    [] k.op = "lock" -> owner[k.obj] \in {NoOwner, t}
    [] k.op = "wait" -> Satisfied(k)

(* A handler on the task's own core runs to its end before the task goes   *)
(* on; on another core it does not.                                        *)
NotInterrupted == ISR_REMOTE \/ \A q \in Queues : isr[q] # "put"

(* The test succeeds: Semaphore::take, ...                                 *)
TakeOk(t) ==
  /\ pc[t] = "test"
  /\ call[t].op = "take"
  /\ Available(t)
  /\ count' = [count EXCEPT ![call[t].obj] = @ - 1]
  /\ Return(t)
  /\ UNCHANGED <<waiterVars, len, isrVars, items, owner, depth, bits, held, wakes>>

(* ... DynQueue::send, which wakes one receiver in the same step, ...      *)
SendOk(t) ==
  /\ pc[t] = "test"
  /\ NotInterrupted
  /\ call[t].op = "send"
  /\ Available(t)
  /\ len' = [len EXCEPT ![call[t].obj] = @ + 1]
  /\ items' = [items EXCEPT ![call[t].obj] = @ + 1]
  /\ WakeOne("recv", call[t].obj)
  /\ Return(t)
  /\ UNCHANGED <<timed, table, count, isrVars, owner, depth, bits, held, wakes>>

(* ... DynQueue::recv, which wakes one sender, ...                         *)
RecvOk(t) ==
  /\ pc[t] = "test"
  /\ NotInterrupted
  /\ call[t].op = "recv"
  /\ Available(t)
  /\ len' = [len EXCEPT ![call[t].obj] = @ - 1]
  /\ items' = [items EXCEPT ![call[t].obj] = @ - 1]
  /\ WakeOne("send", call[t].obj)
  /\ Return(t)
  /\ UNCHANGED <<timed, table, count, isrVars, owner, depth, bits, held, wakes>>

(* Mutant: re-entry starts the depth again.                                *)
LockOkResets(t) ==
  LET m == call[t].obj IN
  /\ pc[t] = "test"
  /\ call[t].op = "lock"
  /\ Available(t)
  /\ owner' = [owner EXCEPT ![m] = t]
  /\ depth' = [depth EXCEPT ![m] = 1]
  /\ held' = [held EXCEPT ![m][t] = @ + 1]
  /\ Return(t)
  /\ UNCHANGED <<waiterVars, count, len, isrVars, items, bits, wakes>>

(* ... RecursiveMutex::lock, ...                                           *)
LockOk(t) ==
  LET m == call[t].obj IN
  /\ pc[t] = "test"
  /\ call[t].op = "lock"
  /\ Available(t)
  /\ owner' = [owner EXCEPT ![m] = t]
  /\ depth' = [depth EXCEPT ![m] = IF owner[m] = t THEN @ + 1 ELSE 1]
  /\ held' = [held EXCEPT ![m][t] = @ + 1]
  /\ Return(t)
  /\ UNCHANGED <<waiterVars, count, len, isrVars, items, bits, wakes>>

(* ... EventGroup::wait.                                                   *)
WaitOk(t) ==
  LET k == call[t] IN
  /\ pc[t] = "test"
  /\ k.op = "wait"
  /\ Available(t)
  /\ bits' = IF k.clear THEN [bits EXCEPT ![k.obj] = @ \ k.want] ELSE bits
  /\ Return(t)
  /\ UNCHANGED <<waiterVars, count, len, isrVars, items, owner, depth, held, wakes>>

(* The test fails: enrol in the same step, or go on when there is no room. *)
TestFails(t) ==
  /\ pc[t] = "test"
  /\ NotInterrupted
  /\ ~Available(t)
  /\ \/ Enrol(t, Side(call[t]), call[t].obj, FALSE) /\ Goto(t, "resume")
     \/ CannotEnrol(t, Side(call[t]), call[t].obj, FALSE) /\ Goto(t, "check")
  /\ UNCHANGED <<objVars, call, expired, wakes>>

Resume(t) ==
  /\ pc[t] = "resume"
  /\ tstate[t] = "Ready"
  /\ Delist(t, Side(call[t]), call[t].obj)
  /\ Goto(t, "check")
  /\ UNCHANGED <<tstate, timed, table, objVars, call, expired, wakes>>

(* retry_remaining: out of time returns false without another test.        *)
Check(t) ==
  /\ pc[t] = "check"
  /\ IF call[t].finite /\ expired[t]
       THEN Return(t)
       ELSE Goto(t, "test") /\ UNCHANGED <<call, expired>>
  /\ UNCHANGED <<waiterVars, objVars, wakes>>

(* The deadline of a finite call passes.                                   *)
DeadlinePasses(t) ==
  /\ pc[t] \in {"test", "resume", "check"}
  /\ call[t].finite
  /\ ~expired[t]
  /\ expired' = [expired EXCEPT ![t] = TRUE]
  /\ UNCHANGED <<waiterVars, objVars, call, pc, wakes>>

----------------------------------------------------------------------------
(* Mutant: increment, and wake only the first time.                        *)
GiveSilent(s) ==
  /\ count[s] < SEM_MAX
  /\ count' = [count EXCEPT ![s] = @ + 1]
  /\ IF count[s] = 0 THEN WakeOne("recv", s) ELSE UNCHANGED <<tstate, list>>
  /\ UNCHANGED <<timed, table, len, isrVars, items, owner, depth, bits, held, call, pc, expired, wakes>>

(* Semaphore::give, from a task or an interrupt: produce_and_wake.         *)
Give(s) ==
  /\ count[s] < SEM_MAX
  /\ count' = [count EXCEPT ![s] = @ + 1]
  /\ WakeOne("recv", s)
  /\ UNCHANGED <<timed, table, len, isrVars, items, owner, depth, bits, held, call, pc, expired, wakes>>

(* DynQueue::send_from_isr: try_send without the locks.  It reads len,     *)
(* copies the item in and stores len + 1, on another core while a task may *)
(* be in its closure; then it calls wake_one_receiver.                     *)
IsrLoad(q) ==
  /\ isr[q] = "idle"
  /\ len[q] < CAPACITY
  /\ isr' = [isr EXCEPT ![q] = "put"]
  /\ isrLen' = [isrLen EXCEPT ![q] = len[q]]
  /\ UNCHANGED <<waiterVars, count, len, items, owner, depth, bits, held, call, pc, expired, wakes>>

IsrStore(q) ==
  /\ isr[q] = "put"
  /\ len' = [len EXCEPT ![q] = isrLen[q] + 1]
  /\ items' = [items EXCEPT ![q] = @ + 1]
  /\ isr' = [isr EXCEPT ![q] = "wake"]
  /\ isrLen' = [isrLen EXCEPT ![q] = 0]
  /\ UNCHANGED <<waiterVars, count, owner, depth, bits, held, call, pc, expired, wakes>>

IsrWake(q) ==
  /\ isr[q] = "wake"
  /\ WakeOne("recv", q)
  /\ isr' = [isr EXCEPT ![q] = "idle"]
  /\ UNCHANGED <<timed, table, count, len, isrLen, items, owner, depth, bits, held, call, pc, expired, wakes>>

(* RecursiveMutex::unlock: one level, and at the last one ...              *)
Unlock(t, m) ==
  /\ pc[t] = "idle"
  /\ owner[m] = t /\ depth[m] > 0
  /\ depth' = [depth EXCEPT ![m] = @ - 1]
  /\ held' = [held EXCEPT ![m][t] = @ - 1]
  /\ IF depth[m] = 1
       THEN /\ call' = [call EXCEPT ![t] = [op |-> "unlock", obj |-> m]]
            /\ Goto(t, "release")
       ELSE UNCHANGED <<call, pc>>
  /\ UNCHANGED <<waiterVars, count, len, isrVars, items, owner, bits, expired, wakes>>

(* ... produce_and_wake clears the owner.                                  *)
Release(t) ==
  LET m == call[t].obj IN
  /\ pc[t] = "release"
  /\ owner' = [owner EXCEPT ![m] = NoOwner]
  /\ WakeOne("recv", m)
  /\ Return(t)
  /\ UNCHANGED <<timed, table, count, len, isrVars, items, depth, bits, held, wakes>>

(* EventGroup::set: the bits and the first wake are one step ...           *)
Set(t, g, b) ==
  /\ pc[t] = "idle"
  /\ bits' = [bits EXCEPT ![g] = @ \cup b]
  /\ WakeOne("recv", g)
  /\ wakes' = [wakes EXCEPT ![t] = MAX_WAKE - 1]
  /\ call' = [call EXCEPT ![t] = [op |-> "set", obj |-> g]]
  /\ Goto(t, "waking")
  /\ UNCHANGED <<timed, table, count, len, isrVars, items, owner, depth, held, expired>>

(* ... and the others follow one by one.                                   *)
SetWakesNext(t) ==
  /\ pc[t] = "waking"
  /\ IF wakes[t] > 0
       THEN /\ WakeOne("recv", call[t].obj)
            /\ wakes' = [wakes EXCEPT ![t] = @ - 1]
            /\ UNCHANGED <<call, pc, expired>>
       ELSE Return(t) /\ UNCHANGED <<tstate, list, wakes>>
  /\ UNCHANGED <<timed, table, objVars>>

(* EventGroup::clear, from anywhere.                                       *)
Clear(g, b) ==
  /\ bits' = [bits EXCEPT ![g] = @ \ b]
  /\ UNCHANGED <<waiterVars, count, len, isrVars, items, owner, depth, held, call, pc, expired, wakes>>

Proceed(t) ==
  \/ TakeOk(t) \/ SendOk(t) \/ RecvOk(t) \/ LockOk(t) \/ WaitOk(t)
  \/ TestFails(t) \/ Resume(t) \/ Check(t) \/ Release(t) \/ SetWakesNext(t)

(* The steps of a program that uses the objects O.                         *)
Using(O) ==
  \/ \E t \in Tasks, k \in Calls : k.obj \in O /\ Enter(t, k)
  \/ \E t \in Tasks : Proceed(t) \/ DeadlinePasses(t)
  \/ \E t \in Tasks, m \in RMutexes \cap O : Unlock(t, m)
  \/ \E t \in Tasks, g \in Groups \cap O, b \in SUBSET Bits : Set(t, g, b)
  \/ \E g \in Groups \cap O, b \in SUBSET Bits : Clear(g, b)
  \/ \E s \in Semaphores \cap O : Give(s)
  \/ \E q \in Queues \cap O : IsrLoad(q) \/ IsrStore(q) \/ IsrWake(q)

Next == Using(Objects)

Spec == Init /\ [][Next]_vars

(* A runnable task eventually takes its next step, and time passes.        *)
FairSpec == Spec /\ \A t \in Tasks : WF_vars(Proceed(t)) /\ WF_vars(DeadlinePasses(t))

----------------------------------------------------------------------------
WaitsOn(t, op, o) == call[t] # NoCall /\ call[t].op = op /\ call[t].obj = o
Asleep(op, o) == {t \in Tasks : WaitsOn(t, op, o) /\ tstate[t] # "Ready"}
(* Awake inside the call: it will test the resource again.                 *)
Retrying(op, o) == {t \in Tasks : WaitsOn(t, op, o) /\ tstate[t] = "Ready"}

(* produce_and_wake: "a consumer testing the resource either sees it       *)
(* before this runs -- and enrols -- or after, and takes it.  There is no  *)
(* third case."  While a taker sleeps, every permit there is belongs to a  *)
(* taker already on its way to it.  (A taker that may time out can leave   *)
(* with the wake: the promise is for objects without finite timeouts.)     *)
NoLostPermit ==
  \A s \in Semaphores \ Timed :
    Asleep("take", s) # {} => count[s] <= Cardinality(Retrying("take", s))

(* The same for a queue's items and for its free slots ...                 *)
NoLostItem ==
  \A q \in Queues \ Timed :
    /\ Asleep("recv", q) # {} =>
         len[q] <= Cardinality(Retrying("recv", q)) + (IF isr[q] = "wake" THEN 1 ELSE 0)
    /\ Asleep("send", q) # {} =>
         CAPACITY - len[q] <= Cardinality(Retrying("send", q))

(* ... for a free recursive mutex ...                                      *)
NoLostUnlock ==
  \A m \in RMutexes \ Timed :
    Asleep("lock", m) # {} /\ owner[m] = NoOwner => Retrying("lock", m) # {}

(* ... and for event bits: a sleeper whose bits are set has a set() still  *)
(* waking tasks that will reach it, past those that are not satisfied and  *)
(* go back to the end of the list.                                         *)
Rank(t, o) ==
  LET at == CHOOSE i \in DOMAIN list["recv"][o] : list["recv"][o][i] = t
  IN  Cardinality({i \in 1 .. at : tstate[list["recv"][o][i]] # "Ready"})
(* The wakes that set() calls under way have still to make.                *)
Owed(g) == {w \in Tasks \X (1 .. MAX_WAKE) : WaitsOn(w[1], "set", g) /\ w[2] <= wakes[w[1]]}
NoLostEvent ==
  \A g \in Groups \ Timed : \A t \in Asleep("wait", g) :
    Satisfied(call[t]) => Rank(t, g) <= Cardinality(Owed(g))

(* No wake-up is lost on any kind of object: nobody sleeps on something    *)
(* that is there and promised to no one.                                   *)
NothingLost == NoLostPermit /\ NoLostItem /\ NoLostUnlock /\ NoLostEvent

(* Nested locks are counted: the owner is the one task that has locked     *)
(* more often than it unlocked, by exactly the depth.                      *)
RecursionCounts ==
  \A m \in RMutexes, t \in Tasks :
    held[m][t] = IF owner[m] = t THEN depth[m] ELSE 0

(* DynQueue: "Every field is behind the scheduler's critical section in    *)
(* use": the length counts the items sent and not yet received.            *)
LenCountsItems == \A q \in Queues : len[q] = items[q]

(* The counters of a recursive mutex and of a queue agree with what its    *)
(* users have done.                                                        *)
CountsAgree == RecursionCounts /\ LenCountsItems

(* Runtime objects neither lose a wake-up nor miscount what they hand out  *)
(* (dynobj.rs, consume_or_block and produce_and_wake).                     *)
ObjectsRight == NothingLost /\ CountsAgree

(* Semaphore::take: "Take a permit, blocking up to `timeout_ms`."          *)
FiniteCallsReturn ==
  \A t \in Tasks : (call[t] \in Calls /\ call[t].finite) ~> (call[t] = NoCall)
=============================================================================
