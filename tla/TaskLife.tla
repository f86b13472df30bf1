------------------------------ MODULE TaskLife ------------------------------
(***************************************************************************)
(* Tasks that come and go: spawn_inner with a heap stack, flint_task_exit  *)
(* (spawn.rs), delete_task, delete_self and reap_deleted (dynobj.rs),      *)
(* against the waiter lists and the context switch.                        *)
(*                                                                         *)
(* A task id is a slot of the TCB table and is reused.  Clearing a slot,   *)
(* forget_task and heap::free are three steps, the last two outside the    *)
(* scheduler lock.  A context switch is two: the decision under the lock   *)
(* (set_current), and the moment the core leaves the outgoing stack.  On   *)
(* Xtensa _flint_trap runs on the stack of the task it interrupted, so     *)
(* these are apart; on Cortex-M0+ handlers run on the main stack, so the   *)
(* process stack is left at the decision.                                  *)
(*                                                                         *)
(* Priorities are left out: a switch may choose any runnable task.  Every  *)
(* wait here is forever.                                                   *)
(***************************************************************************)
EXTENDS Waiters, TLC

CONSTANTS
  Cores,
  IdleTask,    \* IdleTask[c]: the idle task of core c
  Residents,   \* tasks spawned at boot, on pool stacks
  PoolStack,   \* PoolStack[t]: the stack of an idle or resident task
  Stacks,      \* heap blocks a stack can be allocated from
  Machines,    \* the machines considered: "xtensa", "rp2040"
  NoStack, NoJob

IdleTasks == {IdleTask[c] : c \in Cores}
Static == IdleTasks \cup Residents
PoolStacks == {PoolStack[t] : t \in Static}

ASSUME TaskLifeAssumption ==
  /\ Tasks \subseteq Nat
  /\ IdleTask \in [Cores -> Tasks]
  /\ \A c, d \in Cores : IdleTask[c] = IdleTask[d] => c = d
  /\ Residents \subseteq Tasks \ IdleTasks
  /\ DOMAIN PoolStack = Static
  /\ PoolStacks \cap (Stacks \cup {NoStack}) = {}
  /\ \A t, u \in Static : PoolStack[t] = PoolStack[u] => t = u
  /\ NoStack \notin Stacks
  /\ Machines \subseteq {"xtensa", "rp2040"}

VARIABLES
  machine,   \* the machine this system runs on, fixed at the start
  stackOf,   \* TCB.stack_base
  free,      \* heap blocks not allocated
  current,   \* current_per_core
  onStack,   \* the stack the core's stack pointer is in
  job        \* what a task is in the middle of

vars == <<machine, waiterVars, stackOf, free, current, onStack, job>>

(* On Xtensa a trap runs on the interrupted task's stack.                  *)
XTENSA == machine = "xtensa"

States == {"None", "Ready", "Running", "BlockedRecv", "Deleting", "Suspended"}
Runnable == {"Ready", "Running"}
Jobs ==
  [op : {"wait"}, obj : Objects]
    \cup [op : {"forget", "free"}, id : Tasks, stack : Stacks \cup {NoStack}]
    \cup [op : {"dying", "dead"}]

TypeOK ==
  /\ machine \in Machines
  /\ tstate \in [Tasks -> States]
  /\ timed \in [Tasks -> BOOLEAN]
  /\ table \subseteq Objects
  /\ list \in [Sides -> [Objects -> Seq(Tasks)]]
  /\ stackOf \in [Tasks -> Stacks \cup PoolStacks \cup {NoStack}]
  /\ free \subseteq Stacks
  /\ current \in [Cores -> Tasks]
  /\ onStack \in [Cores -> Stacks \cup PoolStacks]
  /\ job \in [Tasks -> Jobs \cup {NoJob}]

(* Each core runs its idle task; the resident tasks have been spawned.     *)
Init ==
  /\ machine \in Machines
  /\ tstate = [t \in Tasks |-> IF t \in IdleTasks THEN "Running"
                              ELSE IF t \in Residents THEN "Ready" ELSE "None"]
  /\ timed = [t \in Tasks |-> FALSE]
  /\ table = {}
  /\ list = [s \in Sides |-> [o \in Objects |-> <<>>]]
  /\ stackOf = [t \in Tasks |-> IF t \in Static THEN PoolStack[t] ELSE NoStack]
  /\ free = Stacks
  /\ current = IdleTask
  /\ onStack = [c \in Cores |-> PoolStack[IdleTask[c]]]
  /\ job = [t \in Tasks |-> NoJob]

Executes(c, t) == current[c] = t /\ onStack[c] = stackOf[t]
Free(c, t) == Executes(c, t) /\ job[t] = NoJob /\ tstate[t] \in Runnable
HeapStack(t) == stackOf[t] \in Stacks   \* TCB.heap_stack
CurrentAnywhere(t) == \E c \in Cores : current[c] = t
Does(t, j) == job' = [job EXCEPT ![t] = j]

----------------------------------------------------------------------------
(* spawn_inner, StackSource::Heap: alloc_id takes the first empty slot.    *)
Spawn(c, t, s) ==
  LET empty == {i \in Tasks : tstate[i] = "None"}
      id == CHOOSE i \in empty : \A j \in empty : i <= j
  IN
  /\ Free(c, t)
  /\ t \notin IdleTasks
  /\ empty # {}
  /\ s \in free
  /\ free' = free \ {s}
  /\ stackOf' = [stackOf EXCEPT ![id] = s]
  /\ tstate' = [tstate EXCEPT ![id] = "Ready"]
  /\ Does(id, NoJob)
  /\ UNCHANGED <<timed, table, list, current, onStack>>

(* block_recv(o, u32::MAX): enrol, block, and wait to be resumed.          *)
Wait(c, t, o) ==
  /\ Free(c, t)
  /\ t \notin IdleTasks
  /\ Enrol(t, "recv", o, FALSE)
  /\ Does(t, [op |-> "wait", obj |-> o])
  /\ UNCHANGED <<stackOf, free, current, onStack>>

(* ... resumed: delist if still listed.                                    *)
Resume(c, t) ==
  /\ Executes(c, t)
  /\ tstate[t] \in Runnable
  /\ job[t] # NoJob /\ job[t].op = "wait"
  /\ Delist(t, "recv", job[t].obj)
  /\ Does(t, NoJob)
  /\ UNCHANGED <<tstate, timed, table, stackOf, free, current, onStack>>

(* wake_one_receiver, from an interrupt.                                   *)
Wake(o) ==
  /\ WakeOne("recv", o)
  /\ UNCHANGED <<timed, table, stackOf, free, current, onStack, job>>

(* Mutant: trust the state and not current_per_core.                       *)
DeleteTaskByState(c, t, id) ==
  /\ Free(c, t)
  /\ t \notin IdleTasks
  /\ id # t
  /\ tstate[id] \notin {"None", "Running"}
  /\ HeapStack(id)
  /\ tstate' = [tstate EXCEPT ![id] = "None"]
  /\ Does(t, [op |-> "forget", id |-> id, stack |-> stackOf[id]])
  /\ UNCHANGED <<timed, table, list, stackOf, free, current, onStack>>

(* delete_task under the lock: refused for a running or pool-backed task,  *)
(* otherwise the slot is cleared at once.                                  *)
DeleteTask(c, t, id) ==
  /\ Free(c, t)
  /\ t \notin IdleTasks
  /\ id # t
  /\ tstate[id] \notin {"None", "Running"}
  /\ ~CurrentAnywhere(id)
  /\ HeapStack(id)
  /\ tstate' = [tstate EXCEPT ![id] = "None"]
  /\ Does(t, [op |-> "forget", id |-> id, stack |-> stackOf[id]])
  /\ UNCHANGED <<timed, table, list, stackOf, free, current, onStack>>

(* delete_self under the lock.                                             *)
DeleteSelf(c, t) ==
  /\ Free(c, t)
  /\ t \notin IdleTasks
  /\ tstate' = [tstate EXCEPT ![t] = "Deleting"]
  /\ Does(t, [op |-> "dying"])
  /\ UNCHANGED <<timed, table, list, stackOf, free, current, onStack>>

(* flint_task_exit: the entry function returned.  Nothing reclaims the     *)
(* slot or the stack unless another task deletes it.                       *)
TaskExit(c, t) ==
  /\ Free(c, t)
  /\ t \notin IdleTasks
  /\ tstate' = [tstate EXCEPT ![t] = "Suspended"]
  /\ Does(t, [op |-> "dead"])
  /\ UNCHANGED <<timed, table, list, stackOf, free, current, onStack>>

(* What the reaper hands to heap::free: nothing for a pool stack.          *)
Reclaimed(id) == IF HeapStack(id) THEN stackOf[id] ELSE NoStack

(* reap_deleted, one pass of the idle task: the first Deleting task that   *)
(* no core is on.                                                          *)
ReapPick(c, t, id) ==
  LET victims == {i \in Tasks : tstate[i] = "Deleting" /\ ~CurrentAnywhere(i)} IN
  /\ Free(c, t)
  /\ t \in IdleTasks
  /\ id \in victims
  /\ \A i \in victims : id <= i
  /\ tstate' = [tstate EXCEPT ![id] = "None"]
  /\ Does(t, [op |-> "forget", id |-> id, stack |-> Reclaimed(id)])
  /\ UNCHANGED <<timed, table, list, stackOf, free, current, onStack>>

(* forget_task(id): out of every list, by id.                              *)
Without(id) ==
  [s \in Sides |-> [o \in Objects |-> Remove(list[s][o], id)]]

ForgetTask(c, t) ==
  /\ Executes(c, t)
  /\ job[t] # NoJob
  /\ \/ /\ job[t].op = "forget"
        /\ list' = Without(job[t].id)
        /\ Does(t, [job[t] EXCEPT !.op = "free"])
     \/ /\ job[t].op = "dying"
        /\ list' = Without(t)
        /\ Does(t, [op |-> "dead"])
  /\ UNCHANGED <<tstate, timed, table, stackOf, free, current, onStack>>

(* heap::free of the stack, if it came from the heap, and delete_task or   *)
(* the reaper goes on.                                                     *)
FreeStack(c, t) ==
  /\ Executes(c, t)
  /\ job[t] # NoJob /\ job[t].op = "free"
  /\ free' = free \cup ({job[t].stack} \ {NoStack})
  /\ Does(t, NoJob)
  /\ UNCHANGED <<waiterVars, stackOf, current, onStack>>

(* The trap's decision: any runnable task no other core is on.             *)
Switch(c, next) ==
  LET cur == current[c] IN
  /\ Executes(c, cur)
  /\ next # cur
  /\ tstate[next] \in Runnable
  /\ ~CurrentAnywhere(next)
  /\ next \in IdleTasks => next = IdleTask[c]
  /\ tstate' = [t \in Tasks |->
                  IF t = next THEN "Running"
                  ELSE IF t = cur /\ tstate[t] = "Running" THEN "Ready" ELSE tstate[t]]
  /\ current' = [current EXCEPT ![c] = next]
  /\ onStack' = IF XTENSA THEN onStack ELSE [onStack EXCEPT ![c] = stackOf[next]]
  /\ UNCHANGED <<timed, table, list, stackOf, free, job>>

(* The trap returns into the chosen task, on its stack.                    *)
LeaveTrap(c) ==
  /\ onStack[c] # stackOf[current[c]]
  /\ onStack' = [onStack EXCEPT ![c] = stackOf[current[c]]]
  /\ UNCHANGED <<waiterVars, stackOf, free, current, job>>

Next ==
  /\ \/ \E c \in Cores, t \in Tasks :
          \/ \E s \in Stacks : Spawn(c, t, s)
          \/ \E o \in Objects : Wait(c, t, o)
          \/ \E id \in Tasks : DeleteTask(c, t, id) \/ ReapPick(c, t, id)
          \/ Resume(c, t) \/ DeleteSelf(c, t) \/ TaskExit(c, t)
          \/ ForgetTask(c, t) \/ FreeStack(c, t) \/ Switch(c, t)
     \/ \E c \in Cores : LeaveTrap(c)
     \/ \E o \in Objects : Wake(o)
  /\ UNCHANGED machine

Spec == Init /\ [][Next]_vars

----------------------------------------------------------------------------
Alive(t) == tstate[t] # "None"

(* A stack belongs to one task: a live task's stack is not in the free     *)
(* list, is not another's, and is not on its way to heap::free.            *)
StacksOwnedOnce ==
  \A t \in Tasks : Alive(t) =>
    /\ stackOf[t] \notin free
    /\ \A u \in Tasks \ {t} :
         /\ Alive(u) => stackOf[u] # stackOf[t]
         /\ job[u] # NoJob /\ job[u].op \in {"forget", "free"} /\ Alive(u)
              => job[u].stack # stackOf[t]

(* A slot is never cleared under a core: what current_per_core names is a  *)
(* live task, whoever deletes it and however far it is from switching away. *)
CurrentNotReaped == \A c \in Cores : Alive(current[c])

(* delete_task: "Freeing the stack it is executing on would corrupt it     *)
(* mid-instruction"; reap_deleted: "while it is still executing the dying  *)
(* task -- or saving its context on the way out -- `current_per_core`      *)
(* still names it, and this skips it for now".  No core's stack pointer is *)
(* ever in a freed block, on the machine whose handler leaves the outgoing *)
(* stack in the step that decides.                                         *)
StackNotFreed == ~XTENSA => \A c \in Cores : onStack[c] \notin free

(* _flint_trap: the decision has "to look atomic to the other core, or it  *)
(* can schedule the same task twice".  No two cores are on one stack,      *)
(* again where deciding and leaving are one step.                          *)
OneCorePerStack == ~XTENSA => \A c, d \in Cores : onStack[c] = onStack[d] => c = d

(* A stack is its task's from spawn until no core needs it: owned once,    *)
(* not freed or shared while a core is on it.                              *)
StacksSafe == StacksOwnedOnce /\ CurrentNotReaped /\ StackNotFreed /\ OneCorePerStack

(* forget_task exists so that no task is "woken from a wait it never       *)
(* entered", "returning from `recv` with nothing received": a task that    *)
(* waits forever and has been woken was taken off the list it is on.       *)
(* Not an invariant of this code: see the README's list of disagreements.  *)
NoForeignWake ==
  \A t \in Tasks :
    /\ tstate[t] \in Runnable
    /\ job[t] # NoJob /\ job[t].op = "wait"
    => ~Listed(t, "recv", job[t].obj)

(* A sleeping task can be found: forget_task never takes a live waiter     *)
(* off its list.                                                           *)
(* Not an invariant of this code: see the README's list of disagreements.  *)
SleepersAreListed ==
  \A t \in Tasks : tstate[t] = "BlockedRecv" => Listed(t, "recv", job[t].obj)

----------------------------------------------------------------------------
(* For TLC: two cores with their idle tasks and one resident task, whose   *)
(* stacks are pool stacks.  The heap may answer with any free block.       *)
DuoIdle == [c \in {0, 1} |-> c]
DuoPool == [t \in 0 .. 2 |-> <<"pool", t>>]
Symmetry == Permutations(Stacks)
=============================================================================
