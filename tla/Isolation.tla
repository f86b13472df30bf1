----------------------------- MODULE Isolation -----------------------------
(***************************************************************************)
(* Isolated tasks on the RP2040 (kernel/src/isolation.rs and armv6m.rs,    *)
(* hal/src/isolation.rs, arch/armv6m/src/mpu.rs): private memory from the  *)
(* stack pool, the MPU bank and the privilege of each core at a switch,    *)
(* the calls of an isolated task, and its faults.                          *)
(*                                                                         *)
(* Memory is counted in units of 128 bytes, so the alignment of a trusted  *)
(* stack (16 bytes) does not show.  A switch, a spawn and a call hold the  *)
(* scheduler's lock with interrupts masked, and are one step each.         *)
(***************************************************************************)
EXTENDS Naturals, FiniteSets

CONSTANTS
  IsoIds,               \* task ids
  IsoCores,             \* 0 and 1
  POOL_UNITS,           \* size of the stack pool
  MIN_STACK, MAX_STACK, MIN_DATA, MAX_DATA,   \* in units
  SizesTried, DataTried,
  MAX_SPAWNS,           \* bound: spawns
  NoTask, NoMemory, Panic

(* What a task is given, and what the table holds of it.                   *)
Regions == [base : Nat, size : Nat]
Memories == [stack : Regions, data : Regions]
TaskRecords == [state : {"ready", "running", "suspended"}, memory : Memories \cup {NoMemory}, sp : Nat]

ASSUME IsolationAssumption ==
  /\ {POOL_UNITS, MIN_STACK, MAX_STACK, MIN_DATA, MAX_DATA, MAX_SPAWNS} \subseteq Nat
  /\ SizesTried \cup DataTried \subseteq Nat /\ {0, 1} \subseteq IsoCores /\ IsoIds \subseteq Nat
  /\ MIN_STACK > 0 /\ MIN_STACK % 8 = 0
  /\ NoTask \notin IsoIds \cup TaskRecords /\ NoMemory \notin Memories

VARIABLES
  poolUsed,    \* STACK_ALLOC_OFFSET
  isoTask,     \* the tasks: id -> state, memory, saved stack pointer; or NoTask
  isoCurrent,  \* per core: the scheduler's current
  active,      \* ACTIVE
  bank,        \* per core: the regions the MPU grants to unprivileged code
  unpriv,      \* per core: CONTROL.nPRIV
  core,        \* per core: "off", "reset" (privileged, on the boot stack), "thread"
  owners,      \* every extent of the pool ever handed out, with the spawn it was for
  evidence,    \* FLINT_ISOLATION_FAULT: core and task, once the system has stopped; or NoTask
  isoSpawns

isoVars == <<poolUsed, isoTask, isoCurrent, active, bank, unpriv, core, owners, evidence, isoSpawns>>

Extent(base, size) == base .. base + size - 1
TypeIso ==
  /\ poolUsed \in 0 .. POOL_UNITS /\ isoSpawns \in 0 .. MAX_SPAWNS
  /\ isoCurrent \in [IsoCores -> IsoIds \cup {NoTask}] /\ unpriv \in [IsoCores -> BOOLEAN]
  /\ core \in [IsoCores -> {"off", "reset", "thread"}]
  /\ \A c \in IsoCores : bank[c] \subseteq Extent(0, POOL_UNITS)
  /\ evidence \in {NoTask, Panic} \cup [core : IsoCores, id : IsoIds \cup {NoTask}]

----------------------------------------------------------------------------
PowerOfTwo(n) == \E k \in 0 .. 15 : n = 2 ^ k
AlignUp(x, n) == ((x + n - 1) \div n) * n

(* reserve: both or neither; NoMemory for a refusal.                       *)
reserve(cursor, end, stack, data) ==
  LET sb == AlignUp(cursor, stack)
      db == AlignUp(sb + stack, data)
      next == IF data = 0 THEN sb + stack ELSE db + data
  IN  IF /\ stack \in MIN_STACK .. MAX_STACK /\ PowerOfTwo(stack)
         /\ data # 0 => data \in MIN_DATA .. MAX_DATA /\ PowerOfTwo(data)
         /\ next <= end
      THEN [stack |-> [base |-> sb, size |-> stack], data |-> [base |-> IF data = 0 THEN 0 ELSE db, size |-> data],
            next |-> next]
      ELSE NoMemory

(* Region::usable of a stack: without its lower eighth.                    *)
Usable(m) == Extent(m.stack.base + m.stack.size \div 8, m.stack.size - m.stack.size \div 8)
(* mpu::image: the stack without the guard subregion, and the data.  The   *)
(* code region is the same for all.                                        *)
image(m) == IF m = NoMemory THEN {} ELSE Usable(m) \cup Extent(m.data.base, m.data.size)
(* exception_frame: room for the frame and the software save; validate_psp *)
(* asks for it of an isolated task only.                                   *)
exception_frame(m, psp) == psp \in Usable(m)
validate_psp(m, psp) == m # NoMemory => exception_frame(m, psp)

(* Mutant: one record for both cores.                                      *)
ActiveSlotShared(c) == 0
ActiveSlot(c) == c

(* activate, on core c, with the bank written only when the grant changes. *)
Activates(c, id, m) ==
  /\ active' = [active EXCEPT ![ActiveSlot(c)] = [id |-> id, memory |-> m]]
  /\ bank' = IF active[ActiveSlot(c)].memory # m THEN [bank EXCEPT ![c] = image(m)] ELSE bank
  /\ unpriv' = [unpriv EXCEPT ![c] = m # NoMemory]

----------------------------------------------------------------------------
(* Init: core 0 has started, with its idle task about to be launched; core *)
(* 1's waits.                                                              *)
NewTask(m, sp) == [state |-> "ready", memory |-> m, sp |-> sp]
IsoInit ==
  /\ poolUsed = 0 /\ owners = {} /\ isoSpawns = 0 /\ evidence = NoTask
  /\ isoTask = [i \in IsoIds |-> NoTask]
  /\ isoCurrent = [c \in IsoCores |-> NoTask]
  /\ active = [c \in IsoCores |-> [id |-> NoTask, memory |-> NoMemory]]
  /\ bank = [c \in IsoCores |-> {}]
  /\ unpriv = [c \in IsoCores |-> FALSE]
  /\ core = [c \in IsoCores |-> "off"]

Runs == evidence = NoTask
Privileged(c) == core[c] = "reset" \/ (core[c] = "thread" /\ ~unpriv[c])
FreeIds == {i \in IsoIds : isoTask[i] = NoTask}
FirstFree == CHOOSE i \in FreeIds : \A j \in FreeIds : i <= j

(* init_core: the bank is emptied before anything else.                    *)
InitCore(c) ==
  /\ Runs /\ core[c] = "off" /\ (c = 0 \/ core[0] # "off")
  /\ core' = [core EXCEPT ![c] = "reset"]
  /\ bank' = [bank EXCEPT ![c] = {}]
  /\ UNCHANGED <<poolUsed, isoTask, isoCurrent, active, unpriv, owners, evidence, isoSpawns>>

(* isolation::spawn: id, then memory, zeroed; an id without memory is      *)
(* given back.                                                             *)
SpawnIsolated(c, stack, data) ==
  LET m == reserve(poolUsed, POOL_UNITS, stack, data)
  IN  /\ Runs /\ Privileged(c) /\ isoSpawns < MAX_SPAWNS
      /\ FreeIds # {} /\ m # NoMemory
      /\ poolUsed' = m.next
      /\ isoTask' = [isoTask EXCEPT ![FirstFree] =
                       NewTask([stack |-> m.stack, data |-> m.data], m.stack.base + m.stack.size - 1)]
      /\ owners' = owners \cup {[spawn |-> isoSpawns, id |-> FirstFree, base |-> r.base, size |-> r.size]
                                  : r \in {m.stack, m.data}}
      /\ isoSpawns' = isoSpawns + 1
      /\ UNCHANGED <<isoCurrent, active, bank, unpriv, core, evidence>>

(* allocate_stack, for a trusted task.                                     *)
SpawnTrusted(c, size) ==
  /\ Runs /\ Privileged(c) /\ isoSpawns < MAX_SPAWNS
  /\ FreeIds # {} /\ size >= MIN_STACK /\ poolUsed + size <= POOL_UNITS
  /\ poolUsed' = poolUsed + size
  /\ isoTask' = [isoTask EXCEPT ![FirstFree] = NewTask(NoMemory, poolUsed + size - 1)]
  /\ owners' = owners \cup {[spawn |-> isoSpawns, id |-> FirstFree, base |-> poolUsed, size |-> size]}
  /\ isoSpawns' = isoSpawns + 1
  /\ UNCHANGED <<isoCurrent, active, bank, unpriv, core, evidence>>

(* delete_task and reap: the id of a task that runs nowhere is free again, *)
(* its memory is not.                                                      *)
ReapTask(c, i) ==
  /\ Runs /\ Privileged(c) /\ isoTask[i] # NoTask
  /\ \A d \in IsoCores : isoCurrent[d] # i
  /\ isoTask' = [isoTask EXCEPT ![i] = NoTask]
  /\ UNCHANGED <<poolUsed, isoCurrent, active, bank, unpriv, core, owners, evidence, isoSpawns>>

----------------------------------------------------------------------------
ReadyTasks == {i \in IsoIds : isoTask[i] # NoTask /\ isoTask[i].state = "ready"}

(* core1_boot makes core 1's idle task its current before the launch.      *)
CoreOneJoins(i) ==
  /\ Runs /\ core[1] = "reset" /\ isoCurrent[1] = NoTask
  /\ i \in ReadyTasks /\ isoTask[i].memory = NoMemory
  /\ isoTask' = [isoTask EXCEPT ![i].state = "running"]
  /\ isoCurrent' = [isoCurrent EXCEPT ![1] = i]
  /\ UNCHANGED <<poolUsed, active, bank, unpriv, core, owners, evidence, isoSpawns>>

(* first_stack: the current task, or the one the scheduler picks.          *)
FirstStack(c, i) ==
  /\ Runs /\ core[c] = "reset"
  /\ IF c = 1 THEN i = isoCurrent[1] ELSE i \in ReadyTasks
  /\ i # NoTask
  /\ isoTask' = [isoTask EXCEPT ![i].state = "running"]
  /\ isoCurrent' = [isoCurrent EXCEPT ![c] = i]
  /\ core' = [core EXCEPT ![c] = "thread"]
  /\ Activates(c, i, isoTask[i].memory)
  /\ UNCHANGED <<poolUsed, owners, evidence, isoSpawns>>

(* PendSV: the stack pointer, which an isolated task controls, is checked  *)
(* against the active domain; then the switch.                             *)
PendSV(c, psp, next) ==
  LET cur == isoCurrent[c]
      a == active[ActiveSlot(c)]
      saved == [isoTask EXCEPT ![cur].sp = psp,
                               ![cur].state = IF @ = "running" THEN "ready" ELSE @]
  IN  /\ Runs /\ core[c] = "thread"
      /\ unpriv[c] \/ psp = isoTask[cur].sp
      /\ \/ /\ ~validate_psp(a.memory, psp)
            /\ evidence' = Panic
            /\ UNCHANGED <<isoTask, isoCurrent, active, bank, unpriv>>
         \/ /\ validate_psp(a.memory, psp)
            /\ next \in ReadyTasks /\ next # cur
            /\ isoTask' = [saved EXCEPT ![next].state = "running"]
            /\ isoCurrent' = [isoCurrent EXCEPT ![c] = next]
            /\ Activates(c, next, isoTask[next].memory)
            /\ UNCHANGED evidence
      /\ UNCHANGED <<poolUsed, core, owners, isoSpawns>>

(* user_svc 1, or a return from the entry function: suspended until        *)
(* somebody switches away.  The calls 0 and 2 to 6 change nothing here.    *)
UserSuspend(c) ==
  /\ Runs /\ core[c] = "thread" /\ unpriv[c] /\ isoTask[isoCurrent[c]].state = "running"
  /\ isoTask' = [isoTask EXCEPT ![isoCurrent[c]].state = "suspended"]
  /\ UNCHANGED <<poolUsed, isoCurrent, active, bank, unpriv, core, owners, evidence, isoSpawns>>

(* An access that the bank denies is a fault; the evidence names the       *)
(* active domain's task, and the system stops.                             *)
UserFaults(c) ==
  /\ Runs /\ core[c] = "thread" /\ unpriv[c] /\ bank[c] # Extent(0, POOL_UNITS)
  /\ evidence' = IF active[ActiveSlot(c)].memory = NoMemory THEN Panic
                 ELSE [core |-> c, id |-> active[ActiveSlot(c)].id]
  /\ UNCHANGED <<poolUsed, isoTask, isoCurrent, active, bank, unpriv, core, owners, isoSpawns>>

IsoNext ==
  \/ \E c \in IsoCores :
       \/ InitCore(c)
       \/ \E s \in SizesTried : SpawnTrusted(c, s) \/ \E d \in DataTried : SpawnIsolated(c, s, d)
       \/ \E i \in IsoIds : ReapTask(c, i) \/ FirstStack(c, i)
       \/ \E psp \in {isoTask[i].sp : i \in {j \in IsoIds : isoTask[j] # NoTask}}, i \in IsoIds : PendSV(c, psp, i)
       \/ UserSuspend(c) \/ UserFaults(c)
  \/ \E i \in IsoIds : CoreOneJoins(i)

IsoSpec == IsoInit /\ [][IsoNext]_isoVars

----------------------------------------------------------------------------
(* "Data and stacks live until reboot (no reuse or aliases)" and "Every    *)
(* change of user domain still replaces the entire bank": whatever runs    *)
(* unprivileged on a core reaches its own usable stack and data, the whole *)
(* of them, and nothing that any other task, alive or deleted, was ever    *)
(* given; what is trusted runs privileged; the stack a task is resumed on  *)
(* is its own; and a fault is put down to the task that ran.               *)
MineAt(i, base) == \E o \in owners : o.id = i /\ o.base = base /\ o.size > 0
IsolationKept ==
  /\ \A c \in IsoCores : core[c] = "thread" =>
       LET i == isoCurrent[c]
           m == isoTask[i].memory
       IN  /\ unpriv[c] <=> m # NoMemory
           /\ m # NoMemory =>
                /\ bank[c] = image(m)
                /\ MineAt(i, m.stack.base)
                /\ \A o \in owners : Extent(o.base, o.size) \cap bank[c] # {} =>
                                       o.id = i /\ o.base \in {m.stack.base, m.data.base}
  /\ \A i \in IsoIds : isoTask[i] # NoTask /\ isoTask[i].memory # NoMemory =>
                          isoTask[i].sp \in Usable(isoTask[i].memory)
  /\ evidence \notin {NoTask, Panic} => evidence.id = isoCurrent[evidence.core]
=============================================================================
