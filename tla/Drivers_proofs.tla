-------------------------- MODULE Drivers_proofs --------------------------
(***************************************************************************)
(* Proofs about isolated tasks, runtime-created objects and the buses.     *)
(* For any pool, sizes, tasks and cores: who runs unprivileged reaches its *)
(* own memory and nothing else.  For any tasks, objects, capacities and    *)
(* lists: no object loses a wake-up or miscounts.  For any hosts,          *)
(* controllers and transfers: a transfer that reports success moved its    *)
(* bytes.                                                                  *)
(***************************************************************************)
EXTENDS Isolation, DynObj, I2c, Integers, SequenceTheorems, FiniteSetTheorems, WellFoundedInduction, TLAPS

(***************************************************************************)
(* Isolated tasks.                                                         *)
(***************************************************************************)

Owners == [spawn : Nat, id : IsoIds, base : Nat, size : Nat]

(* The full types.                                                         *)
TypesOfIso ==
  /\ poolUsed \in Nat /\ poolUsed <= POOL_UNITS /\ isoSpawns \in Nat
  /\ isoTask \in [IsoIds -> TaskRecords \cup {NoTask}]
  /\ isoCurrent \in [IsoCores -> IsoIds \cup {NoTask}]
  /\ active \in [IsoCores -> [id : IsoIds \cup {NoTask}, memory : Memories \cup {NoMemory}]]
  /\ unpriv \in [IsoCores -> BOOLEAN]
  /\ core \in [IsoCores -> {"off", "reset", "thread"}]
  /\ owners \subseteq Owners
  /\ DOMAIN bank = IsoCores

(* What was handed out lies below the cursor, and apart.                   *)
OwnersApart ==
  /\ \A o \in owners : o.size > 0 => o.base + o.size <= poolUsed
  /\ \A o, p \in owners : o # p /\ o.size > 0 /\ p.size > 0 =>
       o.base + o.size <= p.base \/ p.base + p.size <= o.base

(* An isolated task was given its stack and its data, and its saved stack  *)
(* pointer is in the usable part of the stack.                             *)
Owned(i, r) == \E o \in owners : o.id = i /\ o.base = r.base /\ o.size = r.size
TaskOwns(i, m) == m.stack.size > 0 /\ Owned(i, m.stack) /\ Owned(i, m.data)
TasksOwn ==
  \A i \in IsoIds : isoTask[i] # NoTask /\ isoTask[i].memory # NoMemory =>
    TaskOwns(i, isoTask[i].memory) /\ isoTask[i].sp \in Usable(isoTask[i].memory)

(* The active domain is the current task's, and the bank and the privilege *)
(* are the active domain's, though the bank is written only on a change.   *)
CurrentIsActive ==
  \A c \in IsoCores :
    /\ isoCurrent[c] # NoTask => isoTask[isoCurrent[c]] # NoTask
    /\ core[c] # "thread" => active[c].memory = NoMemory
    /\ core[c] = "thread" => /\ isoCurrent[c] # NoTask /\ active[c].id = isoCurrent[c]
                             /\ active[c].memory = isoTask[isoCurrent[c]].memory
ActiveIsInForce ==
  \A c \in IsoCores : bank[c] = image(active[c].memory) /\ (unpriv[c] <=> active[c].memory # NoMemory)

(* The evidence names the current task of its core.                        *)
EvidenceNamesIt ==
  evidence \notin {NoTask, Panic} => evidence.id = isoCurrent[evidence.core]

IsoInv == TypesOfIso /\ OwnersApart /\ TasksOwn /\ CurrentIsActive /\ ActiveIsInForce /\ EvidenceNamesIt

(***************************************************************************)
(* Memory.                                                                 *)
(***************************************************************************)

LEMMA IsoConstants ==
  /\ POOL_UNITS \in Nat /\ MIN_STACK \in Nat /\ MAX_STACK \in Nat /\ MIN_STACK > 0
  /\ MIN_DATA \in Nat /\ MAX_DATA \in Nat
  /\ 0 \in IsoCores /\ 1 \in IsoCores /\ IsoIds \subseteq Nat /\ NoTask \notin IsoIds
  /\ NoTask \notin TaskRecords /\ NoMemory \notin Memories
  /\ SizesTried \subseteq Nat /\ DataTried \subseteq Nat
  BY IsolationAssumption

LEMMA AlignUpForm ==
  ASSUME NEW x \in Nat, NEW n \in Nat, n > 0
  PROVE  AlignUp(x, n) \in Nat /\ x <= AlignUp(x, n)
<1> DEFINE q == (x + n - 1) \div n
<1>1. q \in Int /\ n * q <= x + n - 1 /\ x + n - 1 < n * q + n
  OBVIOUS
<1> HIDE DEF q
<1>2. AlignUp(x, n) = q * n
  BY DEF AlignUp, q
<1>3. q * n = n * q /\ n * q \in Int
  BY <1>1
<1> QED
  BY <1>1, <1>2, <1>3

(* reserve takes two regions above the cursor that do not meet, within the *)
(* pool.                                                                   *)
LEMMA ReserveForm ==
  ASSUME NEW cursor \in Nat, NEW end \in Nat, NEW stack \in Nat, NEW data \in Nat,
         NEW m, m = reserve(cursor, end, stack, data), m # NoMemory
  PROVE  /\ m.stack \in Regions /\ m.data \in Regions /\ m.next \in Nat
         /\ cursor <= m.stack.base /\ m.stack.size > 0
         /\ m.stack.base + m.stack.size <= m.next
         /\ m.data.size > 0 => /\ m.stack.base + m.stack.size <= m.data.base
                               /\ m.data.base + m.data.size <= m.next
         /\ m.next <= end
<1> DEFINE sb == AlignUp(cursor, stack)
           db == AlignUp(sb + stack, data)
           next == IF data = 0 THEN sb + stack ELSE db + data
<1>1. /\ stack \in MIN_STACK .. MAX_STACK /\ next <= end
      /\ m = [stack |-> [base |-> sb, size |-> stack],
              data |-> [base |-> IF data = 0 THEN 0 ELSE db, size |-> data], next |-> next]
  BY DEF reserve
<1>2. stack > 0
  BY <1>1, IsoConstants
<1>3. sb \in Nat /\ cursor <= sb
  BY <1>2, AlignUpForm
<1> HIDE DEF sb
<1>4. data # 0 => db \in Nat /\ sb + stack <= db
  <2>1. sb + stack \in Nat /\ (data # 0 => data > 0)
    BY <1>3
  <2> QED
    BY <2>1, AlignUpForm
<1> HIDE DEF db
<1>5. /\ m.stack = [base |-> sb, size |-> stack] /\ m.next = next
      /\ m.data = [base |-> IF data = 0 THEN 0 ELSE db, size |-> data]
  BY <1>1
<1>6. next \in Nat /\ sb + stack <= next /\ (data # 0 => db + data <= next)
  BY <1>3, <1>4
<1> HIDE DEF next
<1>7. m.data.base = (IF data = 0 THEN 0 ELSE db) /\ m.data.size = data
  BY <1>5
<1>8. m.stack \in Regions /\ m.data \in Regions
  BY <1>3, <1>4, <1>5 DEF Regions
<1> QED
  BY <1>1, <1>2, <1>3, <1>4, <1>5, <1>6, <1>7, <1>8

(* The top of a stack is usable.                                           *)
LEMMA TopIsUsable ==
  ASSUME NEW m \in Memories, m.stack.size > 0
  PROVE  m.stack.base + m.stack.size - 1 \in Usable(m) /\ m.stack.base + m.stack.size - 1 \in Nat
<1>1. m.stack.base \in Nat /\ m.stack.size \in Nat
  BY DEF Memories, Regions
<1> QED
  BY <1>1 DEF Usable, Extent

LEMMA UsableInStack ==
  ASSUME NEW m \in Memories
  PROVE  Usable(m) \subseteq Extent(m.stack.base, m.stack.size)
<1>1. m.stack.base \in Nat /\ m.stack.size \in Nat
  BY DEF Memories, Regions
<1> QED
  BY <1>1 DEF Usable, Extent

(* A free id is there to be taken when there is one.                       *)
LEMMA FirstFreeForm == FreeIds # {} => FirstFree \in FreeIds
<1> SUFFICES ASSUME FreeIds # {} PROVE FirstFree \in FreeIds
  OBVIOUS
<1> DEFINE R == {ss \in Nat \X Nat : ss[1] < ss[2]}
<1>1. IsWellFoundedOn(R, Nat)
  BY NatLessThanWellFounded DEF OpToRel
<1>2. FreeIds \in SUBSET Nat
  BY IsoConstants DEF FreeIds
<1> HIDE DEF R
<1>3. PICK k \in FreeIds : \A j \in FreeIds : <<j, k>> \notin R
  BY <1>1, <1>2, WFMin, Zenon
<1>4. \A j \in FreeIds : ~(j < k)
  BY <1>2, <1>3, Zenon DEF R
<1>5. \A j \in FreeIds : k <= j
  BY <1>2, <1>4
<1> QED
  BY <1>5 DEF FirstFree

(***************************************************************************)
(* The invariant.                                                          *)
(***************************************************************************)

LEMMA InitIsoInv == IsoInit => IsoInv
<1> SUFFICES ASSUME IsoInit PROVE IsoInv
  OBVIOUS
<1>1. TypesOfIso
  BY IsoConstants DEF IsoInit, TypesOfIso
<1>2. OwnersApart /\ TasksOwn /\ EvidenceNamesIt
  BY DEF IsoInit, OwnersApart, TasksOwn, EvidenceNamesIt
<1>3. CurrentIsActive /\ ActiveIsInForce
  BY DEF IsoInit, CurrentIsActive, ActiveIsInForce, image
<1> QED
  BY <1>1, <1>2, <1>3 DEF IsoInv

LEMMA InitCorePreserves ==
  ASSUME IsoInv, NEW c \in IsoCores, InitCore(c) PROVE IsoInv'
<1>1. /\ core[c] = "off" /\ core' = [core EXCEPT ![c] = "reset"]
      /\ bank' = [bank EXCEPT ![c] = {}]
      /\ UNCHANGED <<poolUsed, isoTask, isoCurrent, active, unpriv, owners, evidence, isoSpawns>>
  BY DEF InitCore
<1>2. TypesOfIso'
  BY <1>1 DEF IsoInv, TypesOfIso
<1>3. OwnersApart' /\ TasksOwn' /\ EvidenceNamesIt'
  BY <1>1 DEF IsoInv, OwnersApart, TasksOwn, TaskOwns, Owned, EvidenceNamesIt
<1>4. CurrentIsActive'
  BY <1>1 DEF IsoInv, TypesOfIso, CurrentIsActive
<1>5. ActiveIsInForce'
  BY <1>1 DEF IsoInv, TypesOfIso, CurrentIsActive, ActiveIsInForce, image
<1> QED
  BY <1>2, <1>3, <1>4, <1>5 DEF IsoInv

(* A spawn fills a free slot, and hands out memory above the cursor.       *)
Spawns(i, rec, next, new) ==
  /\ FreeIds # {} /\ i = FirstFree /\ rec \in TaskRecords
  /\ next \in Nat /\ poolUsed <= next /\ next <= POOL_UNITS /\ new \subseteq Owners
  /\ \A o \in new : o.size > 0 => poolUsed <= o.base /\ o.base + o.size <= next
  /\ \A o, p \in new : o # p /\ o.size > 0 /\ p.size > 0 =>
       o.base + o.size <= p.base \/ p.base + p.size <= o.base
  /\ rec.memory # NoMemory =>
       /\ rec.memory.stack.size > 0 /\ rec.sp \in Usable(rec.memory)
       /\ \A r \in {rec.memory.stack, rec.memory.data} :
            \E o \in new : o.id = i /\ o.base = r.base /\ o.size = r.size
  /\ isoTask' = [isoTask EXCEPT ![i] = rec] /\ poolUsed' = next /\ owners' = owners \cup new
  /\ isoSpawns' = isoSpawns + 1 /\ UNCHANGED <<isoCurrent, active, bank, unpriv, core, evidence>>

LEMMA SpawnPreserves ==
  ASSUME IsoInv, NEW i, NEW rec, NEW next, NEW new, Spawns(i, rec, next, new) PROVE IsoInv'
<1> USE DEF Spawns
<1>1. i \in IsoIds /\ isoTask[i] = NoTask
  BY FirstFreeForm DEF FreeIds
<1>2. /\ isoTask'[i] = rec /\ rec # NoTask
      /\ \A j \in IsoIds : j # i => isoTask'[j] = isoTask[j]
  BY <1>1, IsoConstants DEF IsoInv, TypesOfIso
<1>3. TypesOfIso'
  BY <1>1 DEF IsoInv, TypesOfIso
<1>4. OwnersApart'
  <2>1. \A o \in owners' : o.base \in Nat /\ o.size \in Nat
    BY <1>3 DEF TypesOfIso, Owners
  <2>2. poolUsed \in Nat
    BY DEF IsoInv, TypesOfIso
  <2>3. \A o \in owners : o.size > 0 => o.base + o.size <= poolUsed
    BY DEF IsoInv, OwnersApart
  <2>4. \A o \in owners' : o.size > 0 => o.base + o.size <= next
    BY <2>1, <2>2, <2>3
  <2>5. ASSUME NEW o \in owners', NEW p \in owners', o # p, o.size > 0, p.size > 0
        PROVE  o.base + o.size <= p.base \/ p.base + p.size <= o.base
    <3>1. CASE o \in owners /\ p \in owners
      BY <2>5, <3>1 DEF IsoInv, OwnersApart
    <3>2. CASE o \in new /\ p \in new
      BY <2>5, <3>2
    <3>3. CASE o \in owners /\ p \in new
      BY <2>1, <2>2, <2>3, <2>5, <3>3
    <3>4. CASE o \in new /\ p \in owners
      BY <2>1, <2>2, <2>3, <2>5, <3>4
    <3> QED
      BY <3>1, <3>2, <3>3, <3>4
  <2> QED
    BY <2>4, <2>5 DEF OwnersApart
<1>5. TasksOwn'
  <2>1. ASSUME NEW j \in IsoIds, isoTask'[j] # NoTask, NEW m, m = isoTask'[j].memory, m # NoMemory
        PROVE  TaskOwns(j, m)' /\ isoTask'[j].sp \in Usable(m)
    <3>1. CASE j = i
      BY <1>2, <2>1, <3>1 DEF TaskOwns, Owned
    <3>2. CASE j # i
      BY <1>2, <2>1, <3>2 DEF IsoInv, TasksOwn, TaskOwns, Owned
    <3> QED
      BY <3>1, <3>2
  <2> QED
    BY <2>1 DEF TasksOwn, TaskOwns, Owned
<1>6. CurrentIsActive'
  BY <1>1, <1>2, IsoConstants DEF IsoInv, TypesOfIso, CurrentIsActive
<1>7. ActiveIsInForce' /\ EvidenceNamesIt'
  BY DEF IsoInv, ActiveIsInForce, EvidenceNamesIt
<1> QED
  BY <1>3, <1>4, <1>5, <1>6, <1>7 DEF IsoInv

LEMMA SpawnIsolatedPreserves ==
  ASSUME IsoInv, NEW c \in IsoCores, NEW stack \in SizesTried, NEW data \in DataTried,
         SpawnIsolated(c, stack, data)
  PROVE  IsoInv'
<1>1. PICK m : m = reserve(poolUsed, POOL_UNITS, stack, data)
  OBVIOUS
<1> DEFINE mem == [stack |-> m.stack, data |-> m.data]
           rec == NewTask(mem, m.stack.base + m.stack.size - 1)
           i == FirstFree
           of(r) == [spawn |-> isoSpawns, id |-> i, base |-> r.base, size |-> r.size]
           new == {of(r) : r \in {m.stack, m.data}}
<1>2. /\ evidence = NoTask /\ FreeIds # {} /\ m # NoMemory /\ poolUsed' = m.next
      /\ isoTask' = [isoTask EXCEPT ![i] = rec] /\ owners' = owners \cup new
      /\ isoSpawns' = isoSpawns + 1 /\ UNCHANGED <<isoCurrent, active, bank, unpriv, core, evidence>>
  BY <1>1 DEF SpawnIsolated, Runs
<1>3. poolUsed \in Nat /\ POOL_UNITS \in Nat /\ stack \in Nat /\ data \in Nat /\ isoSpawns \in Nat
  BY IsoConstants DEF IsoInv, TypesOfIso
<1>4. /\ m.stack \in Regions /\ m.data \in Regions /\ m.next \in Nat
      /\ poolUsed <= m.stack.base /\ m.stack.size > 0
      /\ m.stack.base + m.stack.size <= m.next
      /\ m.data.size > 0 => /\ m.stack.base + m.stack.size <= m.data.base
                            /\ m.data.base + m.data.size <= m.next
      /\ m.next <= POOL_UNITS
  BY <1>1, <1>2, <1>3, ReserveForm
<1>5. /\ m.stack.base \in Nat /\ m.stack.size \in Nat /\ m.data.base \in Nat /\ m.data.size \in Nat
  BY <1>4 DEF Regions
<1>6. mem \in Memories /\ mem.stack = m.stack /\ mem.data = m.data
  BY <1>4 DEF Memories
<1> HIDE DEF mem
<1>7. /\ m.stack.base + m.stack.size - 1 \in Usable(mem)
      /\ m.stack.base + m.stack.size - 1 \in Nat
  BY <1>4, <1>6, TopIsUsable
<1>8. rec \in TaskRecords /\ rec.memory = mem /\ rec.sp \in Usable(mem)
  BY <1>6, <1>7 DEF NewTask, TaskRecords
<1> HIDE DEF rec
<1>9. i \in IsoIds
  BY <1>2, FirstFreeForm DEF FreeIds
<1> HIDE DEF i
<1>10. \A r \in {m.stack, m.data} : of(r) \in Owners /\ of(r).id = i /\ of(r).base = r.base /\ of(r).size = r.size
  BY <1>3, <1>5, <1>9 DEF Owners
<1> HIDE DEF of
<1>11. new \subseteq Owners
  BY <1>10
<1>12. \A o \in new : o.size > 0 => poolUsed <= o.base /\ o.base + o.size <= m.next
  BY <1>3, <1>4, <1>5, <1>10
<1>13. \A o, p \in new : o # p /\ o.size > 0 /\ p.size > 0 =>
         o.base + o.size <= p.base \/ p.base + p.size <= o.base
  BY <1>4, <1>5, <1>10
<1>14. \A r \in {mem.stack, mem.data} : \E o \in new : o.id = i /\ o.base = r.base /\ o.size = r.size
  BY <1>6, <1>10
<1>15. poolUsed <= m.next
  BY <1>3, <1>4, <1>5
<1> HIDE DEF new
<1>16. /\ rec.memory.stack.size > 0 /\ rec.sp \in Usable(rec.memory)
       /\ \A r \in {rec.memory.stack, rec.memory.data} :
            \E o \in new : o.id = i /\ o.base = r.base /\ o.size = r.size
  BY <1>4, <1>6, <1>8, <1>14
<1>17. i = FirstFree
  BY DEF i
<1>18. Spawns(i, rec, m.next, new)
  BY <1>2, <1>4, <1>8, <1>11, <1>12, <1>13, <1>15, <1>16, <1>17 DEF Spawns
<1> QED
  BY <1>18, SpawnPreserves

LEMMA SpawnTrustedPreserves ==
  ASSUME IsoInv, NEW c \in IsoCores, NEW size \in SizesTried, SpawnTrusted(c, size) PROVE IsoInv'
<1> DEFINE rec == NewTask(NoMemory, poolUsed + size - 1)
           i == FirstFree
           o == [spawn |-> isoSpawns, id |-> i, base |-> poolUsed, size |-> size]
           new == {o}
<1>1. /\ evidence = NoTask /\ FreeIds # {} /\ size >= MIN_STACK /\ poolUsed + size <= POOL_UNITS
      /\ poolUsed' = poolUsed + size /\ isoTask' = [isoTask EXCEPT ![i] = rec]
      /\ owners' = owners \cup new
      /\ isoSpawns' = isoSpawns + 1 /\ UNCHANGED <<isoCurrent, active, bank, unpriv, core, evidence>>
  BY DEF SpawnTrusted, Runs
<1>2. poolUsed \in Nat /\ size \in Nat /\ size > 0 /\ isoSpawns \in Nat /\ i \in IsoIds
  BY <1>1, IsoConstants, FirstFreeForm DEF IsoInv, TypesOfIso, FreeIds
<1>3. rec \in TaskRecords /\ rec.memory = NoMemory
  BY <1>2 DEF NewTask, TaskRecords
<1> HIDE DEF rec
<1>4. o \in Owners /\ o.base = poolUsed /\ o.size = size
  BY <1>2 DEF Owners
<1> HIDE DEF o
<1>5. new \subseteq Owners /\ poolUsed + size \in Nat /\ poolUsed <= poolUsed + size
  BY <1>2, <1>4
<1>6. /\ \A p \in new : p.size > 0 => poolUsed <= p.base /\ p.base + p.size <= poolUsed + size
      /\ \A p, q \in new : p # q /\ p.size > 0 /\ q.size > 0 =>
           p.base + p.size <= q.base \/ q.base + q.size <= p.base
  BY <1>2, <1>4
<1> HIDE DEF new
<1>7. Spawns(i, rec, poolUsed + size, new)
  BY <1>1, <1>3, <1>5, <1>6 DEF Spawns
<1> QED
  BY <1>7, SpawnPreserves

LEMMA ReapPreserves ==
  ASSUME IsoInv, NEW c \in IsoCores, NEW i \in IsoIds, ReapTask(c, i) PROVE IsoInv'
<1>1. /\ \A d \in IsoCores : isoCurrent[d] # i
      /\ isoTask' = [isoTask EXCEPT ![i] = NoTask]
      /\ UNCHANGED <<poolUsed, isoCurrent, active, bank, unpriv, core, owners, evidence, isoSpawns>>
  BY DEF ReapTask
<1>2. isoTask'[i] = NoTask /\ \A j \in IsoIds : j # i => isoTask'[j] = isoTask[j]
  BY <1>1 DEF IsoInv, TypesOfIso
<1>3. TypesOfIso'
  BY <1>1 DEF IsoInv, TypesOfIso
<1>4. OwnersApart' /\ ActiveIsInForce' /\ EvidenceNamesIt'
  BY <1>1 DEF IsoInv, OwnersApart, ActiveIsInForce, EvidenceNamesIt
<1>5. TasksOwn'
  BY <1>1, <1>2 DEF IsoInv, TasksOwn, TaskOwns, Owned
<1>6. CurrentIsActive'
  BY <1>1, <1>2, IsoConstants DEF IsoInv, TypesOfIso, CurrentIsActive
<1> QED
  BY <1>3, <1>4, <1>5, <1>6 DEF IsoInv

(* Tasks whose state and stack pointer change, with their memory kept.     *)
SameMemory ==
  \A j \in IsoIds : /\ isoTask'[j] = NoTask <=> isoTask[j] = NoTask
                    /\ isoTask[j] # NoTask => isoTask'[j].memory = isoTask[j].memory
                    /\ isoTask[j] # NoTask /\ isoTask[j].memory # NoMemory =>
                         isoTask'[j].sp \in Usable(isoTask[j].memory)

LEMMA TasksKeep ==
  ASSUME IsoInv, SameMemory, UNCHANGED owners PROVE TasksOwn'
  BY DEF SameMemory, IsoInv, TasksOwn, TaskOwns, Owned

(* A state that changes keeps the rest of the task.                        *)
LEMMA StateChanges ==
  ASSUME IsoInv, NEW i \in IsoIds, isoTask[i] # NoTask, NEW st \in {"ready", "running", "suspended"},
         isoTask' = [isoTask EXCEPT ![i].state = st]
  PROVE  SameMemory /\ isoTask' \in [IsoIds -> TaskRecords \cup {NoTask}]
<1>1. isoTask[i] \in TaskRecords
  BY DEF IsoInv, TypesOfIso
<1>2. [isoTask[i] EXCEPT !.state = st] \in TaskRecords
  BY <1>1 DEF TaskRecords
<1>3. /\ [isoTask[i] EXCEPT !.state = st].memory = isoTask[i].memory
      /\ [isoTask[i] EXCEPT !.state = st].sp = isoTask[i].sp
  BY <1>1 DEF TaskRecords
<1>4. /\ isoTask'[i] = [isoTask[i] EXCEPT !.state = st]
      /\ \A j \in IsoIds : j # i => isoTask'[j] = isoTask[j]
      /\ isoTask' \in [IsoIds -> TaskRecords \cup {NoTask}]
  BY <1>2 DEF IsoInv, TypesOfIso
<1>5. [isoTask[i] EXCEPT !.state = st] # NoTask
  BY <1>2, IsoConstants
<1> QED
  BY <1>3, <1>4, <1>5 DEF SameMemory, IsoInv, TasksOwn

LEMMA JoinPreserves ==
  ASSUME IsoInv, NEW i \in IsoIds, CoreOneJoins(i) PROVE IsoInv'
<1>1. /\ core[1] = "reset" /\ i \in ReadyTasks /\ evidence = NoTask
      /\ isoTask' = [isoTask EXCEPT ![i].state = "running"]
      /\ isoCurrent' = [isoCurrent EXCEPT ![1] = i]
      /\ UNCHANGED <<poolUsed, active, bank, unpriv, core, owners, evidence, isoSpawns>>
  BY DEF CoreOneJoins, Runs
<1>2. isoTask[i] # NoTask
  BY <1>1 DEF ReadyTasks
<1>3. SameMemory /\ isoTask' \in [IsoIds -> TaskRecords \cup {NoTask}]
  BY <1>1, <1>2, StateChanges
<1>4. TypesOfIso'
  BY <1>1, <1>3 DEF IsoInv, TypesOfIso
<1>5. OwnersApart' /\ ActiveIsInForce' /\ EvidenceNamesIt'
  BY <1>1 DEF IsoInv, OwnersApart, ActiveIsInForce, EvidenceNamesIt
<1>6. TasksOwn'
  BY <1>1, <1>3, TasksKeep
<1>7. CurrentIsActive'
  BY <1>1, <1>2, <1>3, IsoConstants DEF IsoInv, TypesOfIso, CurrentIsActive, SameMemory
<1> QED
  BY <1>4, <1>5, <1>6, <1>7 DEF IsoInv

(* A switch of core c to task i: the bank is rewritten unless the grant is *)
(* the one in force.                                                       *)
LEMMA SwitchPreserves ==
  ASSUME IsoInv, NEW c \in IsoCores, NEW i \in IsoIds, isoTask[i] # NoTask, evidence = NoTask,
         SameMemory, isoTask' \in [IsoIds -> TaskRecords \cup {NoTask}],
         isoCurrent' = [isoCurrent EXCEPT ![c] = i],
         core' = [core EXCEPT ![c] = "thread"], Activates(c, i, isoTask[i].memory),
         UNCHANGED <<poolUsed, owners, evidence, isoSpawns>>
  PROVE  IsoInv'
<1>1. PICK m \in Memories \cup {NoMemory} : m = isoTask[i].memory
  BY DEF IsoInv, TypesOfIso, TaskRecords
<1>2. /\ active' = [active EXCEPT ![c] = [id |-> i, memory |-> m]]
      /\ bank' = IF active[c].memory # m THEN [bank EXCEPT ![c] = image(m)] ELSE bank
      /\ unpriv' = [unpriv EXCEPT ![c] = m # NoMemory]
  BY <1>1 DEF Activates, ActiveSlot
<1>3. /\ active'[c] = [id |-> i, memory |-> m] /\ \A d \in IsoCores : d # c => active'[d] = active[d]
      /\ isoCurrent'[c] = i /\ \A d \in IsoCores : d # c => isoCurrent'[d] = isoCurrent[d]
      /\ core'[c] = "thread" /\ \A d \in IsoCores : d # c => core'[d] = core[d]
  BY <1>2 DEF IsoInv, TypesOfIso
<1>4. (unpriv'[c] <=> m # NoMemory) /\ \A d \in IsoCores : d # c => unpriv'[d] = unpriv[d]
  BY <1>2 DEF IsoInv, TypesOfIso
<1>5. /\ bank'[c] = image(m) /\ \A d \in IsoCores : d # c => bank'[d] = bank[d]
      /\ DOMAIN bank' = IsoCores
  BY <1>2 DEF IsoInv, TypesOfIso, ActiveIsInForce
<1>6. TypesOfIso'
  <2>1. active' \in [IsoCores -> [id : IsoIds \cup {NoTask}, memory : Memories \cup {NoMemory}]]
    BY <1>2 DEF IsoInv, TypesOfIso
  <2>2. unpriv' \in [IsoCores -> BOOLEAN]
    <3>1. (m # NoMemory) \in BOOLEAN
      OBVIOUS
    <3> QED
      BY <1>2, <3>1, Zenon DEF IsoInv, TypesOfIso
  <2> QED
    BY <1>5, <2>1, <2>2 DEF IsoInv, TypesOfIso
<1>7. OwnersApart' /\ EvidenceNamesIt'
  BY DEF IsoInv, OwnersApart, EvidenceNamesIt
<1>8. TasksOwn'
  BY TasksKeep
<1>9. CurrentIsActive'
  <2> SUFFICES ASSUME NEW d \in IsoCores
               PROVE  /\ isoCurrent'[d] # NoTask => isoTask'[isoCurrent'[d]] # NoTask
                      /\ core'[d] # "thread" => active'[d].memory = NoMemory
                      /\ core'[d] = "thread" =>
                           /\ isoCurrent'[d] # NoTask /\ active'[d].id = isoCurrent'[d]
                           /\ active'[d].memory = isoTask'[isoCurrent'[d]].memory
    BY DEF CurrentIsActive
  <2>1. CASE d = c
    BY <1>1, <1>3, <2>1, IsoConstants DEF SameMemory
  <2>2. CASE d # c
    BY <1>3, <2>2 DEF SameMemory, IsoInv, TypesOfIso, CurrentIsActive
  <2> QED
    BY <2>1, <2>2
<1>10. ActiveIsInForce'
  <2>1. active'[c].memory = m
    BY <1>3
  <2> QED
    BY <1>3, <1>4, <1>5, <2>1 DEF IsoInv, ActiveIsInForce
<1> QED
  BY <1>6, <1>7, <1>8, <1>9, <1>10 DEF IsoInv

(* first_stack: the first task of a core.                                  *)
LEMMA FirstStackPreserves ==
  ASSUME IsoInv, NEW c \in IsoCores, NEW i \in IsoIds, FirstStack(c, i) PROVE IsoInv'
<1>1. /\ isoTask' = [isoTask EXCEPT ![i].state = "running"] /\ evidence = NoTask
      /\ isoCurrent' = [isoCurrent EXCEPT ![c] = i] /\ core' = [core EXCEPT ![c] = "thread"]
      /\ Activates(c, i, isoTask[i].memory) /\ UNCHANGED <<poolUsed, owners, evidence, isoSpawns>>
  BY DEF FirstStack, Runs
<1>2. isoTask[i] # NoTask
  BY IsoConstants DEF FirstStack, ReadyTasks, IsoInv, CurrentIsActive
<1>3. SameMemory /\ isoTask' \in [IsoIds -> TaskRecords \cup {NoTask}]
  BY <1>1, <1>2, StateChanges
<1> QED
  BY <1>1, <1>2, <1>3, SwitchPreserves

(* PendSV: the stack pointer an isolated task leaves behind was checked.   *)
LEMMA PendSVPreserves ==
  ASSUME IsoInv, NEW c \in IsoCores, NEW psp \in Nat, NEW next \in IsoIds, PendSV(c, psp, next)
  PROVE  IsoInv'
<1>1. core[c] = "thread" /\ evidence = NoTask /\ UNCHANGED <<poolUsed, core, owners, isoSpawns>>
  BY DEF PendSV, Runs
<1>2. CASE evidence' = Panic /\ UNCHANGED <<isoTask, isoCurrent, active, bank, unpriv>>
  BY <1>1, <1>2 DEF IsoInv, TypesOfIso, OwnersApart, TasksOwn, TaskOwns, Owned, CurrentIsActive,
                    ActiveIsInForce, EvidenceNamesIt
<1>3. CASE /\ validate_psp(active[c].memory, psp) /\ next \in ReadyTasks /\ next # isoCurrent[c]
           /\ isoTask' = [[isoTask EXCEPT ![isoCurrent[c]].sp = psp,
                             ![isoCurrent[c]].state = IF @ = "running" THEN "ready" ELSE @]
                           EXCEPT ![next].state = "running"]
           /\ isoCurrent' = [isoCurrent EXCEPT ![c] = next]
           /\ Activates(c, next, isoTask[next].memory) /\ UNCHANGED evidence
  <2>1. PICK cur \in IsoIds : cur = isoCurrent[c] /\ isoTask[cur] # NoTask
                             /\ active[c].memory = isoTask[cur].memory
    BY <1>1 DEF IsoInv, TypesOfIso, CurrentIsActive
  <2>2. isoTask[cur] \in TaskRecords /\ isoTask[next] \in TaskRecords /\ next # cur
    BY <1>3, <2>1 DEF IsoInv, TypesOfIso, ReadyTasks
  <2>3. PICK old : old = [isoTask[cur] EXCEPT !.sp = psp,
                            !.state = IF @ = "running" THEN "ready" ELSE @]
    OBVIOUS
  <2>4. old \in TaskRecords /\ old.memory = isoTask[cur].memory /\ old.sp = psp
    BY <2>2, <2>3 DEF TaskRecords
  <2>5. PICK run : run = [isoTask[next] EXCEPT !.state = "running"]
    OBVIOUS
  <2>6. run \in TaskRecords /\ run.memory = isoTask[next].memory /\ run.sp = isoTask[next].sp
    BY <2>2, <2>5 DEF TaskRecords
  <2>7. /\ isoTask'[cur] = old /\ isoTask'[next] = run
        /\ \A j \in IsoIds : j # cur /\ j # next => isoTask'[j] = isoTask[j]
        /\ DOMAIN isoTask' = IsoIds
    BY <1>3, <2>1, <2>2, <2>3, <2>5 DEF IsoInv, TypesOfIso
  <2>8. isoTask' \in [IsoIds -> TaskRecords \cup {NoTask}]
    <3>1. \A j \in IsoIds : isoTask'[j] \in TaskRecords \cup {NoTask}
      BY <2>4, <2>6, <2>7 DEF IsoInv, TypesOfIso
    <3>2. isoTask' = [j \in IsoIds |-> isoTask'[j]]
      BY ZenonT(60), <1>3, <2>7 DEF IsoInv, TypesOfIso
    <3> QED
      BY <3>1, <3>2
  <2>9. isoTask[cur].memory # NoMemory => psp \in Usable(isoTask[cur].memory)
    BY <1>3, <2>1 DEF validate_psp, exception_frame
  <2>10. old # NoTask /\ run # NoTask /\ isoTask[next] # NoTask
    BY <2>2, <2>4, <2>6, IsoConstants
  <2>11. SameMemory
    BY <2>1, <2>4, <2>6, <2>7, <2>9, <2>10 DEF SameMemory, IsoInv, TasksOwn
  <2>12. core' = [core EXCEPT ![c] = "thread"]
    BY <1>1 DEF IsoInv, TypesOfIso
  <2> QED
    BY <1>1, <1>3, <2>8, <2>10, <2>11, <2>12, SwitchPreserves
<1> QED
  BY <1>2, <1>3 DEF PendSV, ActiveSlot

LEMMA SuspendPreserves ==
  ASSUME IsoInv, NEW c \in IsoCores, UserSuspend(c) PROVE IsoInv'
<1>1. PICK i \in IsoIds : i = isoCurrent[c] /\ isoTask[i] # NoTask
  BY DEF UserSuspend, IsoInv, TypesOfIso, CurrentIsActive
<1>2. /\ isoTask' = [isoTask EXCEPT ![i].state = "suspended"]
      /\ UNCHANGED <<poolUsed, isoCurrent, active, bank, unpriv, core, owners, evidence, isoSpawns>>
  BY <1>1 DEF UserSuspend
<1>3. SameMemory /\ isoTask' \in [IsoIds -> TaskRecords \cup {NoTask}]
  BY <1>1, <1>2, StateChanges
<1>4. TypesOfIso'
  BY <1>2, <1>3 DEF IsoInv, TypesOfIso
<1>5. OwnersApart' /\ ActiveIsInForce' /\ EvidenceNamesIt'
  BY <1>2 DEF IsoInv, OwnersApart, ActiveIsInForce, EvidenceNamesIt
<1>6. TasksOwn'
  BY <1>2, <1>3, TasksKeep
<1>7. CurrentIsActive'
  BY <1>2, <1>3 DEF IsoInv, TypesOfIso, CurrentIsActive, SameMemory
<1> QED
  BY <1>4, <1>5, <1>6, <1>7 DEF IsoInv

LEMMA FaultPreserves ==
  ASSUME IsoInv, NEW c \in IsoCores, UserFaults(c) PROVE IsoInv'
<1>1. /\ core[c] = "thread"
      /\ evidence' = IF active[c].memory = NoMemory THEN Panic ELSE [core |-> c, id |-> active[c].id]
      /\ UNCHANGED <<poolUsed, isoTask, isoCurrent, active, bank, unpriv, core, owners, isoSpawns>>
  BY DEF UserFaults, ActiveSlot
<1>2. active[c].id = isoCurrent[c]
  BY <1>1 DEF IsoInv, CurrentIsActive
<1>3. EvidenceNamesIt'
  BY <1>1, <1>2 DEF EvidenceNamesIt
<1> QED
  BY <1>1, <1>3 DEF IsoInv, TypesOfIso, OwnersApart, TasksOwn, TaskOwns, Owned, CurrentIsActive,
                    ActiveIsInForce

LEMMA NextIsoInv == IsoInv /\ [IsoNext]_isoVars => IsoInv'
<1> SUFFICES ASSUME IsoInv, [IsoNext]_isoVars PROVE IsoInv'
  OBVIOUS
<1>1. ASSUME NEW c \in IsoCores, NEW j \in IsoIds, isoTask[j] # NoTask, NEW i \in IsoIds,
             PendSV(c, isoTask[j].sp, i)
      PROVE  IsoInv'
  <2>1. isoTask[j].sp \in Nat
    BY <1>1 DEF IsoInv, TypesOfIso, TaskRecords
  <2> QED
    BY <1>1, <2>1, PendSVPreserves
<1>2. CASE UNCHANGED isoVars
  BY <1>2 DEF isoVars, IsoInv, TypesOfIso, OwnersApart, TasksOwn, TaskOwns, Owned, CurrentIsActive,
              ActiveIsInForce, EvidenceNamesIt
<1> QED
  BY <1>1, <1>2, InitCorePreserves, SpawnTrustedPreserves, SpawnIsolatedPreserves, ReapPreserves,
     FirstStackPreserves, SuspendPreserves, FaultPreserves, JoinPreserves DEF IsoNext

(***************************************************************************)
(* The theorem.                                                            *)
(***************************************************************************)

(* Whoever meets an extent owned has the extent itself.                    *)
LEMMA MeetsIsMine ==
  ASSUME IsoInv, NEW o \in owners, NEW r \in Regions, NEW i, Owned(i, r),
         NEW x \in Extent(o.base, o.size), x \in Extent(r.base, r.size)
  PROVE  o.id = i /\ o.base = r.base
<1>1. PICK p \in owners : p.id = i /\ p.base = r.base /\ p.size = r.size
  BY DEF Owned
<1>2. /\ o.base \in Nat /\ o.size \in Nat /\ p.base \in Nat /\ p.size \in Nat
  BY DEF IsoInv, TypesOfIso, Owners
<1>3. /\ x \in Int /\ o.base <= x /\ x < o.base + o.size /\ p.base <= x /\ x < p.base + p.size
  BY <1>1, <1>2 DEF Extent
<1>4. o.size > 0 /\ p.size > 0
  BY <1>2, <1>3
<1>5. o = p
  BY <1>2, <1>3, <1>4 DEF IsoInv, OwnersApart
<1> QED
  BY <1>1, <1>5

(* An unprivileged task reaches its own stack and data and nothing that    *)
(* another task, alive or deleted, was ever given; a trusted one runs      *)
(* privileged; who is resumed is resumed on its own stack; a fault is put  *)
(* down to the task that ran (kernel/src/isolation.rs, armv6m.rs; the bank *)
(* of arch/armv6m/src/mpu.rs).                                             *)
THEOREM TasksAreIsolated == IsoSpec => []IsolationKept
<1>1. IsoInv => IsolationKept
  <2> SUFFICES ASSUME IsoInv PROVE IsolationKept
    OBVIOUS
  <2>1. ASSUME NEW c \in IsoCores, core[c] = "thread", NEW i, i = isoCurrent[c], NEW m, m = isoTask[i].memory
        PROVE  /\ unpriv[c] <=> m # NoMemory
               /\ m # NoMemory =>
                    /\ bank[c] = image(m) /\ MineAt(i, m.stack.base)
                    /\ \A o \in owners : Extent(o.base, o.size) \cap bank[c] # {} =>
                                           o.id = i /\ o.base \in {m.stack.base, m.data.base}
    <3>1. i \in IsoIds /\ isoTask[i] # NoTask /\ active[c].memory = m /\ m \in Memories \cup {NoMemory}
      BY <2>1 DEF IsoInv, TypesOfIso, CurrentIsActive, TaskRecords
    <3>2. (unpriv[c] <=> m # NoMemory) /\ bank[c] = image(m)
      BY <3>1 DEF IsoInv, ActiveIsInForce
    <3>3. ASSUME m # NoMemory
          PROVE  /\ MineAt(i, m.stack.base)
                 /\ \A o \in owners : Extent(o.base, o.size) \cap bank[c] # {} =>
                                        o.id = i /\ o.base \in {m.stack.base, m.data.base}
      <4>1. TaskOwns(i, m) /\ m \in Memories /\ m.stack \in Regions /\ m.data \in Regions
        BY <2>1, <3>1, <3>3 DEF IsoInv, TasksOwn, Memories
      <4>2. MineAt(i, m.stack.base)
        BY <4>1 DEF TaskOwns, Owned, MineAt
      <4>3. bank[c] \subseteq Extent(m.stack.base, m.stack.size) \cup Extent(m.data.base, m.data.size)
        BY <3>2, <3>3, <4>1, UsableInStack DEF image
      <4>4. ASSUME NEW o \in owners, NEW x \in Extent(o.base, o.size), x \in bank[c]
            PROVE  o.id = i /\ o.base \in {m.stack.base, m.data.base}
        BY <4>1, <4>3, <4>4, MeetsIsMine DEF TaskOwns
      <4> QED
        BY <4>2, <4>4
    <3> QED
      BY <3>2, <3>3
  <2>2. \A i \in IsoIds : isoTask[i] # NoTask /\ isoTask[i].memory # NoMemory =>
                             isoTask[i].sp \in Usable(isoTask[i].memory)
    BY DEF IsoInv, TasksOwn
  <2> QED
    BY <2>1, <2>2 DEF IsolationKept, IsoInv, EvidenceNamesIt
<1> QED
  BY InitIsoInv, NextIsoInv, <1>1, PTL DEF IsoSpec

(***************************************************************************)
(* Runtime-created objects.                                                *)
(***************************************************************************)

(* The types of what the argument looks at.                                *)
DynTypes ==
  /\ tstate \in [Tasks -> {"Ready", "BlockedSend", "BlockedRecv"}]
  /\ list \in [Sides -> [Objects -> Seq(Tasks)]]
  /\ count \in [Semaphores -> Nat] /\ len \in [Queues -> 0 .. CAPACITY]
  /\ isr \in [Queues -> {"idle", "put", "wake"}] /\ isrLen \in [Queues -> Nat]
  /\ items \in [Queues -> Int] /\ bits \in [Groups -> SUBSET Bits]
  /\ owner \in [RMutexes -> Tasks \cup {NoOwner}] /\ depth \in [RMutexes -> Nat]
  /\ held \in [RMutexes -> [Tasks -> Nat]]
  /\ call \in [Tasks -> Calls \cup Unlocks \cup Sets \cup {NoCall}]
  /\ pc \in [Tasks -> {"idle", "test", "resume", "check", "release", "waking"}]
  /\ wakes \in [Tasks -> 0 .. MAX_WAKE]

(* Where a task is says what call it is in; who has yet to give a mutex    *)
(* back still owns it, at depth zero.                                      *)
CallsAt ==
  \A t \in Tasks :
    /\ pc[t] = "idle" => call[t] = NoCall
    /\ pc[t] \in {"test", "resume", "check"} => call[t] \in Calls
    /\ pc[t] = "release" => call[t] \in Unlocks /\ owner[call[t].obj] = t /\ depth[call[t].obj] = 0
    /\ pc[t] = "waking" => call[t] \in Sets

(* A list names its sleepers, each once, and nobody else: the kernel's     *)
(* own timeout never strikes here.                                         *)
NoRepeats(s) == \A i, j \in DOMAIN s : s[i] = s[j] => i = j
Sleeper(t, side, o) == tstate[t] # "Ready" /\ call[t].obj = o /\ Side(call[t]) = side
ListsAreSleepers ==
  /\ \A side \in Sides, o \in Objects :
       /\ Len(list[side][o]) <= MAX_WAITERS /\ NoRepeats(list[side][o])
       /\ \A i \in DOMAIN list[side][o] : Sleeper(list[side][o][i], side, o)
  /\ \A t \in Tasks : tstate[t] # "Ready" =>
       /\ pc[t] = "resume" /\ tstate[t] = BlockedState(Side(call[t]))
       /\ \E i \in DOMAIN list[Side(call[t])][call[t].obj] : list[Side(call[t])][call[t].obj][i] = t

(* A handler on the tasks' core stores what it has read.                   *)
IsrAtomic == \A q \in Queues : isr[q] = "put" => isrLen[q] = len[q] /\ len[q] < CAPACITY

(* While somebody sleeps for what o has n of, n callers are on their way.  *)
Enough(op, o, n) == Asleep(op, o) # {} => n <= Cardinality(Retrying(op, o))
WakeDue(q) == IF isr[q] = "wake" THEN 1 ELSE 0
Unowned(m) == IF owner[m] = NoOwner THEN 1 ELSE 0
NoneLostOn(o) ==
  /\ o \in Semaphores \ Timed => Enough("take", o, count[o])
  /\ o \in Queues \ Timed => Enough("recv", o, len[o] - WakeDue(o)) /\ Enough("send", o, CAPACITY - len[o])
  /\ o \in RMutexes \ Timed => Enough("lock", o, Unowned(o))

(* A sleeper whose bits are set is no further back than wakes are owed.    *)
EventsReach(g) ==
  \A i \in DOMAIN list["recv"][g] : Satisfied(call[list["recv"][g][i]]) => i <= Cardinality(Owed(g))

Shape == DynTypes /\ CallsAt /\ ListsAreSleepers
DynInv ==
  /\ Shape /\ IsrAtomic /\ CountsAgree
  /\ \A o \in Objects : NoneLostOn(o)
  /\ \A g \in Groups : EventsReach(g)

(***************************************************************************)
(* Calls and kinds.                                                        *)
(***************************************************************************)

(* What a call is tells what it is of.                                     *)
LEMMA CallKinds ==
  \A k \in Calls :
    /\ \/ k.op = "take" /\ k.obj \in Semaphores
       \/ k.op \in {"send", "recv"} /\ k.obj \in Queues
       \/ k.op = "lock" /\ k.obj \in RMutexes
       \/ k.op = "wait" /\ k.obj \in Groups
    /\ k.finite => k.obj \in Timed
    /\ k.obj \in Objects /\ Side(k) \in Sides /\ k # NoCall
  BY DynObjAssumption, CallsAssumption DEF Calls, Side, Sides

LEMMA OtherCalls ==
  /\ \A k \in Unlocks : k.op = "unlock" /\ k.obj \in RMutexes
  /\ \A k \in Sets : k.op = "set" /\ k.obj \in Groups /\ k # NoCall
  BY CallsAssumption DEF Unlocks, Sets

(* The objects a kind of call can be about.                                *)
LEMMA ObjectKinds ==
  /\ \A o \in Semaphores : o \in Objects /\ o \notin Queues /\ o \notin RMutexes /\ o \notin Groups
  /\ \A o \in Queues : o \in Objects /\ o \notin Semaphores /\ o \notin RMutexes /\ o \notin Groups
  /\ \A o \in RMutexes : o \in Objects /\ o \notin Semaphores /\ o \notin Queues /\ o \notin Groups
  /\ \A o \in Groups : o \in Objects /\ o \notin Semaphores /\ o \notin Queues /\ o \notin RMutexes
  BY DynObjAssumption

(***************************************************************************)
(* Counting those on their way.                                            *)
(***************************************************************************)

LEMMA RetryingFinite ==
  \A op, o : IsFiniteSet(Retrying(op, o)) /\ Cardinality(Retrying(op, o)) \in Nat
<1> SUFFICES ASSUME NEW op, NEW o
             PROVE  IsFiniteSet(Retrying(op, o)) /\ Cardinality(Retrying(op, o)) \in Nat
  OBVIOUS
<1>1. Retrying(op, o) \in SUBSET Tasks
  BY DEF Retrying
<1>2. IsFiniteSet(Tasks)
  BY WaitersAssumption
<1>3. IsFiniteSet(Retrying(op, o))
  BY <1>1, <1>2, FS_Subset
<1> QED
  BY <1>3, FS_CardinalityType

LEMMA RetryingFiniteNext ==
  \A op, o : IsFiniteSet(Retrying(op, o)') /\ Cardinality(Retrying(op, o)') \in Nat
<1> SUFFICES ASSUME NEW op, NEW o
             PROVE  IsFiniteSet(Retrying(op, o)') /\ Cardinality(Retrying(op, o)') \in Nat
  OBVIOUS
<1>1. Retrying(op, o)' \in SUBSET Tasks
  BY DEF Retrying
<1>2. IsFiniteSet(Tasks)
  BY WaitersAssumption
<1>3. IsFiniteSet(Retrying(op, o)')
  BY <1>1, <1>2, FS_Subset
<1> QED
  BY <1>3, FS_CardinalityType

(* Nobody new sleeps and nobody on the way leaves.                         *)
LEMMA EnoughKept ==
  ASSUME NEW op, NEW o, NEW n \in Int, NEW m \in Int, Enough(op, o, n), m <= n,
         Asleep(op, o)' \subseteq Asleep(op, o), Retrying(op, o) \subseteq Retrying(op, o)'
  PROVE  Asleep(op, o)' # {} => m <= Cardinality(Retrying(op, o)')
<1>1. Cardinality(Retrying(op, o)) <= Cardinality(Retrying(op, o)')
  BY RetryingFiniteNext, FS_Subset
<1>2. Cardinality(Retrying(op, o)) \in Nat /\ Cardinality(Retrying(op, o)') \in Nat
  BY RetryingFinite, RetryingFiniteNext
<1>3. Asleep(op, o)' # {} => n <= Cardinality(Retrying(op, o))
  BY DEF Enough
<1> QED
  BY <1>1, <1>2, <1>3

(* One more is there, and one more is on the way.                          *)
LEMMA EnoughWoken ==
  ASSUME NEW op, NEW o, NEW n \in Int, NEW m \in Int, Enough(op, o, n), m <= n + 1, NEW w,
         w \in Asleep(op, o), w \in Retrying(op, o)',
         Asleep(op, o)' \subseteq Asleep(op, o), Retrying(op, o) \subseteq Retrying(op, o)'
  PROVE  Asleep(op, o)' # {} => m <= Cardinality(Retrying(op, o)')
<1> DEFINE R == Retrying(op, o)
<1>1. w \notin R
  BY DEF Asleep, Retrying
<1>2. IsFiniteSet(R) /\ Cardinality(R) \in Nat /\ Cardinality(R') \in Nat /\ IsFiniteSet(R')
  BY RetryingFinite, RetryingFiniteNext
<1>3. Cardinality(R \cup {w}) = Cardinality(R) + 1
  BY <1>1, <1>2, FS_AddElement
<1>4. R \cup {w} \in SUBSET (R')
  OBVIOUS
<1>5. Cardinality(R \cup {w}) <= Cardinality(R')
  BY <1>2, <1>4, FS_Subset
<1>6. n <= Cardinality(R)
  BY DEF Enough
<1> QED
  BY <1>2, <1>3, <1>5, <1>6

(* One that was on the way has taken one.                                  *)
LEMMA EnoughTaken ==
  ASSUME NEW op, NEW o, NEW n \in Int, NEW m \in Int, Enough(op, o, n), m <= n - 1, NEW t,
         Asleep(op, o)' \subseteq Asleep(op, o), Retrying(op, o) \ {t} \subseteq Retrying(op, o)'
  PROVE  Asleep(op, o)' # {} => m <= Cardinality(Retrying(op, o)')
<1> DEFINE R == Retrying(op, o)
<1>1. IsFiniteSet(R) /\ Cardinality(R) \in Nat /\ Cardinality(R') \in Nat /\ IsFiniteSet(R')
  BY RetryingFinite, RetryingFiniteNext
<1>2. Cardinality(R \ {t}) >= Cardinality(R) - 1 /\ Cardinality(R \ {t}) \in Int
  BY <1>1, FS_RemoveElement
<1>3. Cardinality(R \ {t}) <= Cardinality(R')
  BY <1>1, FS_Subset
<1>4. Asleep(op, o)' # {} => n <= Cardinality(R)
  BY DEF Enough
<1> QED
  BY <1>1, <1>2, <1>3, <1>4

(* There is nothing to be had.                                             *)
LEMMA EnoughOfNothing ==
  ASSUME NEW op, NEW o, NEW m \in Int, m <= 0
  PROVE  Asleep(op, o)' # {} => m <= Cardinality(Retrying(op, o)')
<1>1. Cardinality(Retrying(op, o)') \in Nat
  BY RetryingFiniteNext
<1> QED
  BY <1>1

(***************************************************************************)
(* What a step leaves alone.                                               *)
(***************************************************************************)

SleepersKeep == \A u \in Tasks : tstate[u] # "Ready" => call'[u] = call[u] /\ pc'[u] = pc[u]
WakesOnly == \A u \in Tasks : tstate'[u] \in {tstate[u], "Ready"}

(* Who is in a call on o stays in it, and nobody falls asleep in one.      *)
Undisturbed(o) ==
  \A u \in Tasks :
    /\ call[u] # NoCall /\ call[u].obj = o => call'[u] = call[u] /\ tstate'[u] \in {tstate[u], "Ready"}
    /\ tstate'[u] # "Ready" /\ call'[u].obj = o => call'[u] = call[u]

LEMMA CallersKept ==
  ASSUME NEW op, NEW o, Undisturbed(o)
  PROVE  Asleep(op, o)' \subseteq Asleep(op, o) /\ Retrying(op, o) \subseteq Retrying(op, o)'
<1>1. ASSUME NEW u \in Asleep(op, o)' PROVE u \in Asleep(op, o)
  <2>1. u \in Tasks /\ tstate'[u] # "Ready" /\ call'[u] # NoCall /\ call'[u].op = op /\ call'[u].obj = o
    BY <1>1 DEF Asleep, WaitsOn
  <2>2. call'[u] = call[u] /\ tstate[u] # "Ready"
    BY <2>1 DEF Undisturbed
  <2> QED
    BY <2>1, <2>2 DEF Asleep, WaitsOn
<1>2. ASSUME NEW u \in Retrying(op, o) PROVE u \in Retrying(op, o)'
  <2>1. u \in Tasks /\ tstate[u] = "Ready" /\ call[u] # NoCall /\ call[u].op = op /\ call[u].obj = o
    BY <1>2 DEF Retrying, WaitsOn
  <2>2. tstate'[u] = "Ready" /\ call'[u] = call[u]
    BY <2>1 DEF Undisturbed
  <2> QED
    BY <2>1, <2>2 DEF Retrying, WaitsOn
<1> QED
  BY <1>1, <1>2

(* An object that a step does not concern.                                 *)
LEMMA ObjectKept ==
  ASSUME DynTypes, NEW o \in Objects, NoneLostOn(o), Undisturbed(o),
         o \in Semaphores => count'[o] = count[o],
         o \in Queues => len'[o] = len[o] /\ WakeDue(o)' = WakeDue(o),
         o \in RMutexes => owner'[o] = owner[o]
  PROVE  NoneLostOn(o)'
<1>1. \A op : Asleep(op, o)' \subseteq Asleep(op, o) /\ Retrying(op, o) \subseteq Retrying(op, o)'
  BY CallersKept
<1>2. ASSUME o \in Semaphores \ Timed PROVE Enough("take", o, count[o])'
  <2>1. count[o] \in Int /\ Enough("take", o, count[o])
    BY <1>2 DEF DynTypes, NoneLostOn
  <2>2. Asleep("take", o)' # {} => count[o] <= Cardinality(Retrying("take", o)')
    BY <1>1, <2>1, EnoughKept
  <2> QED
    BY <1>2, <2>2 DEF Enough
<1>3. ASSUME o \in Queues \ Timed
      PROVE  Enough("recv", o, len[o] - WakeDue(o))' /\ Enough("send", o, CAPACITY - len[o])'
  <2>1. /\ len[o] - WakeDue(o) \in Int /\ Enough("recv", o, len[o] - WakeDue(o))
        /\ CAPACITY - len[o] \in Int /\ Enough("send", o, CAPACITY - len[o])
    BY <1>3, DynObjAssumption DEF DynTypes, NoneLostOn, WakeDue
  <2>2. /\ Asleep("recv", o)' # {} => len[o] - WakeDue(o) <= Cardinality(Retrying("recv", o)')
        /\ Asleep("send", o)' # {} => CAPACITY - len[o] <= Cardinality(Retrying("send", o)')
    BY <1>1, <2>1, EnoughKept
  <2> QED
    BY <1>3, <2>2 DEF Enough
<1>4. ASSUME o \in RMutexes \ Timed PROVE Enough("lock", o, Unowned(o))'
  <2>1. Unowned(o) \in Int /\ Enough("lock", o, Unowned(o))
    BY <1>4 DEF NoneLostOn, Unowned
  <2>2. Asleep("lock", o)' # {} => Unowned(o) <= Cardinality(Retrying("lock", o)')
    BY <1>1, <2>1, EnoughKept
  <2> QED
    BY <1>4, <2>2 DEF Enough, Unowned
<1> QED
  BY <1>2, <1>3, <1>4 DEF NoneLostOn

(* A group whose list, and the wakes owed to it, are left alone.           *)
LEMMA GroupKept ==
  ASSUME Shape, NEW g \in Groups, EventsReach(g), SleepersKeep,
         list'["recv"][g] = list["recv"][g], bits'[g] \subseteq bits[g],
         Cardinality(Owed(g)) <= Cardinality(Owed(g)'),
         Cardinality(Owed(g)) \in Nat, Cardinality(Owed(g)') \in Nat
  PROVE  EventsReach(g)'
<1> DEFINE s == list["recv"][g]
<1>0. g \in Objects /\ "recv" \in Sides
  BY ObjectKinds DEF Sides
<1>1. DOMAIN s = 1 .. Len(s) /\ Len(s) \in Nat /\ \A i \in 1 .. Len(s) : s[i] \in Tasks /\ Sleeper(s[i], "recv", g)
  BY <1>0, ElementOfSeq, LenProperties DEF Shape, DynTypes, ListsAreSleepers
<1>2. \A i \in 1 .. Len(s) : call'[s[i]] = call[s[i]] /\ call[s[i]].obj = g
  BY <1>1 DEF SleepersKeep, Sleeper
<1> HIDE DEF s
<1>3. ASSUME NEW i \in 1 .. Len(s), Satisfied(call[s[i]])' PROVE i <= Cardinality(Owed(g)')
  <2>1. Satisfied(call[s[i]])
    BY <1>2, <1>3 DEF Satisfied, s
  <2>2. i <= Cardinality(Owed(g))
    BY <1>1, <2>1 DEF EventsReach, s
  <2> QED
    BY <1>1, <2>2
<1> QED
  BY <1>1, <1>3 DEF EventsReach, s

(***************************************************************************)
(* The lists.                                                              *)
(***************************************************************************)

(* Nobody is woken or listed.                                              *)
LEMMA ListsStill ==
  ASSUME ListsAreSleepers, DynTypes, SleepersKeep, UNCHANGED <<tstate, list>>
  PROVE  ListsAreSleepers'
<1>1. \A side \in Sides, o \in Objects : \A i \in DOMAIN list[side][o] : list[side][o][i] \in Tasks
  BY ElementOfSeq, LenProperties DEF DynTypes
<1>2. \A side \in Sides, o \in Objects :
        /\ Len(list[side][o]) <= MAX_WAITERS /\ NoRepeats(list[side][o])
        /\ \A i \in DOMAIN list[side][o] : Sleeper(list[side][o][i], side, o)'
  BY <1>1 DEF ListsAreSleepers, Sleeper, SleepersKeep
<1>3. \A t \in Tasks : tstate[t] # "Ready" => call'[t] = call[t] /\ pc'[t] = pc[t]
  BY DEF SleepersKeep
<1> QED
  BY <1>2, <1>3 DEF ListsAreSleepers

(* wake_one takes the first of the list, if there is one.                  *)
LEMMA WakeTakesFirst ==
  ASSUME ListsAreSleepers, DynTypes, NEW side \in Sides, NEW o \in Objects, WakeOne(side, o)
  PROVE  \/ list[side][o] = <<>> /\ UNCHANGED <<tstate, list>>
         \/ \E w \in Tasks :
              /\ list[side][o] # <<>> /\ w = list[side][o][1] /\ Sleeper(w, side, o)
              /\ tstate' = [tstate EXCEPT ![w] = "Ready"]
              /\ list' = [list EXCEPT ![side][o] = DropAt(@, 1)]
<1> DEFINE s == list[side][o]
           B == StillBlocked(side, o)
           first == CHOOSE k \in B : \A j \in B : k <= j
<1>1. s \in Seq(Tasks) /\ DOMAIN s = 1 .. Len(s) /\ Len(s) \in Nat /\ \A i \in 1 .. Len(s) : s[i] \in Tasks
  BY ElementOfSeq, LenProperties DEF DynTypes
<1>2. \A i \in 1 .. Len(s) : Sleeper(s[i], side, o) /\ tstate[s[i]] = BlockedState(side)
  BY <1>1 DEF ListsAreSleepers, Sleeper
<1>3. B = 1 .. Len(s)
  BY <1>1, <1>2 DEF StillBlocked
<1>4. CASE s = <<>>
  <2>1. B = {}
    BY <1>1, <1>3, <1>4
  <2> QED
    BY <1>4, <2>1 DEF WakeOne
<1>5. CASE s # <<>>
  <2>1. Len(s) >= 1
    BY <1>1, <1>5, EmptySeq
  <2>2. first = 1
    BY <1>1, <1>3, <2>1
  <2>3. B # {}
    BY <1>1, <1>3, <2>1
  <2>4. /\ list' = [list EXCEPT ![side][o] = DropAt(@, first)]
        /\ tstate' = [tstate EXCEPT ![s[first]] = "Ready"]
    BY <2>3 DEF WakeOne
  <2>5. PICK w \in Tasks : w = s[1]
    BY <1>1, <2>1
  <2>6. /\ list' = [list EXCEPT ![side][o] = DropAt(@, 1)]
        /\ tstate' = [tstate EXCEPT ![w] = "Ready"]
    BY <2>2, <2>4, <2>5
  <2>7. Sleeper(w, side, o)
    BY <1>1, <1>2, <2>1, <2>5
  <2> QED
    BY <1>5, <2>5, <2>6, <2>7
<1> QED
  BY <1>4, <1>5

LEMMA DropFirst ==
  ASSUME NEW s \in Seq(Tasks), s # <<>>
  PROVE  /\ DropAt(s, 1) \in Seq(Tasks) /\ Len(DropAt(s, 1)) = Len(s) - 1
         /\ DOMAIN DropAt(s, 1) = 1 .. Len(s) - 1
         /\ \A i \in 1 .. Len(s) - 1 : DropAt(s, 1)[i] = s[i + 1] /\ i + 1 \in 1 .. Len(s)
<1>1. Len(s) \in Nat /\ Len(s) >= 1 /\ DOMAIN s = 1 .. Len(s) /\ \A i \in 1 .. Len(s) : s[i] \in Tasks
  BY EmptySeq, ElementOfSeq, LenProperties
<1>2. DropAt(s, 1) = [j \in 1 .. Len(s) - 1 |-> s[j + 1]]
  BY <1>1 DEF DropAt
<1>3. DropAt(s, 1) \in [1 .. Len(s) - 1 -> Tasks] /\ Len(s) - 1 \in Nat
  BY <1>1, <1>2
<1>4. DropAt(s, 1) \in Seq(Tasks)
  BY <1>3, SeqDef
<1>5. Len(DropAt(s, 1)) \in Nat /\ 1 .. Len(DropAt(s, 1)) = 1 .. Len(s) - 1
  BY <1>3, <1>4, LenProperties
<1>6. Len(DropAt(s, 1)) = Len(s) - 1
  BY <1>3, <1>5
<1>7. \A i \in 1 .. Len(s) - 1 : DropAt(s, 1)[i] = s[i + 1]
  BY <1>1, <1>2
<1>8. \A i \in 1 .. Len(s) - 1 : i + 1 \in 1 .. Len(s)
  BY <1>1
<1>9. DOMAIN DropAt(s, 1) = 1 .. Len(s) - 1
  BY <1>2
<1> QED
  BY <1>4, <1>6, <1>7, <1>8, <1>9

(* The lists after a wake: the first of one of them has gone.              *)
LEMMA ListsWoken ==
  ASSUME ListsAreSleepers, DynTypes, SleepersKeep, NEW side \in Sides, NEW o \in Objects,
         NEW w \in Tasks, list[side][o] # <<>>, w = list[side][o][1],
         tstate' = [tstate EXCEPT ![w] = "Ready"],
         list' = [list EXCEPT ![side][o] = DropAt(@, 1)]
  PROVE  /\ ListsAreSleepers' /\ WakesOnly
         /\ tstate' \in [Tasks -> {"Ready", "BlockedSend", "BlockedRecv"}]
         /\ list' \in [Sides -> [Objects -> Seq(Tasks)]]
<1> DEFINE s == list[side][o]
           r == DropAt(s, 1)
           Sleeps(t, d, p) == tstate'[t] # "Ready" /\ call'[t].obj = p /\ Side(call'[t]) = d
<1>1. s \in Seq(Tasks) /\ DOMAIN s = 1 .. Len(s) /\ Len(s) \in Nat /\ \A i \in 1 .. Len(s) : s[i] \in Tasks
  BY ElementOfSeq, LenProperties DEF DynTypes
<1>2. /\ r \in Seq(Tasks) /\ Len(r) = Len(s) - 1 /\ DOMAIN r = 1 .. Len(s) - 1
      /\ \A i \in 1 .. Len(s) - 1 : r[i] = s[i + 1] /\ i + 1 \in 1 .. Len(s)
  BY <1>1, DropFirst
<1>3. /\ list' \in [Sides -> [Objects -> Seq(Tasks)]] /\ list'[side][o] = r
      /\ \A d \in Sides, p \in Objects : <<d, p>> # <<side, o>> => list'[d][p] = list[d][p]
  BY <1>2 DEF DynTypes
<1> HIDE DEF r
<1>4. /\ tstate' \in [Tasks -> {"Ready", "BlockedSend", "BlockedRecv"}] /\ tstate'[w] = "Ready"
      /\ \A u \in Tasks : u # w => tstate'[u] = tstate[u]
  BY DEF DynTypes
<1>5. WakesOnly
  BY <1>4 DEF WakesOnly
<1>6. Len(s) >= 1 /\ Sleeper(w, side, o)
  <2>1. Len(s) >= 1
    BY <1>1, EmptySeq
  <2> QED
    BY <1>1, <2>1 DEF ListsAreSleepers
<1>7. ASSUME NEW d \in Sides, NEW p \in Objects
      PROVE  /\ Len(list'[d][p]) <= MAX_WAITERS /\ NoRepeats(list'[d][p])
             /\ \A i \in DOMAIN list'[d][p] : Sleeps(list'[d][p][i], d, p)
  <2>1. CASE <<d, p>> = <<side, o>>
    <3>1. Len(s) <= MAX_WAITERS /\ NoRepeats(s) /\ \A i \in 1 .. Len(s) : Sleeper(s[i], side, o)
      BY <1>1 DEF ListsAreSleepers
    <3>2. Len(r) <= MAX_WAITERS
      BY <1>1, <1>2, <3>1, WaitersAssumption
    <3>3. NoRepeats(r)
      <4> SUFFICES ASSUME NEW i \in 1 .. Len(s) - 1, NEW j \in 1 .. Len(s) - 1, r[i] = r[j]
                   PROVE  i = j
        BY <1>2 DEF NoRepeats
      <4>1. s[i + 1] = s[j + 1] /\ i + 1 \in 1 .. Len(s) /\ j + 1 \in 1 .. Len(s)
        BY <1>2
      <4>2. i + 1 = j + 1
        BY <1>1, <3>1, <4>1 DEF NoRepeats
      <4> QED
        BY <1>1, <4>2
    <3>4. \A i \in 1 .. Len(s) - 1 : r[i] \in Tasks /\ r[i] # w /\ Sleeper(r[i], side, o)
      BY <1>1, <1>2, <1>6, <3>1 DEF NoRepeats
    <3>5. \A i \in 1 .. Len(s) - 1 : Sleeps(r[i], side, o)
      BY <1>4, <3>4 DEF Sleeper, SleepersKeep
    <3> QED
      BY <1>2, <1>3, <2>1, <3>2, <3>3, <3>5
  <2>2. CASE <<d, p>> # <<side, o>>
    <3>1. list[d][p] \in Seq(Tasks) /\ \A i \in DOMAIN list[d][p] : list[d][p][i] \in Tasks
      BY ElementOfSeq, LenProperties DEF DynTypes
    <3>2. \A i \in DOMAIN list[d][p] : Sleeper(list[d][p][i], d, p) /\ list[d][p][i] # w
      BY <1>6, <2>2 DEF ListsAreSleepers, Sleeper
    <3>3. \A i \in DOMAIN list[d][p] : Sleeps(list[d][p][i], d, p)
      BY <1>4, <3>1, <3>2 DEF Sleeper, SleepersKeep
    <3> QED
      BY <1>3, <2>2, <3>3 DEF ListsAreSleepers
  <2> QED
    BY <2>1, <2>2
<1>8. ASSUME NEW t \in Tasks, tstate'[t] # "Ready"
      PROVE  /\ pc'[t] = "resume" /\ tstate'[t] = BlockedState(Side(call'[t]))
             /\ \E i \in DOMAIN list'[Side(call'[t])][call'[t].obj] : list'[Side(call'[t])][call'[t].obj][i] = t
  <2>1. t # w /\ tstate'[t] = tstate[t] /\ tstate[t] # "Ready"
    BY <1>4, <1>8
  <2>2. call'[t] = call[t] /\ pc'[t] = pc[t]
    BY <2>1 DEF SleepersKeep
  <2> DEFINE d == Side(call[t])
             p == call[t].obj
  <2>3. pc[t] = "resume" /\ tstate[t] = BlockedState(d) /\ \E i \in DOMAIN list[d][p] : list[d][p][i] = t
    BY <2>1 DEF ListsAreSleepers
  <2>4. PICK i \in DOMAIN list[d][p] : list[d][p][i] = t
    BY <2>3
  <2>5. CASE d = side /\ p = o
    <3>1. i \in 1 .. Len(s) /\ s[i] = t
      BY <1>1, <2>4, <2>5
    <3>2. i # 1
      BY <2>1, <3>1
    <3>3. i - 1 \in 1 .. Len(s) - 1 /\ r[i - 1] = t
      BY <1>1, <1>2, <3>1, <3>2
    <3> QED
      BY <1>2, <1>3, <2>1, <2>2, <2>3, <2>5, <3>3
  <2>6. CASE ~(d = side /\ p = o)
    <3>1. list'[d][p] = list[d][p]
      BY <1>3, <2>6
    <3> QED
      BY <2>1, <2>2, <2>3, <3>1
  <2> QED
    BY <2>5, <2>6
<1>9. ListsAreSleepers'
  BY <1>7, <1>8 DEF ListsAreSleepers, Sleeper
<1> QED
  BY <1>3, <1>4, <1>5, <1>9

(***************************************************************************)
(* Enrolling.                                                              *)
(***************************************************************************)

(* A task that enrols goes to the end of the list of its call.             *)
LEMMA ListsEnrol ==
  ASSUME ListsAreSleepers, DynTypes, CallsAt, NEW t \in Tasks, pc[t] = "test",
         Enrol(t, Side(call[t]), call[t].obj, FALSE), UNCHANGED call,
         pc' = [pc EXCEPT ![t] = "resume"]
  PROVE  /\ ListsAreSleepers'
         /\ tstate' \in [Tasks -> {"Ready", "BlockedSend", "BlockedRecv"}]
         /\ list' \in [Sides -> [Objects -> Seq(Tasks)]]
         /\ tstate[t] = "Ready"
         /\ list' = [list EXCEPT ![Side(call[t])][call[t].obj] = Append(@, t)]
         /\ tstate' = [tstate EXCEPT ![t] = BlockedState(Side(call[t]))]
<1> DEFINE side == Side(call[t])
           o == call[t].obj
           s == list[side][o]
           r == Append(s, t)
           Sleeps(u, d, p) == tstate'[u] # "Ready" /\ call[u].obj = p /\ Side(call[u]) = d
<1>1. side \in Sides /\ o \in Objects /\ tstate[t] = "Ready" /\ BlockedState(side) \in {"BlockedSend", "BlockedRecv"}
  BY CallKinds DEF CallsAt, ListsAreSleepers, BlockedState
<1>2. s \in Seq(Tasks) /\ DOMAIN s = 1 .. Len(s) /\ Len(s) \in Nat /\ \A i \in 1 .. Len(s) : s[i] \in Tasks
  BY <1>1, ElementOfSeq, LenProperties DEF DynTypes
<1>3. /\ r \in Seq(Tasks) /\ Len(r) = Len(s) + 1 /\ DOMAIN r = 1 .. Len(s) + 1
      /\ r[Len(s) + 1] = t /\ \A i \in 1 .. Len(s) : r[i] = s[i]
  BY SMTT(30), <1>2, AppendProperties, LenProperties
<1>4. /\ list' = [list EXCEPT ![side][o] = r] /\ Len(s) < MAX_WAITERS
      /\ tstate' = [tstate EXCEPT ![t] = BlockedState(side)]
  BY DEF Enrol, HasRoom
<1> HIDE DEF r
<1>5. /\ list' \in [Sides -> [Objects -> Seq(Tasks)]] /\ list'[side][o] = r
      /\ \A d \in Sides, p \in Objects : <<d, p>> # <<side, o>> => list'[d][p] = list[d][p]
  BY <1>1, <1>3, <1>4 DEF DynTypes
<1>6. /\ tstate' \in [Tasks -> {"Ready", "BlockedSend", "BlockedRecv"}] /\ tstate'[t] = BlockedState(side)
      /\ \A u \in Tasks : u # t => tstate'[u] = tstate[u]
  BY <1>1, <1>4 DEF DynTypes
<1> HIDE DEF side, o, s
<1>7. ASSUME NEW d \in Sides, NEW p \in Objects
      PROVE  /\ Len(list'[d][p]) <= MAX_WAITERS /\ NoRepeats(list'[d][p])
             /\ \A i \in DOMAIN list'[d][p] : Sleeps(list'[d][p][i], d, p)
  <2>1. CASE <<d, p>> = <<side, o>>
    <3>1. NoRepeats(s) /\ \A i \in 1 .. Len(s) : Sleeper(s[i], side, o)
      BY <1>1, <1>2 DEF ListsAreSleepers, s
    <3>2. Len(r) <= MAX_WAITERS
      BY <1>2, <1>3, <1>4, WaitersAssumption
    <3>3. \A i \in 1 .. Len(s) : s[i] # t
      BY <1>1, <3>1 DEF Sleeper
    <3>4. NoRepeats(r)
      BY <1>2, <1>3, <3>1, <3>3 DEF NoRepeats
    <3>5. Sleeps(t, side, o)
      BY <1>1, <1>6 DEF side, o
    <3>6. \A i \in 1 .. Len(s) : Sleeps(s[i], side, o)
      BY <1>2, <1>6, <3>1, <3>3 DEF Sleeper
    <3>7. \A i \in 1 .. Len(s) + 1 : Sleeps(r[i], side, o)
      BY <1>2, <1>3, <3>5, <3>6
    <3> QED
      BY <1>3, <1>5, <2>1, <3>2, <3>4, <3>7
  <2>2. CASE <<d, p>> # <<side, o>>
    <3>1. list[d][p] \in Seq(Tasks) /\ \A i \in DOMAIN list[d][p] : list[d][p][i] \in Tasks
      BY ElementOfSeq, LenProperties DEF DynTypes
    <3>2. \A i \in DOMAIN list[d][p] : Sleeper(list[d][p][i], d, p) /\ list[d][p][i] # t
      BY <1>1 DEF ListsAreSleepers, Sleeper
    <3>3. \A i \in DOMAIN list[d][p] : Sleeps(list[d][p][i], d, p)
      BY <1>6, <3>1, <3>2 DEF Sleeper
    <3> QED
      BY <1>5, <2>2, <3>3 DEF ListsAreSleepers
  <2> QED
    BY <2>1, <2>2
<1>8. ASSUME NEW u \in Tasks, tstate'[u] # "Ready"
      PROVE  /\ pc'[u] = "resume" /\ tstate'[u] = BlockedState(Side(call[u]))
             /\ \E i \in DOMAIN list'[Side(call[u])][call[u].obj] : list'[Side(call[u])][call[u].obj][i] = u
  <2>1. CASE u = t
    <3>1. pc'[t] = "resume"
      BY DEF DynTypes
    <3>2. Len(s) + 1 \in DOMAIN list'[side][o] /\ list'[side][o][Len(s) + 1] = t
      BY <1>2, <1>3, <1>5
    <3> QED
      BY <1>6, <2>1, <3>1, <3>2 DEF side, o
  <2>2. CASE u # t
    <3> DEFINE d == Side(call[u])
               p == call[u].obj
    <3>1. tstate[u] # "Ready" /\ tstate'[u] = tstate[u] /\ pc'[u] = pc[u]
      BY <1>6, <1>8, <2>2 DEF DynTypes
    <3>2. pc[u] = "resume" /\ tstate[u] = BlockedState(d) /\ \E i \in DOMAIN list[d][p] : list[d][p][i] = u
      BY <3>1 DEF ListsAreSleepers
    <3>3. d \in Sides /\ p \in Objects
      BY <3>2, CallKinds DEF CallsAt
    <3>4. PICK i \in DOMAIN list[d][p] : list[d][p][i] = u
      BY <3>2
    <3>5. i \in DOMAIN list'[d][p] /\ list'[d][p][i] = u
      <4>1. CASE d = side /\ p = o
        <5>1. i \in 1 .. Len(s) /\ s[i] = u
          BY <1>2, <3>4, <4>1 DEF s
        <5>2. i \in 1 .. Len(s) + 1 /\ r[i] = u
          BY <1>2, <1>3, <5>1
        <5> QED
          BY <1>3, <1>5, <4>1, <5>2
      <4>2. CASE ~(d = side /\ p = o)
        BY <1>5, <3>3, <3>4, <4>2
      <4> QED
        BY <4>1, <4>2
    <3> QED
      BY <3>1, <3>2, <3>5
  <2> QED
    BY <2>1, <2>2
<1>9. ListsAreSleepers'
  BY <1>7, <1>8 DEF ListsAreSleepers, Sleeper
<1> QED
  BY <1>1, <1>4, <1>5, <1>6, <1>9 DEF r, s, side, o

(* A list that a task is awake for does not name it: delisting is idle.    *)
LEMMA DelistIsIdle ==
  ASSUME ListsAreSleepers, DynTypes, NEW t \in Tasks, tstate[t] = "Ready",
         NEW side \in Sides, NEW o \in Objects, Delist(t, side, o)
  PROVE  list' = list
<1>1. t \notin Members(list[side][o])
  BY DEF ListsAreSleepers, Sleeper, Members
<1>2. Remove(list[side][o], t) = list[side][o]
  BY <1>1 DEF Remove
<1> QED
  BY <1>2 DEF Delist, DynTypes

(***************************************************************************)
(* Wakes owed to event groups.                                             *)
(***************************************************************************)

LEMMA OwedFinite == \A g : IsFiniteSet(Owed(g)) /\ Cardinality(Owed(g)) \in Nat
<1> SUFFICES ASSUME NEW g PROVE IsFiniteSet(Owed(g)) /\ Cardinality(Owed(g)) \in Nat
  OBVIOUS
<1>1. IsFiniteSet(Tasks) /\ IsFiniteSet(1 .. MAX_WAKE)
  BY WaitersAssumption, DynObjAssumption, FS_Interval
<1>2. IsFiniteSet(Tasks \X (1 .. MAX_WAKE))
  BY <1>1, FS_Product
<1>3. Owed(g) \in SUBSET (Tasks \X (1 .. MAX_WAKE))
  BY DEF Owed
<1>4. IsFiniteSet(Owed(g))
  BY <1>2, <1>3, FS_Subset
<1> QED
  BY <1>4, FS_CardinalityType

LEMMA OwedFiniteNext == \A g : IsFiniteSet(Owed(g)') /\ Cardinality(Owed(g)') \in Nat
<1> SUFFICES ASSUME NEW g PROVE IsFiniteSet(Owed(g)') /\ Cardinality(Owed(g)') \in Nat
  OBVIOUS
<1>1. IsFiniteSet(Tasks) /\ IsFiniteSet(1 .. MAX_WAKE)
  BY WaitersAssumption, DynObjAssumption, FS_Interval
<1>2. IsFiniteSet(Tasks \X (1 .. MAX_WAKE))
  BY <1>1, FS_Product
<1>3. Owed(g)' \in SUBSET (Tasks \X (1 .. MAX_WAKE))
  BY DEF Owed
<1>4. IsFiniteSet(Owed(g)')
  BY <1>2, <1>3, FS_Subset
<1> QED
  BY <1>4, FS_CardinalityType

(* Who sets bits owes a wake to every place of the list but the first.     *)
LEMMA OwedByOne ==
  ASSUME NEW t \in Tasks, NEW g, WaitsOn(t, "set", g)', wakes'[t] = MAX_WAKE - 1
  PROVE  MAX_WAKE - 1 <= Cardinality(Owed(g)')
<1> DEFINE f == [i \in 1 .. MAX_WAKE - 1 |-> <<t, i>>]
<1>0. MAX_WAKE \in Nat /\ MAX_WAKE >= 1
  BY DynObjAssumption
<1>1. \A i \in 1 .. MAX_WAKE - 1 : <<t, i>> \in Owed(g)'
  BY <1>0 DEF Owed
<1>2. f \in Injection(1 .. MAX_WAKE - 1, Owed(g)')
  <2>1. f \in [1 .. MAX_WAKE - 1 -> Owed(g)']
    BY <1>1
  <2>2. \A i, j \in 1 .. MAX_WAKE - 1 : f[i] = f[j] => i = j
    OBVIOUS
  <2> QED
    BY <2>1, <2>2 DEF Injection, IsInjective
<1>3. Cardinality(1 .. MAX_WAKE - 1) <= Cardinality(Owed(g)')
  BY <1>2, OwedFiniteNext, FS_Injection
<1>4. Cardinality(1 .. MAX_WAKE - 1) = MAX_WAKE - 1
  BY <1>0, FS_Interval
<1> QED
  BY <1>3, <1>4

LEMMA OwedKept ==
  ASSUME DynTypes, NEW g,
         \A u \in Tasks : WaitsOn(u, "set", g) /\ wakes[u] > 0 => call'[u] = call[u] /\ wakes'[u] = wakes[u]
  PROVE  /\ Cardinality(Owed(g)) <= Cardinality(Owed(g)')
         /\ Cardinality(Owed(g)) \in Nat /\ Cardinality(Owed(g)') \in Nat
<1>1. Owed(g) \in SUBSET (Owed(g)')
  <2> SUFFICES ASSUME NEW w \in Owed(g) PROVE w \in Owed(g)'
    OBVIOUS
  <2>1. w \in Tasks \X (1 .. MAX_WAKE) /\ WaitsOn(w[1], "set", g) /\ w[2] <= wakes[w[1]]
    BY DEF Owed
  <2>2. w[1] \in Tasks /\ w[2] \in Nat /\ w[2] > 0 /\ wakes[w[1]] \in Nat
    BY <2>1, DynObjAssumption DEF DynTypes
  <2>3. call'[w[1]] = call[w[1]] /\ wakes'[w[1]] = wakes[w[1]]
    BY <2>1, <2>2
  <2> QED
    BY <2>1, <2>3 DEF Owed, WaitsOn
<1> QED
  BY <1>1, OwedFinite, OwedFiniteNext, FS_Subset

(***************************************************************************)
(* A step: the tasks of M, which are awake, move; a task may be woken; the *)
(* resources of X are touched.                                             *)
(***************************************************************************)

Moved(M) ==
  /\ \A t \in M : tstate[t] = "Ready"
  /\ \A u \in Tasks \ M : call'[u] = call[u] /\ pc'[u] = pc[u]
ResourcesKept(X) ==
  \A o \in Objects \ X :
    /\ o \in Semaphores => count'[o] = count[o]
    /\ o \in Queues => len'[o] = len[o] /\ isr'[o] = isr[o]
    /\ o \in RMutexes => owner'[o] = owner[o]

(* Who is not waiting in its call is awake.                                *)
LEMMA MoverAwake ==
  ASSUME ListsAreSleepers, NEW t \in Tasks, pc[t] # "resume"
  PROVE  tstate[t] = "Ready"
  BY DEF ListsAreSleepers

LEMMA MovedSleepers == ASSUME NEW M, Moved(M) PROVE SleepersKeep
  BY DEF Moved, SleepersKeep

(* A step that neither wakes nor enrols.                                   *)
LEMMA QuietLists ==
  ASSUME Shape, NEW M, Moved(M), UNCHANGED <<tstate, list>>
  PROVE  ListsAreSleepers' /\ WakesOnly /\ SleepersKeep
<1>1. SleepersKeep
  BY MovedSleepers
<1> QED
  BY <1>1, ListsStill DEF Shape, WakesOnly

(* Nobody is listed: nobody sleeps.                                        *)
LEMMA NobodyListed ==
  ASSUME Shape, NEW side \in Sides, NEW o, list[side][o] = <<>>,
         NEW op, (op = "send") <=> (side = "send")
  PROVE  Asleep(op, o) = {}
<1> SUFFICES ASSUME NEW u \in Asleep(op, o) PROVE FALSE
  OBVIOUS
<1>1. u \in Tasks /\ tstate[u] # "Ready" /\ call[u].op = op /\ call[u].obj = o
  BY DEF Asleep, WaitsOn
<1>2. Side(call[u]) = side
  BY <1>1 DEF Side, Sides
<1>3. \E i \in DOMAIN list[side][o] : list[side][o][i] = u
  BY <1>1, <1>2 DEF Shape, ListsAreSleepers
<1> QED
  BY <1>3

(* A wake of one side of an object.                                        *)
LEMMA WakeStep ==
  ASSUME Shape, NEW M, Moved(M), NEW side \in Sides, NEW o \in Objects, WakeOne(side, o)
  PROVE  /\ ListsAreSleepers' /\ WakesOnly /\ SleepersKeep
         /\ tstate' \in [Tasks -> {"Ready", "BlockedSend", "BlockedRecv"}]
         /\ list' \in [Sides -> [Objects -> Seq(Tasks)]]
         /\ \A d \in Sides, p \in Objects : <<d, p>> # <<side, o>> => list'[d][p] = list[d][p]
         /\ \/ list[side][o] = <<>> /\ list'[side][o] = <<>>
            \/ \E w \in Tasks :
                 /\ list[side][o] # <<>> /\ w = list[side][o][1] /\ Sleeper(w, side, o)
                 /\ tstate'[w] = "Ready" /\ list'[side][o] = DropAt(list[side][o], 1)
<1> USE DEF Shape
<1>1. SleepersKeep
  BY MovedSleepers
<1>2. CASE list[side][o] = <<>> /\ UNCHANGED <<tstate, list>>
  <2>1. ListsAreSleepers' /\ WakesOnly
    BY <1>2, QuietLists
  <2> QED
    BY <1>1, <1>2, <2>1 DEF DynTypes
<1>3. ASSUME NEW w \in Tasks, list[side][o] # <<>>, w = list[side][o][1], Sleeper(w, side, o),
             tstate' = [tstate EXCEPT ![w] = "Ready"],
             list' = [list EXCEPT ![side][o] = DropAt(@, 1)]
      PROVE  /\ ListsAreSleepers' /\ WakesOnly
             /\ tstate' \in [Tasks -> {"Ready", "BlockedSend", "BlockedRecv"}]
             /\ list' \in [Sides -> [Objects -> Seq(Tasks)]]
             /\ tstate'[w] = "Ready" /\ list'[side][o] = DropAt(list[side][o], 1)
             /\ \A d \in Sides, p \in Objects : <<d, p>> # <<side, o>> => list'[d][p] = list[d][p]
  <2>1. /\ ListsAreSleepers' /\ WakesOnly
        /\ tstate' \in [Tasks -> {"Ready", "BlockedSend", "BlockedRecv"}]
        /\ list' \in [Sides -> [Objects -> Seq(Tasks)]]
    BY <1>1, <1>3, ListsWoken
  <2>2. tstate'[w] = "Ready" /\ list'[side][o] = DropAt(list[side][o], 1)
    BY <1>3 DEF DynTypes
  <2>3. \A d \in Sides, p \in Objects : <<d, p>> # <<side, o>> => list'[d][p] = list[d][p]
    BY <1>3 DEF DynTypes
  <2> QED
    BY <2>1, <2>2, <2>3
<1>4. \/ list[side][o] = <<>> /\ UNCHANGED <<tstate, list>>
      \/ \E w \in Tasks :
           /\ list[side][o] # <<>> /\ w = list[side][o][1] /\ Sleeper(w, side, o)
           /\ tstate' = [tstate EXCEPT ![w] = "Ready"]
           /\ list' = [list EXCEPT ![side][o] = DropAt(@, 1)]
  BY WakeTakesFirst
<1>5. CASE \E w \in Tasks :
           /\ list[side][o] # <<>> /\ w = list[side][o][1] /\ Sleeper(w, side, o)
           /\ tstate' = [tstate EXCEPT ![w] = "Ready"]
           /\ list' = [list EXCEPT ![side][o] = DropAt(@, 1)]
  <2>1. PICK w \in Tasks :
           /\ list[side][o] # <<>> /\ w = list[side][o][1] /\ Sleeper(w, side, o)
           /\ tstate' = [tstate EXCEPT ![w] = "Ready"]
           /\ list' = [list EXCEPT ![side][o] = DropAt(@, 1)]
    BY <1>5
  <2> QED
    BY <1>1, <1>3, <2>1
<1> QED
  BY <1>2, <1>4, <1>5

(* What those who do not move, or do not leave, still wait for.            *)
LEMMA MoverLeaves ==
  ASSUME NEW M, Moved(M), WakesOnly, NEW op, NEW o
  PROVE  /\ Asleep(op, o)' \subseteq Asleep(op, o)
         /\ Retrying(op, o) \ M \subseteq Retrying(op, o)'
         /\ \A w \in Asleep(op, o) : tstate'[w] = "Ready" => w \in Retrying(op, o)'
<1>1. ASSUME NEW u \in Asleep(op, o)' PROVE u \in Asleep(op, o)
  <2>1. u \in Tasks /\ tstate'[u] # "Ready" /\ call'[u] # NoCall /\ call'[u].op = op /\ call'[u].obj = o
    BY <1>1 DEF Asleep, WaitsOn
  <2>2. tstate[u] # "Ready"
    BY <2>1 DEF WakesOnly
  <2>3. call'[u] = call[u]
    BY <2>1, <2>2 DEF Moved
  <2> QED
    BY <2>1, <2>2, <2>3 DEF Asleep, WaitsOn
<1>2. ASSUME NEW u \in Retrying(op, o) \ M PROVE u \in Retrying(op, o)'
  <2>1. u \in Tasks /\ tstate[u] = "Ready" /\ call[u] # NoCall /\ call[u].op = op /\ call[u].obj = o
    BY <1>2 DEF Retrying, WaitsOn
  <2>2. tstate'[u] = "Ready" /\ call'[u] = call[u]
    BY <1>2, <2>1 DEF WakesOnly, Moved
  <2> QED
    BY <2>1, <2>2 DEF Retrying, WaitsOn
<1>3. ASSUME NEW w \in Asleep(op, o), tstate'[w] = "Ready" PROVE w \in Retrying(op, o)'
  <2>1. w \in Tasks /\ tstate[w] # "Ready" /\ call[w] # NoCall /\ call[w].op = op /\ call[w].obj = o
    BY <1>3 DEF Asleep, WaitsOn
  <2>2. call'[w] = call[w]
    BY <2>1 DEF Moved
  <2> QED
    BY <1>3, <2>1, <2>2 DEF Retrying, WaitsOn
<1> QED
  BY <1>1, <1>2, <1>3

(* Objects that nobody leaves and whose resources are as they were.        *)
LEMMA Bystanders ==
  ASSUME DynTypes, \A o \in Objects : NoneLostOn(o), NEW M, Moved(M), WakesOnly, NEW X,
         ResourcesKept(X),
         \A t \in M : call[t] = NoCall \/ call[t].obj \in X \/ call'[t] = call[t]
  PROVE  \A o \in Objects \ X : NoneLostOn(o)'
<1> SUFFICES ASSUME NEW o \in Objects \ X PROVE NoneLostOn(o)'
  OBVIOUS
<1>1. Undisturbed(o)
  <2> SUFFICES ASSUME NEW u \in Tasks
               PROVE  /\ call[u] # NoCall /\ call[u].obj = o => call'[u] = call[u] /\ tstate'[u] \in {tstate[u], "Ready"}
                      /\ tstate'[u] # "Ready" /\ call'[u].obj = o => call'[u] = call[u]
    BY DEF Undisturbed
  <2>1. tstate'[u] \in {tstate[u], "Ready"}
    BY DEF WakesOnly
  <2>2. CASE u \in M
    BY <2>1, <2>2 DEF Moved
  <2>3. CASE u \notin M
    BY <2>1, <2>3 DEF Moved
  <2> QED
    BY <2>2, <2>3
<1>2. /\ o \in Semaphores => count'[o] = count[o]
      /\ o \in Queues => len'[o] = len[o] /\ WakeDue(o)' = WakeDue(o)
      /\ o \in RMutexes => owner'[o] = owner[o]
  BY DEF ResourcesKept, WakeDue
<1> QED
  BY <1>1, <1>2, ObjectKept

(* The consumer's half: it takes one, and was on its way to it.            *)
LEMMA OneTaken ==
  ASSUME NEW t, Moved({t}), WakesOnly, NEW op, NEW o, NEW n \in Int, NEW m \in Int,
         Enough(op, o, n), m <= n - 1
  PROVE  Asleep(op, o)' # {} => m <= Cardinality(Retrying(op, o)')
<1>1. Asleep(op, o)' \subseteq Asleep(op, o) /\ Retrying(op, o) \ {t} \subseteq Retrying(op, o)'
  BY MoverLeaves
<1> QED
  BY <1>1, EnoughTaken

(* The producer's half: there is one more, and a sleeper is sent for it.   *)
LEMMA OneWoken ==
  ASSUME Shape, NEW M, Moved(M), NEW side \in Sides, NEW o \in Objects, WakeOne(side, o),
         NEW op, (op = "send") <=> (side = "send"),
         \A k \in Calls : k.obj = o /\ Side(k) = side => k.op = op,
         Retrying(op, o) \cap M = {}, NEW n \in Int, NEW m \in Int, Enough(op, o, n), m <= n + 1
  PROVE  Asleep(op, o)' # {} => m <= Cardinality(Retrying(op, o)')
<1>1. WakesOnly
  BY WakeStep
<1>2. Asleep(op, o)' \subseteq Asleep(op, o) /\ Retrying(op, o) \subseteq Retrying(op, o)'
  BY <1>1, MoverLeaves
<1>3. CASE list[side][o] = <<>>
  BY <1>2, <1>3, NobodyListed
<1>4. CASE list[side][o] # <<>>
  <2>1. PICK w \in Tasks : Sleeper(w, side, o) /\ tstate'[w] = "Ready"
    BY <1>4, WakeStep
  <2>2. call[w] \in Calls
    BY <2>1 DEF Sleeper, Shape, ListsAreSleepers, CallsAt
  <2>3. w \in Asleep(op, o)
    BY <2>1, <2>2, CallKinds DEF Sleeper, Asleep, WaitsOn
  <2>4. w \in Retrying(op, o)'
    BY <1>1, <2>1, <2>3, MoverLeaves
  <2> QED
    BY <1>2, <2>3, <2>4, EnoughWoken
<1> QED
  BY <1>3, <1>4

(* The groups in a step that sets no bits and makes no wake of a set().    *)
LEMMA GroupsKept ==
  ASSUME Shape, \A g \in Groups : EventsReach(g), NEW M, Moved(M), UNCHANGED wakes,
         \A t \in M : call[t] = NoCall \/ call[t].op # "set" \/ call'[t] = call[t],
         \A g \in Groups : bits'[g] \subseteq bits[g] /\ list'["recv"][g] = list["recv"][g]
  PROVE  \A g \in Groups : EventsReach(g)'
<1> SUFFICES ASSUME NEW g \in Groups PROVE EventsReach(g)'
  OBVIOUS
<1>1. SleepersKeep
  BY MovedSleepers
<1>2. \A u \in Tasks : WaitsOn(u, "set", g) => call'[u] = call[u]
  BY DEF WaitsOn, Moved
<1>3. /\ Cardinality(Owed(g)) <= Cardinality(Owed(g)')
      /\ Cardinality(Owed(g)) \in Nat /\ Cardinality(Owed(g)') \in Nat
  BY <1>2, OwedKept DEF Shape
<1> QED
  BY <1>1, <1>3, GroupKept

(***************************************************************************)
(* Steps that touch no resource.                                           *)
(***************************************************************************)

LEMMA QuietStep ==
  ASSUME DynInv, NEW M, Moved(M), UNCHANGED <<tstate, list, objVars, wakes>>, DynTypes', CallsAt',
         \A t \in M : \/ call[t] = NoCall \/ call'[t] = call[t]
                      \/ call[t].obj \in Timed /\ call[t].op # "set"
  PROVE  DynInv'
<1> USE DEF DynInv
<1>1. ListsAreSleepers' /\ WakesOnly
  BY QuietLists
<1>2. Shape'
  BY <1>1 DEF Shape
<1>3. IsrAtomic' /\ CountsAgree'
  BY DEF objVars, isrVars, IsrAtomic, CountsAgree, RecursionCounts, LenCountsItems
<1>4. ASSUME NEW o \in Objects PROVE NoneLostOn(o)'
  <2>1. CASE o \in Timed
    BY <2>1 DEF NoneLostOn
  <2>2. CASE o \notin Timed
    <3>1. ResourcesKept(Timed)
      BY DEF ResourcesKept, objVars, isrVars
    <3>2. \A p \in Objects \ Timed : NoneLostOn(p)'
      BY <1>1, <3>1, Bystanders DEF Shape
    <3> QED
      BY <2>2, <3>2
  <2> QED
    BY <2>1, <2>2
<1>5. \A g \in Groups : bits'[g] \subseteq bits[g] /\ list'["recv"][g] = list["recv"][g]
  BY DEF objVars
<1>6. \A g \in Groups : EventsReach(g)'
  BY <1>5, GroupsKept
<1> QED
  BY <1>2, <1>3, <1>4, <1>6

(* A task goes on to another place, or out of its call.                    *)
LEMMA CallsMove ==
  ASSUME DynTypes, CallsAt, NEW t \in Tasks,
         \A u \in Tasks \ {t} : call'[u] = call[u] /\ pc'[u] = pc[u],
         \/ pc'[t] = "idle" /\ call'[t] = NoCall
         \/ pc'[t] \in {"test", "resume", "check"} /\ call'[t] \in Calls
         \/ pc'[t] = "waking" /\ call'[t] \in Sets,
         \A u \in Tasks \ {t} : pc[u] = "release" =>
           owner'[call[u].obj] = owner[call[u].obj] /\ depth'[call[u].obj] = depth[call[u].obj]
  PROVE  CallsAt'
<1> SUFFICES ASSUME NEW u \in Tasks
             PROVE  /\ pc'[u] = "idle" => call'[u] = NoCall
                    /\ pc'[u] \in {"test", "resume", "check"} => call'[u] \in Calls
                    /\ pc'[u] = "release" =>
                         /\ call'[u] \in Unlocks /\ owner'[call'[u].obj] = u
                         /\ depth'[call'[u].obj] = 0
                    /\ pc'[u] = "waking" => call'[u] \in Sets
  BY DEF CallsAt
<1>1. CASE u = t
  BY <1>1
<1>2. CASE u # t
  BY <1>2 DEF CallsAt
<1> QED
  BY <1>1, <1>2

LEMMA StutterDyn == ASSUME DynInv, UNCHANGED vars PROVE DynInv'
<1> USE DEF vars, waiterVars
<1>1. Moved({})
  BY DEF Moved
<1>2. DynTypes' /\ CallsAt'
  BY DEF DynInv, Shape, DynTypes, CallsAt, objVars, isrVars
<1> QED
  BY <1>1, <1>2, QuietStep

LEMMA EnterDyn == ASSUME DynInv, NEW t \in Tasks, NEW k \in Calls, Enter(t, k) PROVE DynInv'
<1>1. /\ pc[t] = "idle" /\ pc' = [pc EXCEPT ![t] = "test"] /\ call' = [call EXCEPT ![t] = k]
      /\ UNCHANGED <<tstate, list, objVars, wakes>>
  BY DEF Enter, Goto, waiterVars
<1>2. tstate[t] = "Ready" /\ call[t] = NoCall
  BY <1>1, MoverAwake DEF DynInv, Shape, CallsAt
<1>3. Moved({t})
  BY <1>1, <1>2 DEF Moved, DynInv, Shape, DynTypes
<1>4. DynTypes'
  BY <1>1 DEF DynInv, Shape, DynTypes, objVars, isrVars
<1>5. CallsAt'
  BY <1>1 DEF DynInv, Shape, DynTypes, CallsAt, objVars, isrVars
<1> QED
  BY <1>1, <1>2, <1>3, <1>4, <1>5, QuietStep

LEMMA CannotDyn ==
  ASSUME DynInv, NEW t \in Tasks, pc[t] = "test", Goto(t, "check"),
         UNCHANGED <<tstate, list, objVars, call, wakes>>
  PROVE  DynInv'
<1>1. tstate[t] = "Ready" /\ pc' = [pc EXCEPT ![t] = "check"]
  BY MoverAwake DEF DynInv, Shape, Goto
<1>2. Moved({t})
  BY <1>1 DEF Moved, DynInv, Shape, DynTypes
<1>3. DynTypes'
  BY <1>1 DEF DynInv, Shape, DynTypes, objVars, isrVars
<1>4. CallsAt'
  BY <1>1 DEF DynInv, Shape, DynTypes, CallsAt, objVars, isrVars
<1> QED
  BY <1>2, <1>3, <1>4, QuietStep

LEMMA ResumeDyn == ASSUME DynInv, NEW t \in Tasks, Resume(t) PROVE DynInv'
<1>1. /\ pc[t] = "resume" /\ tstate[t] = "Ready" /\ pc' = [pc EXCEPT ![t] = "check"]
      /\ Delist(t, Side(call[t]), call[t].obj) /\ UNCHANGED <<tstate, objVars, call, wakes>>
  BY DEF Resume, Goto
<1>2. Side(call[t]) \in Sides /\ call[t].obj \in Objects
  BY <1>1, CallKinds DEF DynInv, Shape, CallsAt
<1>3. list' = list
  BY <1>1, <1>2, DelistIsIdle DEF DynInv, Shape
<1>4. Moved({t})
  BY <1>1 DEF Moved, DynInv, Shape, DynTypes
<1>5. DynTypes'
  BY <1>1, <1>3 DEF DynInv, Shape, DynTypes, objVars, isrVars
<1>6. CallsAt'
  BY <1>1 DEF DynInv, Shape, DynTypes, CallsAt, objVars, isrVars
<1> QED
  BY <1>1, <1>3, <1>4, <1>5, <1>6, QuietStep

(* Out of time: only a caller of an object with finite timeouts leaves.    *)
LEMMA CheckDyn == ASSUME DynInv, NEW t \in Tasks, Check(t) PROVE DynInv'
<1>1. /\ pc[t] = "check" /\ UNCHANGED <<tstate, list, objVars, wakes>>
      /\ \/ /\ call[t].finite /\ pc' = [pc EXCEPT ![t] = "idle"]
            /\ call' = [call EXCEPT ![t] = NoCall]
         \/ pc' = [pc EXCEPT ![t] = "test"] /\ call' = call
  BY DEF Check, Return, Goto, waiterVars
<1>2. tstate[t] = "Ready" /\ call[t] \in Calls
  BY <1>1, MoverAwake DEF DynInv, Shape, CallsAt
<1>3. Moved({t})
  BY <1>1, <1>2 DEF Moved, DynInv, Shape, DynTypes
<1>4. DynTypes'
  BY <1>1 DEF DynInv, Shape, DynTypes, objVars, isrVars
<1>5. CallsAt'
  <2>1. \/ pc'[t] = "idle" /\ call'[t] = NoCall
        \/ pc'[t] \in {"test", "resume", "check"} /\ call'[t] \in Calls
    BY <1>1, <1>2 DEF DynInv, Shape, DynTypes
  <2>2. \A u \in Tasks \ {t} : call'[u] = call[u] /\ pc'[u] = pc[u]
    BY <1>3 DEF Moved
  <2> QED
    BY <1>1, <2>1, <2>2, CallsMove DEF DynInv, Shape, objVars
<1>6. call'[t] = call[t] \/ (call[t].obj \in Timed /\ call[t].op # "set")
  BY <1>1, <1>2, CallKinds
<1> QED
  BY <1>1, <1>3, <1>4, <1>5, <1>6, QuietStep

LEMMA DeadlineDyn == ASSUME DynInv, NEW t \in Tasks, DeadlinePasses(t) PROVE DynInv'
<1>1. UNCHANGED <<tstate, list, objVars, call, pc, wakes>>
  BY DEF DeadlinePasses, waiterVars
<1>2. Moved({})
  BY <1>1 DEF Moved
<1>3. DynTypes' /\ CallsAt'
  BY <1>1 DEF DynInv, Shape, DynTypes, CallsAt, objVars, isrVars
<1> QED
  BY <1>1, <1>2, <1>3, QuietStep

(***************************************************************************)
(* Tests that succeed, and steps that wake nobody.                         *)
(***************************************************************************)

(* A call returns.                                                         *)
LEMMA ReturnMoves ==
  ASSUME DynInv, NEW t \in Tasks, pc[t] # "resume", Return(t)
  PROVE  /\ Moved({t}) /\ tstate[t] = "Ready"
         /\ call'[t] = NoCall /\ pc'[t] = "idle"
         /\ \A u \in Tasks \ {t} : call'[u] = call[u] /\ pc'[u] = pc[u]
         /\ call' \in [Tasks -> Calls \cup Unlocks \cup Sets \cup {NoCall}]
         /\ pc' \in [Tasks -> {"idle", "test", "resume", "check", "release", "waking"}]
<1>1. pc' = [pc EXCEPT ![t] = "idle"] /\ call' = [call EXCEPT ![t] = NoCall] /\ tstate[t] = "Ready"
  BY MoverAwake DEF Return, Goto, DynInv, Shape
<1>2. /\ call \in [Tasks -> Calls \cup Unlocks \cup Sets \cup {NoCall}]
      /\ pc \in [Tasks -> {"idle", "test", "resume", "check", "release", "waking"}]
  BY DEF DynInv, Shape, DynTypes
<1> QED
  BY <1>1, <1>2 DEF Moved

(* What is to show of a step of the tasks M on the object o.               *)
LEMMA StepDyn ==
  ASSUME DynInv, NEW M, Moved(M), WakesOnly, DynTypes', CallsAt', ListsAreSleepers',
         IsrAtomic', CountsAgree', NEW o, ResourcesKept({o}), NoneLostOn(o)',
         \A t \in M : call[t] = NoCall \/ call[t].obj = o \/ call'[t] = call[t],
         \A g \in Groups : EventsReach(g)'
  PROVE  DynInv'
<1>1. \A p \in Objects \ {o} : NoneLostOn(p)'
  BY Bystanders DEF DynInv, Shape
<1> QED
  BY <1>1 DEF DynInv, Shape

LEMMA TakeDyn == ASSUME DynInv, NEW t \in Tasks, TakeOk(t) PROVE DynInv'
<1>1. PICK s \in Semaphores : s = call[t].obj /\ s \in Objects
  BY CallKinds DEF DynInv, Shape, CallsAt, TakeOk
<1>2. /\ pc[t] = "test" /\ call[t].op = "take" /\ count[s] > 0
      /\ count' = [count EXCEPT ![s] = @ - 1] /\ Return(t)
      /\ UNCHANGED <<tstate, list, len, isr, isrLen, items, owner, depth, bits, held, wakes>>
  BY <1>1 DEF TakeOk, Available, waiterVars, isrVars
<1>3. /\ Moved({t}) /\ call'[t] = NoCall /\ pc'[t] = "idle"
      /\ \A u \in Tasks \ {t} : call'[u] = call[u] /\ pc'[u] = pc[u]
      /\ call' \in [Tasks -> Calls \cup Unlocks \cup Sets \cup {NoCall}]
      /\ pc' \in [Tasks -> {"idle", "test", "resume", "check", "release", "waking"}]
  BY <1>2, ReturnMoves
<1>4. count \in [Semaphores -> Nat]
  BY DEF DynInv, Shape, DynTypes
<1>5. /\ count' \in [Semaphores -> Nat] /\ count'[s] = count[s] - 1
      /\ \A o \in Semaphores \ {s} : count'[o] = count[o]
  BY <1>2, <1>4
<1>6. DynTypes'
  BY <1>2, <1>3, <1>5 DEF DynInv, Shape, DynTypes
<1>7. CallsAt'
  BY <1>2, <1>3, CallsMove DEF DynInv, Shape
<1>8. ListsAreSleepers' /\ WakesOnly
  BY <1>2, <1>3, QuietLists DEF DynInv
<1>9. IsrAtomic' /\ CountsAgree'
  BY <1>2 DEF DynInv, IsrAtomic, CountsAgree, RecursionCounts, LenCountsItems
<1>10. NoneLostOn(s)'
  <2>1. ASSUME s \notin Timed
        PROVE  Asleep("take", s)' # {} => count'[s] <= Cardinality(Retrying("take", s)')
    <3>1. Enough("take", s, count[s]) /\ count[s] \in Int /\ count'[s] \in Int /\ count'[s] <= count[s] - 1
      BY <1>1, <1>4, <1>5, <2>1 DEF DynInv, NoneLostOn
    <3> QED
      BY <1>3, <1>8, <3>1, OneTaken
  <2>2. s \notin Queues /\ s \notin RMutexes
    BY ObjectKinds
  <2> QED
    BY <2>1, <2>2 DEF NoneLostOn, Enough
<1>11. ResourcesKept({s})
  BY <1>2, <1>5 DEF ResourcesKept
<1>12. \A g \in Groups : EventsReach(g)'
  BY <1>2, <1>3, GroupsKept DEF DynInv
<1> QED
  BY <1>1, <1>3, <1>6, <1>7, <1>8, <1>9, <1>10, <1>11, <1>12, StepDyn

LEMMA LockDyn == ASSUME DynInv, NEW t \in Tasks, LockOk(t) PROVE DynInv'
<1>1. PICK m \in RMutexes : m = call[t].obj /\ m \in Objects
  BY CallKinds DEF DynInv, Shape, CallsAt, LockOk
<1>2. /\ pc[t] = "test" /\ call[t].op = "lock" /\ owner[m] \in {NoOwner, t}
      /\ owner' = [owner EXCEPT ![m] = t]
      /\ depth' = [depth EXCEPT ![m] = IF owner[m] = t THEN @ + 1 ELSE 1]
      /\ held' = [held EXCEPT ![m][t] = @ + 1] /\ Return(t)
      /\ UNCHANGED <<tstate, list, count, len, isr, isrLen, items, bits, wakes>>
  BY <1>1 DEF LockOk, Available, waiterVars, isrVars
<1>3. /\ Moved({t}) /\ call'[t] = NoCall /\ pc'[t] = "idle"
      /\ \A u \in Tasks \ {t} : call'[u] = call[u] /\ pc'[u] = pc[u]
      /\ call' \in [Tasks -> Calls \cup Unlocks \cup Sets \cup {NoCall}]
      /\ pc' \in [Tasks -> {"idle", "test", "resume", "check", "release", "waking"}]
  BY <1>2, ReturnMoves
<1>4. /\ owner \in [RMutexes -> Tasks \cup {NoOwner}] /\ depth \in [RMutexes -> Nat]
      /\ held \in [RMutexes -> [Tasks -> Nat]]
  BY DEF DynInv, Shape, DynTypes
<1>5. /\ owner' \in [RMutexes -> Tasks \cup {NoOwner}] /\ owner'[m] = t
      /\ \A o \in RMutexes \ {m} : owner'[o] = owner[o] /\ depth'[o] = depth[o] /\ held'[o] = held[o]
      /\ depth' \in [RMutexes -> Nat] /\ depth'[m] = (IF owner[m] = t THEN depth[m] + 1 ELSE 1)
      /\ held' \in [RMutexes -> [Tasks -> Nat]] /\ held'[m][t] = held[m][t] + 1
      /\ \A u \in Tasks \ {t} : held'[m][u] = held[m][u]
  BY <1>2, <1>4
<1>6. DynTypes'
  BY <1>2, <1>3, <1>5 DEF DynInv, Shape, DynTypes
<1>7. CallsAt'
  <2>1. ASSUME NEW u \in Tasks \ {t}, pc[u] = "release"
        PROVE  owner'[call[u].obj] = owner[call[u].obj] /\ depth'[call[u].obj] = depth[call[u].obj]
    <3>1. call[u].obj \in RMutexes /\ owner[call[u].obj] = u
      BY <2>1, OtherCalls DEF DynInv, Shape, CallsAt
    <3>2. call[u].obj # m
      BY <1>2, <3>1, DynObjAssumption
    <3> QED
      BY <1>5, <3>1, <3>2
  <2> QED
    BY <1>3, <2>1, CallsMove DEF DynInv, Shape
<1>8. ListsAreSleepers' /\ WakesOnly
  BY <1>2, <1>3, QuietLists DEF DynInv
<1>9. IsrAtomic' /\ LenCountsItems'
  BY <1>2 DEF DynInv, IsrAtomic, CountsAgree, LenCountsItems
<1>10. RecursionCounts'
  <2> SUFFICES ASSUME NEW o \in RMutexes, NEW u \in Tasks
               PROVE  held'[o][u] = IF owner'[o] = u THEN depth'[o] ELSE 0
    BY DEF RecursionCounts
  <2>1. held[o][u] = IF owner[o] = u THEN depth[o] ELSE 0
    BY DEF DynInv, CountsAgree, RecursionCounts
  <2>2. CASE o # m
    BY <1>5, <2>1, <2>2
  <2>3. CASE o = m /\ u = t
    BY <1>2, <1>4, <1>5, <2>1, <2>3, DynObjAssumption
  <2>4. CASE o = m /\ u # t
    BY <1>2, <1>5, <2>1, <2>4, DynObjAssumption
  <2> QED
    BY <2>2, <2>3, <2>4
<1>11. NoneLostOn(m)'
  <2>1. Unowned(m)' = 0
    BY <1>5, DynObjAssumption DEF Unowned
  <2>2. Asleep("lock", m)' # {} => 0 <= Cardinality(Retrying("lock", m)')
    BY EnoughOfNothing
  <2>3. m \notin Queues /\ m \notin Semaphores
    BY ObjectKinds
  <2> QED
    BY <2>1, <2>2, <2>3 DEF NoneLostOn, Enough
<1>12. ResourcesKept({m})
  BY <1>2, <1>5 DEF ResourcesKept
<1>13. \A g \in Groups : EventsReach(g)'
  BY <1>2, <1>3, GroupsKept DEF DynInv
<1>14. CountsAgree'
  BY <1>9, <1>10 DEF CountsAgree
<1> QED
  BY <1>1, <1>3, <1>6, <1>7, <1>8, <1>9, <1>11, <1>12, <1>13, <1>14, StepDyn

LEMMA WaitDyn == ASSUME DynInv, NEW t \in Tasks, WaitOk(t) PROVE DynInv'
<1>1. PICK g \in Groups : g = call[t].obj /\ g \in Objects
  BY CallKinds DEF DynInv, Shape, CallsAt, WaitOk
<1>2. /\ pc[t] = "test" /\ call[t].op = "wait" /\ Return(t)
      /\ bits' = IF call[t].clear THEN [bits EXCEPT ![g] = @ \ call[t].want] ELSE bits
      /\ UNCHANGED <<tstate, list, count, len, isr, isrLen, items, owner, depth, held, wakes>>
  BY <1>1 DEF WaitOk, waiterVars, isrVars
<1>3. /\ Moved({t}) /\ call'[t] = NoCall /\ pc'[t] = "idle"
      /\ \A u \in Tasks \ {t} : call'[u] = call[u] /\ pc'[u] = pc[u]
      /\ call' \in [Tasks -> Calls \cup Unlocks \cup Sets \cup {NoCall}]
      /\ pc' \in [Tasks -> {"idle", "test", "resume", "check", "release", "waking"}]
  BY <1>2, ReturnMoves
<1>4. bits \in [Groups -> SUBSET Bits]
  BY DEF DynInv, Shape, DynTypes
<1>5. bits' \in [Groups -> SUBSET Bits] /\ \A h \in Groups : bits'[h] \subseteq bits[h]
  BY <1>2, <1>4
<1>6. DynTypes'
  BY <1>2, <1>3, <1>5 DEF DynInv, Shape, DynTypes
<1>7. CallsAt'
  BY <1>2, <1>3, CallsMove DEF DynInv, Shape
<1>8. ListsAreSleepers' /\ WakesOnly
  BY <1>2, <1>3, QuietLists DEF DynInv
<1>9. IsrAtomic' /\ CountsAgree'
  BY <1>2 DEF DynInv, IsrAtomic, CountsAgree, RecursionCounts, LenCountsItems
<1>10. NoneLostOn(g)'
  BY ObjectKinds DEF NoneLostOn
<1>11. ResourcesKept({g})
  BY <1>2 DEF ResourcesKept
<1>12. \A h \in Groups : EventsReach(h)'
  BY <1>2, <1>3, <1>5, GroupsKept DEF DynInv
<1> QED
  BY <1>1, <1>3, <1>6, <1>7, <1>8, <1>9, <1>10, <1>11, <1>12, StepDyn

LEMMA ClearDyn == ASSUME DynInv, NEW g \in Groups, NEW b, Clear(g, b) PROVE DynInv'
<1>1. /\ bits' = [bits EXCEPT ![g] = @ \ b]
      /\ UNCHANGED <<tstate, list, count, len, isr, isrLen, items, owner, depth, held, call, pc, wakes>>
  BY DEF Clear, waiterVars, isrVars
<1>2. Moved({})
  BY <1>1 DEF Moved
<1>3. bits' \in [Groups -> SUBSET Bits] /\ \A h \in Groups : bits'[h] \subseteq bits[h]
  BY <1>1 DEF DynInv, Shape, DynTypes
<1>4. DynTypes' /\ CallsAt'
  BY <1>1, <1>3 DEF DynInv, Shape, DynTypes, CallsAt
<1>5. ListsAreSleepers' /\ WakesOnly
  BY <1>1, <1>2, QuietLists DEF DynInv
<1>6. IsrAtomic' /\ CountsAgree'
  BY <1>1 DEF DynInv, IsrAtomic, CountsAgree, RecursionCounts, LenCountsItems
<1>7. NoneLostOn(g)' /\ ResourcesKept({g})
  BY <1>1, ObjectKinds DEF NoneLostOn, ResourcesKept
<1>8. \A h \in Groups : EventsReach(h)'
  BY <1>1, <1>2, <1>3, GroupsKept DEF DynInv
<1> QED
  BY <1>2, <1>4, <1>5, <1>6, <1>7, <1>8, StepDyn

(* One level of a recursive mutex, which stays its owner's for now.        *)
LEMMA UnlockDyn == ASSUME DynInv, NEW t \in Tasks, NEW m \in RMutexes, Unlock(t, m) PROVE DynInv'
<1> DEFINE k == [op |-> "unlock", obj |-> m]
<1>1. /\ pc[t] = "idle" /\ owner[m] = t /\ depth[m] > 0
      /\ depth' = [depth EXCEPT ![m] = @ - 1] /\ held' = [held EXCEPT ![m][t] = @ - 1]
      /\ \/ depth[m] = 1 /\ call' = [call EXCEPT ![t] = k] /\ pc' = [pc EXCEPT ![t] = "release"]
         \/ call' = call /\ pc' = pc
      /\ UNCHANGED <<tstate, list, count, len, isr, isrLen, items, owner, bits, wakes>>
  BY DEF Unlock, Goto, waiterVars, isrVars
<1>2. tstate[t] = "Ready" /\ call[t] = NoCall /\ k \in Unlocks /\ k.obj = m
  BY <1>1, MoverAwake DEF DynInv, Shape, CallsAt, Unlocks
<1> HIDE DEF k
<1>3. /\ Moved({t})
      /\ call' \in [Tasks -> Calls \cup Unlocks \cup Sets \cup {NoCall}]
      /\ pc' \in [Tasks -> {"idle", "test", "resume", "check", "release", "waking"}]
      /\ \/ pc'[t] = "idle" /\ call'[t] = NoCall
         \/ depth[m] = 1 /\ pc'[t] = "release" /\ call'[t] = k
      /\ \A u \in Tasks \ {t} : call'[u] = call[u] /\ pc'[u] = pc[u]
  <2>1. /\ call \in [Tasks -> Calls \cup Unlocks \cup Sets \cup {NoCall}]
        /\ pc \in [Tasks -> {"idle", "test", "resume", "check", "release", "waking"}]
    BY DEF DynInv, Shape, DynTypes
  <2>2. CASE depth[m] = 1 /\ call' = [call EXCEPT ![t] = k] /\ pc' = [pc EXCEPT ![t] = "release"]
    BY <1>2, <2>1, <2>2 DEF Moved
  <2>3. CASE call' = call /\ pc' = pc
    BY <1>1, <1>2, <2>1, <2>3 DEF Moved
  <2> QED
    BY <1>1, <2>2, <2>3
<1>4. /\ depth \in [RMutexes -> Nat] /\ held \in [RMutexes -> [Tasks -> Nat]]
      /\ held[m][t] = depth[m]
  BY <1>1 DEF DynInv, Shape, DynTypes, CountsAgree, RecursionCounts
<1>5. /\ depth' \in [RMutexes -> Nat] /\ depth'[m] = depth[m] - 1
      /\ \A o \in RMutexes \ {m} : depth'[o] = depth[o] /\ held'[o] = held[o]
      /\ held' \in [RMutexes -> [Tasks -> Nat]] /\ held'[m][t] = held[m][t] - 1
      /\ \A u \in Tasks \ {t} : held'[m][u] = held[m][u]
  <2>1. held[m][t] - 1 \in Nat
    BY <1>1, <1>4
  <2> QED
    BY <1>1, <1>4, <2>1
<1>6. DynTypes'
  BY <1>1, <1>3, <1>5 DEF DynInv, Shape, DynTypes
<1>7. CallsAt'
  <2> SUFFICES ASSUME NEW u \in Tasks
               PROVE  /\ pc'[u] = "idle" => call'[u] = NoCall
                      /\ pc'[u] \in {"test", "resume", "check"} => call'[u] \in Calls
                      /\ pc'[u] = "release" =>
                           /\ call'[u] \in Unlocks /\ owner'[call'[u].obj] = u
                           /\ depth'[call'[u].obj] = 0
                      /\ pc'[u] = "waking" => call'[u] \in Sets
    BY DEF CallsAt
  <2>1. CASE u = t
    BY <1>1, <1>2, <1>3, <1>5, <2>1
  <2>2. CASE u # t
    <3>1. pc[u] = "release" => call[u].obj \in RMutexes /\ call[u].obj # m
      BY <1>1, <2>2, OtherCalls DEF DynInv, Shape, CallsAt
    <3> QED
      BY <1>1, <1>3, <1>5, <2>2, <3>1 DEF DynInv, Shape, CallsAt
  <2> QED
    BY <2>1, <2>2
<1>8. ListsAreSleepers' /\ WakesOnly
  BY <1>1, <1>3, QuietLists DEF DynInv
<1>9. IsrAtomic' /\ LenCountsItems'
  BY <1>1 DEF DynInv, IsrAtomic, CountsAgree, LenCountsItems
<1>10. RecursionCounts'
  <2> SUFFICES ASSUME NEW o \in RMutexes, NEW u \in Tasks
               PROVE  held'[o][u] = IF owner'[o] = u THEN depth'[o] ELSE 0
    BY DEF RecursionCounts
  <2>1. held[o][u] = IF owner[o] = u THEN depth[o] ELSE 0
    BY DEF DynInv, CountsAgree, RecursionCounts
  <2>2. CASE o # m
    BY <1>1, <1>5, <2>1, <2>2
  <2>3. CASE o = m
    BY <1>1, <1>4, <1>5, <2>1, <2>3
  <2> QED
    BY <2>2, <2>3
<1>11. CountsAgree'
  BY <1>9, <1>10 DEF CountsAgree
<1>12. \A o \in Objects : NoneLostOn(o)'
  <2>1. ResourcesKept({})
    BY <1>1 DEF ResourcesKept
  <2> QED
    BY <1>2, <1>3, <1>8, <2>1, Bystanders DEF DynInv, Shape
<1>13. \A g \in Groups : EventsReach(g)'
  BY <1>1, <1>2, <1>3, GroupsKept DEF DynInv
<1> QED
  BY <1>6, <1>7, <1>8, <1>9, <1>11, <1>12, <1>13 DEF DynInv, Shape

(* An interrupt handler reads the length ...                               *)
LEMMA IsrLoadDyn == ASSUME DynInv, NEW q \in Queues, IsrLoad(q) PROVE DynInv'
<1>1. /\ isr[q] = "idle" /\ len[q] < CAPACITY /\ isr' = [isr EXCEPT ![q] = "put"]
      /\ isrLen' = [isrLen EXCEPT ![q] = len[q]]
      /\ UNCHANGED <<tstate, list, count, len, items, owner, depth, bits, held, call, pc, wakes>>
  BY DEF IsrLoad, waiterVars
<1>2. Moved({})
  BY <1>1 DEF Moved
<1>3. /\ len \in [Queues -> 0 .. CAPACITY] /\ isr \in [Queues -> {"idle", "put", "wake"}]
      /\ isrLen \in [Queues -> Nat] /\ CAPACITY \in Nat
  BY DynObjAssumption DEF DynInv, Shape, DynTypes
<1>4. /\ isr' \in [Queues -> {"idle", "put", "wake"}] /\ isrLen' \in [Queues -> Nat]
      /\ isr'[q] = "put" /\ isrLen'[q] = len[q]
      /\ \A o \in Queues \ {q} : isr'[o] = isr[o] /\ isrLen'[o] = isrLen[o]
  BY <1>1, <1>3
<1>5. DynTypes' /\ CallsAt'
  BY <1>1, <1>4 DEF DynInv, Shape, DynTypes, CallsAt
<1>6. ListsAreSleepers' /\ WakesOnly
  BY <1>1, <1>2, QuietLists DEF DynInv
<1>7. CountsAgree'
  BY <1>1 DEF DynInv, CountsAgree, RecursionCounts, LenCountsItems
<1>8. IsrAtomic'
  BY <1>1, <1>4 DEF DynInv, IsrAtomic
<1>9. ASSUME NEW o \in Objects PROVE NoneLostOn(o)'
  <2>1. Undisturbed(o)
    BY <1>1 DEF Undisturbed
  <2>2. o \in Queues => WakeDue(o)' = WakeDue(o)
    BY <1>1, <1>4 DEF WakeDue
  <2> QED
    BY <1>1, <2>1, <2>2, ObjectKept DEF DynInv, Shape
<1>10. \A g \in Groups : EventsReach(g)'
  BY <1>1, <1>2, GroupsKept DEF DynInv
<1> QED
  BY <1>5, <1>6, <1>7, <1>8, <1>9, <1>10 DEF DynInv, Shape

(* ... and stores one more, with a wake due.                               *)
LEMMA IsrStoreDyn == ASSUME DynInv, NEW q \in Queues, IsrStore(q) PROVE DynInv'
<1>1. /\ isr[q] = "put" /\ len' = [len EXCEPT ![q] = isrLen[q] + 1]
      /\ items' = [items EXCEPT ![q] = @ + 1] /\ isr' = [isr EXCEPT ![q] = "wake"]
      /\ isrLen' = [isrLen EXCEPT ![q] = 0]
      /\ UNCHANGED <<tstate, list, count, owner, depth, bits, held, call, pc, wakes>>
  BY DEF IsrStore, waiterVars
<1>2. Moved({})
  BY <1>1 DEF Moved
<1>3. /\ len \in [Queues -> 0 .. CAPACITY] /\ isr \in [Queues -> {"idle", "put", "wake"}]
      /\ isrLen \in [Queues -> Nat] /\ items \in [Queues -> Int] /\ CAPACITY \in Nat
  BY DynObjAssumption DEF DynInv, Shape, DynTypes
<1>4. isrLen[q] = len[q] /\ len[q] < CAPACITY /\ isrLen[q] + 1 \in 0 .. CAPACITY
  BY <1>1, <1>3 DEF DynInv, IsrAtomic
<1>5. /\ isr' \in [Queues -> {"idle", "put", "wake"}] /\ isrLen' \in [Queues -> Nat]
      /\ len' \in [Queues -> 0 .. CAPACITY] /\ items' \in [Queues -> Int]
      /\ isr'[q] = "wake" /\ len'[q] = len[q] + 1 /\ items'[q] = items[q] + 1
      /\ \A o \in Queues \ {q} :
           isr'[o] = isr[o] /\ isrLen'[o] = isrLen[o] /\ len'[o] = len[o] /\ items'[o] = items[o]
  BY <1>1, <1>3, <1>4
<1>6. DynTypes' /\ CallsAt'
  BY <1>1, <1>5 DEF DynInv, Shape, DynTypes, CallsAt
<1>7. ListsAreSleepers' /\ WakesOnly
  BY <1>1, <1>2, QuietLists DEF DynInv
<1>8. CountsAgree' /\ IsrAtomic'
  BY <1>1, <1>5 DEF DynInv, CountsAgree, RecursionCounts, LenCountsItems, IsrAtomic
<1>9. NoneLostOn(q)'
  <2>1. \A op : Asleep(op, q)' \subseteq Asleep(op, q) /\ Retrying(op, q) \subseteq Retrying(op, q)'
    BY <1>2, <1>7, MoverLeaves
  <2>2. /\ len'[q] - 1 \in Int /\ CAPACITY - len'[q] \in Int
        /\ len'[q] - 1 = len[q] - 0 /\ CAPACITY - len'[q] <= CAPACITY - len[q]
        /\ CAPACITY - len[q] \in Int /\ WakeDue(q) = 0 /\ WakeDue(q)' = 1
    BY <1>1, <1>3, <1>5 DEF WakeDue
  <2>3. ASSUME q \notin Timed
        PROVE  /\ Asleep("recv", q)' # {} => len'[q] - 1 <= Cardinality(Retrying("recv", q)')
               /\ Asleep("send", q)' # {} => CAPACITY - len'[q] <= Cardinality(Retrying("send", q)')
    <3>1. q \in Objects /\ Enough("recv", q, len[q] - 0) /\ Enough("send", q, CAPACITY - len[q])
      BY <2>2, <2>3, ObjectKinds DEF DynInv, NoneLostOn
    <3>2. Asleep("recv", q)' # {} => len'[q] - 1 <= Cardinality(Retrying("recv", q)')
      BY <2>1, <2>2, <3>1, EnoughKept
    <3>3. Asleep("send", q)' # {} => CAPACITY - len'[q] <= Cardinality(Retrying("send", q)')
      BY <2>1, <2>2, <3>1, EnoughKept
    <3> QED
      BY <3>2, <3>3
  <2>4. q \notin Semaphores /\ q \notin RMutexes
    BY ObjectKinds
  <2> QED
    BY <2>2, <2>3, <2>4 DEF NoneLostOn, Enough
<1>10. ResourcesKept({q})
  BY <1>1, <1>5 DEF ResourcesKept
<1>11. \A g \in Groups : EventsReach(g)'
  BY <1>1, <1>2, GroupsKept DEF DynInv
<1> QED
  BY <1>2, <1>6, <1>7, <1>8, <1>9, <1>10, <1>11, StepDyn

(***************************************************************************)
(* Steps that wake somebody.                                               *)
(***************************************************************************)

(* What a wake leaves of the lists of event groups.                        *)
LEMMA GroupListsKept ==
  ASSUME NEW side \in Sides, NEW o, o \notin Groups,
         \A d \in Sides, p \in Objects : <<d, p>> # <<side, o>> => list'[d][p] = list[d][p]
  PROVE  \A g \in Groups : list'["recv"][g] = list["recv"][g]
  BY ObjectKinds DEF Sides

LEMMA GiveDyn == ASSUME DynInv, NEW s \in Semaphores, Give(s) PROVE DynInv'
<1>1. /\ count' = [count EXCEPT ![s] = @ + 1] /\ WakeOne("recv", s)
      /\ UNCHANGED <<len, isr, isrLen, items, owner, depth, bits, held, call, pc, wakes>>
  BY DEF Give, isrVars
<1>2. Moved({}) /\ "recv" \in Sides /\ s \in Objects /\ s \notin Groups
  BY <1>1, ObjectKinds DEF Moved, Sides
<1>3. /\ ListsAreSleepers' /\ WakesOnly
      /\ tstate' \in [Tasks -> {"Ready", "BlockedSend", "BlockedRecv"}]
      /\ list' \in [Sides -> [Objects -> Seq(Tasks)]]
      /\ \A d \in Sides, p \in Objects : <<d, p>> # <<"recv", s>> => list'[d][p] = list[d][p]
  BY <1>1, <1>2, WakeStep DEF DynInv
<1>4. count \in [Semaphores -> Nat]
  BY DEF DynInv, Shape, DynTypes
<1>5. /\ count' \in [Semaphores -> Nat] /\ count'[s] = count[s] + 1
      /\ \A o \in Semaphores \ {s} : count'[o] = count[o]
  BY <1>1, <1>4
<1>6. DynTypes'
  BY <1>1, <1>3, <1>5 DEF DynInv, Shape, DynTypes
<1>7. CallsAt'
  BY <1>1 DEF DynInv, Shape, CallsAt
<1>8. IsrAtomic' /\ CountsAgree'
  BY <1>1 DEF DynInv, IsrAtomic, CountsAgree, RecursionCounts, LenCountsItems
<1>9. NoneLostOn(s)'
  <2>1. ASSUME s \notin Timed
        PROVE  Asleep("take", s)' # {} => count'[s] <= Cardinality(Retrying("take", s)')
    <3>1. Enough("take", s, count[s]) /\ count[s] \in Int /\ count'[s] \in Int /\ count'[s] <= count[s] + 1
      BY <1>2, <1>4, <1>5, <2>1 DEF DynInv, NoneLostOn
    <3>2. \A k \in Calls : k.obj = s /\ Side(k) = "recv" => k.op = "take"
      BY CallKinds, ObjectKinds
    <3> QED
      BY <1>1, <1>2, <3>1, <3>2, OneWoken DEF DynInv
  <2>2. s \notin Queues /\ s \notin RMutexes
    BY ObjectKinds
  <2> QED
    BY <2>1, <2>2 DEF NoneLostOn, Enough
<1>10. ResourcesKept({s})
  BY <1>1, <1>5 DEF ResourcesKept
<1>11. \A g \in Groups : list'["recv"][g] = list["recv"][g]
  BY <1>2, <1>3, GroupListsKept
<1>12. \A g \in Groups : EventsReach(g)'
  BY <1>1, <1>2, <1>11, GroupsKept DEF DynInv
<1> QED
  BY <1>2, <1>3, <1>6, <1>7, <1>8, <1>9, <1>10, <1>12, StepDyn

(* The handler's wake: what was due is made.                               *)
LEMMA IsrWakeDyn == ASSUME DynInv, NEW q \in Queues, IsrWake(q) PROVE DynInv'
<1>1. /\ isr[q] = "wake" /\ isr' = [isr EXCEPT ![q] = "idle"] /\ WakeOne("recv", q)
      /\ UNCHANGED <<count, len, isrLen, items, owner, depth, bits, held, call, pc, wakes>>
  BY DEF IsrWake
<1>2. Moved({}) /\ "recv" \in Sides /\ q \in Objects /\ q \notin Groups
  BY <1>1, ObjectKinds DEF Moved, Sides
<1>3. /\ ListsAreSleepers' /\ WakesOnly
      /\ tstate' \in [Tasks -> {"Ready", "BlockedSend", "BlockedRecv"}]
      /\ list' \in [Sides -> [Objects -> Seq(Tasks)]]
      /\ \A d \in Sides, p \in Objects : <<d, p>> # <<"recv", q>> => list'[d][p] = list[d][p]
  BY <1>1, <1>2, WakeStep DEF DynInv
<1>4. /\ isr' \in [Queues -> {"idle", "put", "wake"}] /\ isr'[q] = "idle"
      /\ \A o \in Queues \ {q} : isr'[o] = isr[o]
      /\ len[q] \in Int /\ CAPACITY - len[q] \in Int
  BY <1>1, DynObjAssumption DEF DynInv, Shape, DynTypes
<1>5. DynTypes'
  BY <1>1, <1>3, <1>4 DEF DynInv, Shape, DynTypes
<1>6. CallsAt'
  BY <1>1 DEF DynInv, Shape, CallsAt
<1>7. IsrAtomic' /\ CountsAgree'
  BY <1>1, <1>4 DEF DynInv, IsrAtomic, CountsAgree, RecursionCounts, LenCountsItems
<1>8. NoneLostOn(q)'
  <2>1. WakeDue(q) = 1 /\ WakeDue(q)' = 0
    BY <1>1, <1>4 DEF WakeDue
  <2>2. ASSUME q \notin Timed
        PROVE  /\ Asleep("recv", q)' # {} => len[q] <= Cardinality(Retrying("recv", q)')
               /\ Asleep("send", q)' # {} => CAPACITY - len[q] <= Cardinality(Retrying("send", q)')
    <3>1. Enough("recv", q, len[q] - 1) /\ Enough("send", q, CAPACITY - len[q])
      BY <1>2, <2>1, <2>2 DEF DynInv, NoneLostOn
    <3>2. \A k \in Calls : k.obj = q /\ Side(k) = "recv" => k.op = "recv"
      BY CallKinds, ObjectKinds DEF Side
    <3>3. len[q] - 1 \in Int /\ len[q] <= len[q] - 1 + 1
      BY <1>4
    <3>4. Asleep("recv", q)' # {} => len[q] <= Cardinality(Retrying("recv", q)')
      BY <1>1, <1>2, <1>4, <3>1, <3>2, <3>3, OneWoken DEF DynInv
    <3>5. Asleep("send", q)' \subseteq Asleep("send", q) /\ Retrying("send", q) \subseteq Retrying("send", q)'
      BY <1>2, <1>3, MoverLeaves
    <3>6. Asleep("send", q)' # {} => CAPACITY - len[q] <= Cardinality(Retrying("send", q)')
      BY <1>4, <3>1, <3>5, EnoughKept
    <3> QED
      BY <3>4, <3>6
  <2>3. q \notin Semaphores /\ q \notin RMutexes
    BY ObjectKinds
  <2> QED
    BY <1>1, <1>4, <2>1, <2>2, <2>3 DEF NoneLostOn, Enough
<1>9. ResourcesKept({q})
  BY <1>1, <1>4 DEF ResourcesKept
<1>10. \A g \in Groups : list'["recv"][g] = list["recv"][g]
  BY <1>2, <1>3, GroupListsKept
<1>11. \A g \in Groups : EventsReach(g)'
  BY <1>1, <1>2, <1>10, GroupsKept DEF DynInv
<1> QED
  BY <1>2, <1>3, <1>5, <1>6, <1>7, <1>8, <1>9, <1>11, StepDyn

(* An item is sent, and a receiver woken; or received, and a sender woken. *)
LEMMA TransferDyn ==
  ASSUME DynInv, ~ISR_REMOTE, NEW t \in Tasks, SendOk(t) \/ RecvOk(t) PROVE DynInv'
<1>1. PICK q \in Queues : q = call[t].obj /\ q \in Objects /\ q \notin Groups
  BY CallKinds, ObjectKinds DEF DynInv, Shape, CallsAt, SendOk, RecvOk
<1>2. PICK n \in Int, i \in Int, side \in Sides :
        /\ \/ n = len[q] + 1 /\ i = items[q] + 1 /\ len[q] < CAPACITY /\ side = "recv" /\ call[t].op = "send"
           \/ n = len[q] - 1 /\ i = items[q] - 1 /\ len[q] > 0 /\ side = "send" /\ call[t].op = "recv"
        /\ len' = [len EXCEPT ![q] = n] /\ items' = [items EXCEPT ![q] = i] /\ pc[t] = "test"
        /\ WakeOne(side, q) /\ Return(t) /\ \A o \in Queues : isr[o] # "put"
        /\ UNCHANGED <<count, isr, isrLen, owner, depth, bits, held, wakes>>
  <2>1. len[q] \in Int /\ items[q] \in Int /\ "send" \in Sides /\ "recv" \in Sides
    BY DEF DynInv, Shape, DynTypes, Sides
  <2>2. CASE SendOk(t)
    <3>1. /\ len' = [len EXCEPT ![q] = @ + 1] /\ items' = [items EXCEPT ![q] = @ + 1]
          /\ pc[t] = "test" /\ call[t].op = "send" /\ len[q] < CAPACITY
          /\ WakeOne("recv", q) /\ Return(t) /\ \A o \in Queues : isr[o] # "put"
          /\ UNCHANGED <<count, isr, isrLen, owner, depth, bits, held, wakes>>
      BY <1>1, <2>2 DEF SendOk, Available, NotInterrupted, isrVars
    <3>2. len[q] + 1 \in Int /\ items[q] + 1 \in Int
      BY <2>1
    <3> QED
      BY <2>1, <3>1, <3>2
  <2>3. CASE RecvOk(t)
    <3>1. /\ len' = [len EXCEPT ![q] = @ - 1] /\ items' = [items EXCEPT ![q] = @ - 1]
          /\ pc[t] = "test" /\ call[t].op = "recv" /\ len[q] > 0
          /\ WakeOne("send", q) /\ Return(t) /\ \A o \in Queues : isr[o] # "put"
          /\ UNCHANGED <<count, isr, isrLen, owner, depth, bits, held, wakes>>
      BY <1>1, <2>3 DEF RecvOk, Available, NotInterrupted, isrVars
    <3>2. len[q] - 1 \in Int /\ items[q] - 1 \in Int
      BY <2>1
    <3> QED
      BY <2>1, <3>1, <3>2
  <2> QED
    BY <2>2, <2>3
<1>3. /\ Moved({t}) /\ call'[t] = NoCall /\ pc'[t] = "idle"
      /\ \A u \in Tasks \ {t} : call'[u] = call[u] /\ pc'[u] = pc[u]
      /\ call' \in [Tasks -> Calls \cup Unlocks \cup Sets \cup {NoCall}]
      /\ pc' \in [Tasks -> {"idle", "test", "resume", "check", "release", "waking"}]
  BY <1>2, ReturnMoves
<1>4. /\ ListsAreSleepers' /\ WakesOnly
      /\ tstate' \in [Tasks -> {"Ready", "BlockedSend", "BlockedRecv"}]
      /\ list' \in [Sides -> [Objects -> Seq(Tasks)]]
      /\ \A d \in Sides, p \in Objects : <<d, p>> # <<side, q>> => list'[d][p] = list[d][p]
  BY <1>1, <1>2, <1>3, WakeStep DEF DynInv
<1>5. len \in [Queues -> 0 .. CAPACITY] /\ items \in [Queues -> Int] /\ CAPACITY \in Nat
  BY DynObjAssumption DEF DynInv, Shape, DynTypes
<1>6. n \in 0 .. CAPACITY
  BY <1>2, <1>5
<1>7. /\ len' \in [Queues -> 0 .. CAPACITY] /\ items' \in [Queues -> Int]
      /\ len'[q] = n /\ items'[q] = i
      /\ \A o \in Queues \ {q} : len'[o] = len[o] /\ items'[o] = items[o]
  BY <1>2, <1>5, <1>6
<1>8. DynTypes'
  BY <1>2, <1>3, <1>4, <1>7 DEF DynInv, Shape, DynTypes
<1>9. CallsAt'
  BY <1>2, <1>3, CallsMove DEF DynInv, Shape
<1>10. IsrAtomic' /\ CountsAgree'
  BY <1>2, <1>7 DEF DynInv, IsrAtomic, CountsAgree, RecursionCounts, LenCountsItems
<1>11. ASSUME q \notin Timed, NEW op \in {"send", "recv"}, NEW a \in Int, NEW b \in Int, Enough(op, q, a),
              op = call[t].op => b <= a - 1, op # call[t].op => b <= a + 1
       PROVE  Asleep(op, q)' # {} => b <= Cardinality(Retrying(op, q)')
  <2>1. CASE op = call[t].op
    BY <1>3, <1>4, <1>11, <2>1, OneTaken
  <2>2. CASE op # call[t].op
    <3>1. (op = "send") <=> (side = "send")
      BY <1>2, <2>2, <1>11 DEF Sides
    <3>2. \A k \in Calls : k.obj = q /\ Side(k) = side => k.op = op
      BY <1>2, <1>11, <2>2, CallKinds, ObjectKinds DEF Side
    <3>3. Retrying(op, q) \cap {t} = {}
      BY <2>2 DEF Retrying, WaitsOn
    <3> QED
      BY <1>1, <1>2, <1>3, <1>11, <2>2, <3>1, <3>2, <3>3, OneWoken DEF DynInv
  <2> QED
    BY <2>1, <2>2
<1>12. NoneLostOn(q)'
  <2> DEFINE d == WakeDue(q)
  <2>1. d \in {0, 1} /\ WakeDue(q)' = d
    BY <1>2 DEF WakeDue
  <2> HIDE DEF d
  <2>2. ASSUME q \notin Timed
        PROVE  /\ Asleep("recv", q)' # {} => n - d <= Cardinality(Retrying("recv", q)')
               /\ Asleep("send", q)' # {} => CAPACITY - n <= Cardinality(Retrying("send", q)')
    <3>1. Enough("recv", q, len[q] - d) /\ Enough("send", q, CAPACITY - len[q])
      BY <1>1, <2>2 DEF DynInv, NoneLostOn, d
    <3>2. len[q] - d \in Int /\ CAPACITY - len[q] \in Int /\ n - d \in Int /\ CAPACITY - n \in Int
      BY <1>5, <2>1
    <3>3. /\ "recv" = call[t].op => n - d <= (len[q] - d) - 1
          /\ "recv" # call[t].op => n - d <= (len[q] - d) + 1
          /\ "send" = call[t].op => CAPACITY - n <= (CAPACITY - len[q]) - 1
          /\ "send" # call[t].op => CAPACITY - n <= (CAPACITY - len[q]) + 1
      BY <1>2, <1>5, <2>1
    <3>4. Asleep("recv", q)' # {} => n - d <= Cardinality(Retrying("recv", q)')
      BY <1>11, <2>2, <3>1, <3>2, <3>3
    <3>5. Asleep("send", q)' # {} => CAPACITY - n <= Cardinality(Retrying("send", q)')
      BY <1>11, <2>2, <3>1, <3>2, <3>3
    <3> QED
      BY <3>4, <3>5
  <2>3. q \notin Semaphores /\ q \notin RMutexes
    BY ObjectKinds
  <2> QED
    BY <1>7, <2>1, <2>2, <2>3 DEF NoneLostOn, Enough
<1>13. ResourcesKept({q})
  BY <1>2, <1>7 DEF ResourcesKept
<1>14. \A g \in Groups : list'["recv"][g] = list["recv"][g]
  BY <1>1, <1>4, GroupListsKept
<1>15. \A g \in Groups : EventsReach(g)'
  BY <1>2, <1>3, <1>14, GroupsKept DEF DynInv
<1> QED
  BY <1>1, <1>3, <1>4, <1>8, <1>9, <1>10, <1>12, <1>13, <1>15, StepDyn

(* The last level is given back, and a waiter woken.                       *)
LEMMA ReleaseDyn == ASSUME DynInv, NEW t \in Tasks, Release(t) PROVE DynInv'
<1>1. PICK m \in RMutexes :
        /\ m = call[t].obj /\ m \in Objects /\ m \notin Groups /\ call[t].op = "unlock"
        /\ owner[m] = t /\ depth[m] = 0
  BY OtherCalls, ObjectKinds DEF DynInv, Shape, CallsAt, Release
<1>2. /\ pc[t] = "release" /\ owner' = [owner EXCEPT ![m] = NoOwner] /\ WakeOne("recv", m) /\ Return(t)
      /\ UNCHANGED <<count, len, isr, isrLen, items, depth, bits, held, wakes>>
  BY <1>1 DEF Release, isrVars
<1>3. /\ Moved({t}) /\ call'[t] = NoCall /\ pc'[t] = "idle"
      /\ \A u \in Tasks \ {t} : call'[u] = call[u] /\ pc'[u] = pc[u]
      /\ call' \in [Tasks -> Calls \cup Unlocks \cup Sets \cup {NoCall}]
      /\ pc' \in [Tasks -> {"idle", "test", "resume", "check", "release", "waking"}]
  BY <1>2, ReturnMoves
<1>4. /\ ListsAreSleepers' /\ WakesOnly
      /\ tstate' \in [Tasks -> {"Ready", "BlockedSend", "BlockedRecv"}]
      /\ list' \in [Sides -> [Objects -> Seq(Tasks)]]
      /\ \A d \in Sides, p \in Objects : <<d, p>> # <<"recv", m>> => list'[d][p] = list[d][p]
      /\ "recv" \in Sides
  <2>1. "recv" \in Sides
    BY DEF Sides
  <2> QED
    BY <1>1, <1>2, <1>3, <2>1, WakeStep DEF DynInv
<1>5. /\ owner' \in [RMutexes -> Tasks \cup {NoOwner}] /\ owner'[m] = NoOwner
      /\ \A o \in RMutexes \ {m} : owner'[o] = owner[o]
  BY <1>2 DEF DynInv, Shape, DynTypes
<1>6. DynTypes'
  BY <1>2, <1>3, <1>4, <1>5 DEF DynInv, Shape, DynTypes
<1>7. CallsAt'
  <2>1. ASSUME NEW u \in Tasks \ {t}, pc[u] = "release"
        PROVE  owner'[call[u].obj] = owner[call[u].obj] /\ depth'[call[u].obj] = depth[call[u].obj]
    <3>1. call[u].obj \in RMutexes /\ owner[call[u].obj] = u
      BY <2>1, OtherCalls DEF DynInv, Shape, CallsAt
    <3> QED
      BY <1>1, <1>2, <1>5, <3>1
  <2> QED
    BY <1>3, <2>1, CallsMove DEF DynInv, Shape
<1>8. IsrAtomic' /\ LenCountsItems'
  BY <1>2 DEF DynInv, IsrAtomic, CountsAgree, LenCountsItems
<1>9. RecursionCounts'
  <2> SUFFICES ASSUME NEW o \in RMutexes, NEW u \in Tasks
               PROVE  held'[o][u] = IF owner'[o] = u THEN depth'[o] ELSE 0
    BY DEF RecursionCounts
  <2>1. held[o][u] = IF owner[o] = u THEN depth[o] ELSE 0
    BY DEF DynInv, CountsAgree, RecursionCounts
  <2>2. CASE o # m
    BY <1>2, <1>5, <2>1, <2>2
  <2>3. CASE o = m
    BY <1>1, <1>2, <1>5, <2>1, <2>3, DynObjAssumption
  <2> QED
    BY <2>2, <2>3
<1>10. NoneLostOn(m)'
  <2>1. Unowned(m) = 0 /\ Unowned(m)' = 1
    BY <1>1, <1>5, DynObjAssumption DEF Unowned
  <2>2. ASSUME m \notin Timed
        PROVE  Asleep("lock", m)' # {} => 1 <= Cardinality(Retrying("lock", m)')
    <3>1. Enough("lock", m, 0)
      BY <1>1, <2>1, <2>2 DEF DynInv, NoneLostOn
    <3>2. \A k \in Calls : k.obj = m /\ Side(k) = "recv" => k.op = "lock"
      BY CallKinds, ObjectKinds
    <3>3. Retrying("lock", m) \cap {t} = {}
      BY <1>1 DEF Retrying, WaitsOn
    <3>4. Shape /\ 0 \in Int /\ 1 \in Int /\ 1 <= 0 + 1 /\ (("lock" = "send") <=> ("recv" = "send"))
      BY DEF DynInv
    <3>5. Moved({t}) /\ WakeOne("recv", m) /\ m \in Objects /\ "recv" \in Sides
      BY <1>1, <1>2, <1>3, <1>4
    <3> QED
      BY <3>1, <3>2, <3>3, <3>4, <3>5, OneWoken
  <2>3. m \notin Semaphores /\ m \notin Queues
    BY ObjectKinds
  <2> QED
    BY <2>1, <2>2, <2>3 DEF NoneLostOn, Enough
<1>11. ResourcesKept({m})
  BY <1>2, <1>5 DEF ResourcesKept
<1>12. \A g \in Groups : list'["recv"][g] = list["recv"][g]
  BY <1>1, <1>4, GroupListsKept
<1>13. \A g \in Groups : EventsReach(g)'
  BY <1>1, <1>2, <1>3, <1>12, GroupsKept DEF DynInv
<1>14. CountsAgree' /\ \A u \in {t} : call[u] = NoCall \/ call[u].obj = m \/ call'[u] = call[u]
  BY <1>1, <1>8, <1>9 DEF CountsAgree
<1>15. Moved({t}) /\ WakesOnly /\ ListsAreSleepers' /\ IsrAtomic'
  BY <1>3, <1>4, <1>8
<1> QED
  BY <1>6, <1>7, <1>10, <1>11, <1>13, <1>14, <1>15, StepDyn

(* Bits are set and the first waiter woken; there are wakes for the rest.  *)
LEMMA SetDyn ==
  ASSUME DynInv, NEW t \in Tasks, NEW g \in Groups, NEW b \in SUBSET Bits, Set(t, g, b) PROVE DynInv'
<1> DEFINE k == [op |-> "set", obj |-> g]
<1>1. /\ pc[t] = "idle" /\ bits' = [bits EXCEPT ![g] = @ \cup b] /\ WakeOne("recv", g)
      /\ wakes' = [wakes EXCEPT ![t] = MAX_WAKE - 1]
      /\ call' = [call EXCEPT ![t] = k] /\ pc' = [pc EXCEPT ![t] = "waking"]
      /\ UNCHANGED <<count, len, isr, isrLen, items, owner, depth, held>>
  BY DEF Set, Goto, isrVars
<1>2. /\ tstate[t] = "Ready" /\ call[t] = NoCall /\ k \in Sets /\ k.op = "set" /\ k.obj = g /\ k # NoCall
      /\ "recv" \in Sides /\ g \in Objects
  <2>1. k \in Sets
    BY DEF Sets
  <2> QED
    BY <1>1, <2>1, MoverAwake, OtherCalls, ObjectKinds DEF DynInv, Shape, CallsAt, Sides
<1> HIDE DEF k
<1>3. /\ Moved({t}) /\ call'[t] = k /\ pc'[t] = "waking"
      /\ call' \in [Tasks -> Calls \cup Unlocks \cup Sets \cup {NoCall}]
      /\ pc' \in [Tasks -> {"idle", "test", "resume", "check", "release", "waking"}]
      /\ \A u \in Tasks \ {t} : call'[u] = call[u] /\ pc'[u] = pc[u]
  BY <1>1, <1>2 DEF Moved, DynInv, Shape, DynTypes
<1>4. /\ ListsAreSleepers' /\ WakesOnly /\ SleepersKeep
      /\ tstate' \in [Tasks -> {"Ready", "BlockedSend", "BlockedRecv"}]
      /\ list' \in [Sides -> [Objects -> Seq(Tasks)]]
      /\ \A d \in Sides, p \in Objects : <<d, p>> # <<"recv", g>> => list'[d][p] = list[d][p]
      /\ \/ list["recv"][g] = <<>> /\ list'["recv"][g] = <<>>
         \/ list["recv"][g] # <<>> /\ list'["recv"][g] = DropAt(list["recv"][g], 1)
  BY <1>1, <1>2, <1>3, WakeStep DEF DynInv
<1>5. /\ bits' \in [Groups -> SUBSET Bits] /\ \A h \in Groups \ {g} : bits'[h] = bits[h]
      /\ wakes' \in [Tasks -> 0 .. MAX_WAKE] /\ wakes'[t] = MAX_WAKE - 1
      /\ \A u \in Tasks \ {t} : wakes'[u] = wakes[u]
  <2>1. MAX_WAKE - 1 \in 0 .. MAX_WAKE
    BY DynObjAssumption
  <2> QED
    BY <1>1, <2>1 DEF DynInv, Shape, DynTypes
<1>6. DynTypes'
  BY <1>1, <1>3, <1>4, <1>5 DEF DynInv, Shape, DynTypes
<1>7. CallsAt'
  BY <1>1, <1>2, <1>3, CallsMove DEF DynInv, Shape
<1>8. IsrAtomic' /\ CountsAgree'
  BY <1>1 DEF DynInv, IsrAtomic, CountsAgree, RecursionCounts, LenCountsItems
<1>9. NoneLostOn(g)' /\ ResourcesKept({g})
  BY <1>1, ObjectKinds DEF NoneLostOn, ResourcesKept
<1>10. EventsReach(g)'
  <2> SUFFICES ASSUME NEW i \in DOMAIN list'["recv"][g] PROVE i <= Cardinality(Owed(g)')
    BY DEF EventsReach
  <2>1. list["recv"][g] \in Seq(Tasks) /\ Len(list["recv"][g]) <= MAX_WAITERS /\ Len(list["recv"][g]) \in Nat
    BY <1>2, LenProperties DEF DynInv, Shape, DynTypes, ListsAreSleepers
  <2>2. list["recv"][g] # <<>> /\ list'["recv"][g] = DropAt(list["recv"][g], 1)
    BY <1>4
  <2>3. i \in 1 .. Len(list["recv"][g]) - 1
    BY <2>1, <2>2, DropFirst
  <2>4. WaitsOn(t, "set", g)'
    BY <1>2, <1>3 DEF WaitsOn
  <2>5. MAX_WAKE - 1 <= Cardinality(Owed(g)') /\ Cardinality(Owed(g)') \in Nat
    BY <1>5, <2>4, OwedByOne, OwedFiniteNext
  <2> QED
    BY <2>1, <2>3, <2>5, DynObjAssumption, WaitersAssumption
<1>11. ASSUME NEW h \in Groups, h # g PROVE EventsReach(h)'
  <2>1. h \in Objects /\ list'["recv"][h] = list["recv"][h] /\ bits'[h] \subseteq bits[h]
    BY <1>2, <1>4, <1>5, <1>11, ObjectKinds
  <2>2. \A u \in Tasks : WaitsOn(u, "set", h) => call'[u] = call[u] /\ wakes'[u] = wakes[u]
    BY <1>2, <1>3, <1>5 DEF WaitsOn
  <2>3. /\ Cardinality(Owed(h)) <= Cardinality(Owed(h)')
        /\ Cardinality(Owed(h)) \in Nat /\ Cardinality(Owed(h)') \in Nat
    BY <2>2, OwedKept DEF DynInv, Shape
  <2> QED
    BY <1>4, <2>1, <2>3, GroupKept DEF DynInv
<1>12. Moved({t}) /\ WakesOnly /\ ListsAreSleepers' /\ \A h \in Groups : EventsReach(h)'
  BY <1>3, <1>4, <1>10, <1>11
<1> QED
  BY <1>2, <1>6, <1>7, <1>8, <1>9, <1>12, StepDyn

(* The next of them is woken, or the last has been.                        *)
LEMMA SetWakesDyn == ASSUME DynInv, NEW t \in Tasks, SetWakesNext(t) PROVE DynInv'
<1>1. PICK g \in Groups : g = call[t].obj /\ call[t].op = "set" /\ call[t] # NoCall /\ g \in Objects
  BY OtherCalls, ObjectKinds DEF DynInv, Shape, CallsAt, SetWakesNext
<1>2. pc[t] = "waking" /\ UNCHANGED <<count, len, isr, isrLen, items, owner, depth, bits, held>>
  BY DEF SetWakesNext, objVars, isrVars
<1>3. tstate[t] = "Ready" /\ "recv" \in Sides /\ wakes \in [Tasks -> 0 .. MAX_WAKE] /\ MAX_WAKE \in Nat
  BY <1>2, MoverAwake, DynObjAssumption DEF DynInv, Shape, Sides, DynTypes
<1>4. IsrAtomic' /\ CountsAgree'
  BY <1>2 DEF DynInv, IsrAtomic, CountsAgree, RecursionCounts, LenCountsItems
<1>5. NoneLostOn(g)' /\ ResourcesKept({g})
  BY <1>2, ObjectKinds DEF NoneLostOn, ResourcesKept
<1>6. CASE wakes[t] > 0
  <2>1. /\ WakeOne("recv", g) /\ wakes' = [wakes EXCEPT ![t] = @ - 1] /\ call' = call /\ pc' = pc
    BY <1>1, <1>6 DEF SetWakesNext
  <2>2. Moved({t})
    BY <1>3, <2>1 DEF Moved
  <2>3. /\ ListsAreSleepers' /\ WakesOnly /\ SleepersKeep
        /\ tstate' \in [Tasks -> {"Ready", "BlockedSend", "BlockedRecv"}]
        /\ list' \in [Sides -> [Objects -> Seq(Tasks)]]
        /\ \A d \in Sides, p \in Objects : <<d, p>> # <<"recv", g>> => list'[d][p] = list[d][p]
        /\ \/ list["recv"][g] = <<>> /\ list'["recv"][g] = <<>>
           \/ list["recv"][g] # <<>> /\ list'["recv"][g] = DropAt(list["recv"][g], 1)
    BY <1>1, <1>3, <2>1, <2>2, WakeStep DEF DynInv
  <2>4. /\ wakes' \in [Tasks -> 0 .. MAX_WAKE] /\ wakes'[t] = wakes[t] - 1
        /\ \A u \in Tasks \ {t} : wakes'[u] = wakes[u]
    BY <1>3, <1>6, <2>1
  <2>5. DynTypes'
    BY <1>2, <2>1, <2>3, <2>4 DEF DynInv, Shape, DynTypes
  <2>6. CallsAt'
    BY <1>2, <2>1 DEF DynInv, Shape, CallsAt
  <2>7. EventsReach(g)'
    <3> DEFINE s == list["recv"][g]
               x == <<t, wakes[t]>>
    <3> SUFFICES ASSUME NEW i \in DOMAIN list'["recv"][g], Satisfied(call[list["recv"][g][i]])'
                 PROVE  i <= Cardinality(Owed(g)')
      BY DEF EventsReach
    <3>1. s # <<>> /\ list'["recv"][g] = DropAt(s, 1) /\ s \in Seq(Tasks)
      BY <1>1, <1>3, <2>3 DEF DynInv, Shape, DynTypes
    <3>2. i \in 1 .. Len(s) - 1 /\ list'["recv"][g][i] = s[i + 1] /\ i + 1 \in DOMAIN s
      BY <3>1, DropFirst, LenProperties
    <3>3. Satisfied(call[s[i + 1]])
      BY <1>2, <2>1, <3>2 DEF Satisfied
    <3>4. i + 1 <= Cardinality(Owed(g))
      BY <3>2, <3>3 DEF DynInv, EventsReach
    <3>5. Owed(g) \ {x} \in SUBSET (Owed(g)')
      <4> SUFFICES ASSUME NEW w \in Owed(g), w # x PROVE w \in Owed(g)'
        OBVIOUS
      <4>1. w \in Tasks \X (1 .. MAX_WAKE) /\ WaitsOn(w[1], "set", g) /\ w[2] <= wakes[w[1]]
        BY DEF Owed
      <4>2. w[2] <= wakes'[w[1]]
        <5>1. CASE w[1] = t
          <6>1. w[2] # wakes[t] /\ w[2] \in Nat /\ wakes[t] \in Nat
            BY <1>3, <4>1, <5>1
          <6> QED
            BY <2>4, <4>1, <5>1, <6>1
        <5>2. CASE w[1] # t
          BY <2>4, <4>1, <5>2
        <5> QED
          BY <5>1, <5>2
      <4> QED
        BY <2>1, <4>1, <4>2 DEF Owed, WaitsOn
    <3>6. IsFiniteSet(Owed(g)) /\ Cardinality(Owed(g)) \in Nat /\ IsFiniteSet(Owed(g)') /\ Cardinality(Owed(g)') \in Nat
      BY OwedFinite, OwedFiniteNext
    <3> HIDE DEF x
    <3>7. Cardinality(Owed(g) \ {x}) >= Cardinality(Owed(g)) - 1 /\ Cardinality(Owed(g) \ {x}) \in Int
      <4>1. Cardinality(Owed(g) \ {x}) =
              IF x \in Owed(g) THEN Cardinality(Owed(g)) - 1 ELSE Cardinality(Owed(g))
        BY <3>6, FS_RemoveElement
      <4> QED
        BY <3>6, <4>1
    <3>8. Cardinality(Owed(g) \ {x}) <= Cardinality(Owed(g)')
      BY <3>5, <3>6, FS_Subset
    <3>9. i \in Nat
      BY <3>1, <3>2, LenProperties
    <3> QED
      BY <3>4, <3>6, <3>7, <3>8, <3>9
  <2>8. ASSUME NEW h \in Groups, h # g PROVE EventsReach(h)'
    <3>1. h \in Objects /\ list'["recv"][h] = list["recv"][h] /\ bits'[h] \subseteq bits[h]
      BY <1>2, <1>3, <2>3, <2>8, ObjectKinds
    <3>2. \A u \in Tasks : WaitsOn(u, "set", h) => call'[u] = call[u] /\ wakes'[u] = wakes[u]
      BY <1>1, <2>1, <2>4, <2>8 DEF WaitsOn
    <3>3. /\ Cardinality(Owed(h)) <= Cardinality(Owed(h)')
          /\ Cardinality(Owed(h)) \in Nat /\ Cardinality(Owed(h)') \in Nat
      BY <3>2, OwedKept DEF DynInv, Shape
    <3> QED
      BY <2>3, <3>1, <3>3, GroupKept DEF DynInv
  <2>9. WakesOnly /\ ListsAreSleepers' /\ \A h \in Groups : EventsReach(h)'
    BY <2>3, <2>7, <2>8
  <2> QED
    BY <1>1, <1>4, <1>5, <2>2, <2>5, <2>6, <2>9, StepDyn
<1>7. CASE ~(wakes[t] > 0)
  <2>1. Return(t) /\ UNCHANGED <<tstate, list, wakes>>
    BY <1>7 DEF SetWakesNext
  <2>2. /\ Moved({t}) /\ call'[t] = NoCall /\ pc'[t] = "idle"
        /\ \A u \in Tasks \ {t} : call'[u] = call[u] /\ pc'[u] = pc[u]
        /\ call' \in [Tasks -> Calls \cup Unlocks \cup Sets \cup {NoCall}]
        /\ pc' \in [Tasks -> {"idle", "test", "resume", "check", "release", "waking"}]
    BY <1>2, <2>1, ReturnMoves
  <2>3. ListsAreSleepers' /\ WakesOnly /\ SleepersKeep
    BY <2>1, <2>2, QuietLists DEF DynInv
  <2>4. DynTypes'
    BY <1>2, <2>1, <2>2 DEF DynInv, Shape, DynTypes
  <2>5. CallsAt'
    BY <1>2, <2>2, CallsMove DEF DynInv, Shape
  <2>6. ASSUME NEW h \in Groups PROVE EventsReach(h)'
    <3>1. \A u \in Tasks : WaitsOn(u, "set", h) /\ wakes[u] > 0 => call'[u] = call[u] /\ wakes'[u] = wakes[u]
      BY <1>7, <2>1, <2>2
    <3>2. /\ Cardinality(Owed(h)) <= Cardinality(Owed(h)')
          /\ Cardinality(Owed(h)) \in Nat /\ Cardinality(Owed(h)') \in Nat
      BY <3>1, OwedKept DEF DynInv, Shape
    <3> QED
      BY <1>2, <2>1, <2>3, <3>2, GroupKept DEF DynInv
  <2> QED
    BY <1>1, <1>4, <1>5, <2>2, <2>3, <2>4, <2>5, <2>6, StepDyn
<1> QED
  BY <1>6, <1>7

(***************************************************************************)
(* The test fails: there is nothing to be had by this call, and it enrols. *)
(***************************************************************************)

LEMMA EnrolDyn ==
  ASSUME DynInv, NEW t \in Tasks, pc[t] = "test", ~Available(t),
         Enrol(t, Side(call[t]), call[t].obj, FALSE), Goto(t, "resume"),
         UNCHANGED <<objVars, call, wakes>>
  PROVE  DynInv'
<1>1. /\ call[t] \in Calls /\ call' = call /\ pc' = [pc EXCEPT ![t] = "resume"]
      /\ UNCHANGED <<count, len, isr, isrLen, items, owner, depth, bits, held, wakes>>
  BY DEF DynInv, Shape, CallsAt, Goto, objVars, isrVars
<1>2. PICK p \in Objects, side \in Sides : p = call[t].obj /\ side = Side(call[t])
  BY <1>1, CallKinds
<1>3. /\ ListsAreSleepers'
      /\ tstate' \in [Tasks -> {"Ready", "BlockedSend", "BlockedRecv"}]
      /\ list' \in [Sides -> [Objects -> Seq(Tasks)]]
      /\ tstate[t] = "Ready"
      /\ list' = [list EXCEPT ![side][p] = Append(@, t)]
      /\ tstate' = [tstate EXCEPT ![t] = BlockedState(side)]
  BY <1>1, <1>2, ListsEnrol DEF DynInv, Shape
<1>4. SleepersKeep
  BY <1>1, <1>3 DEF SleepersKeep, DynInv, Shape, DynTypes
<1>5. \A u \in Tasks \ {t} : tstate'[u] = tstate[u]
  BY <1>3 DEF DynInv, Shape, DynTypes
<1>6. DynTypes'
  BY <1>1, <1>3 DEF DynInv, Shape, DynTypes
<1>7. CallsAt'
  BY <1>1 DEF DynInv, Shape, DynTypes, CallsAt
<1>8. IsrAtomic' /\ CountsAgree'
  BY <1>1 DEF DynInv, IsrAtomic, CountsAgree, RecursionCounts, LenCountsItems
<1>9. ASSUME NEW o \in Objects \ {p} PROVE NoneLostOn(o)'
  <2>1. Undisturbed(o)
    BY <1>1, <1>2, <1>5 DEF Undisturbed
  <2>2. o \in Queues => WakeDue(o)' = WakeDue(o)
    BY <1>1 DEF WakeDue
  <2> QED
    BY <1>1, <2>1, <2>2, ObjectKept DEF DynInv, Shape
<1>10. NoneLostOn(p)'
  <2>1. ASSUME p \in Semaphores PROVE count'[p] = 0
    <3>1. call[t].op = "take" /\ count[p] \in Nat
      BY <1>1, <1>2, <2>1, CallKinds, ObjectKinds DEF DynInv, Shape, DynTypes
    <3> QED
      BY <1>1, <1>2, <3>1 DEF Available
  <2>2. ASSUME p \in RMutexes PROVE Unowned(p)' = 0
    <3>1. call[t].op = "lock"
      BY <1>1, <1>2, <2>2, CallKinds, ObjectKinds
    <3> QED
      BY <1>1, <1>2, <3>1 DEF Available, Unowned
  <2>3. \A op : 0 <= Cardinality(Retrying(op, p)')
    BY RetryingFiniteNext
  <2>4. ASSUME p \in Queues \ Timed
        PROVE  /\ Asleep("recv", p)' # {} => len[p] - WakeDue(p) <= Cardinality(Retrying("recv", p)')
               /\ Asleep("send", p)' # {} => CAPACITY - len[p] <= Cardinality(Retrying("send", p)')
    <3>1. /\ len[p] \in 0 .. CAPACITY /\ CAPACITY \in Nat /\ WakeDue(p) \in {0, 1}
          /\ Enough("recv", p, len[p] - WakeDue(p)) /\ Enough("send", p, CAPACITY - len[p])
      BY <2>4, DynObjAssumption DEF DynInv, Shape, DynTypes, NoneLostOn, WakeDue
    <3>2. ASSUME NEW op, op # call[t].op
          PROVE  Asleep(op, p)' \subseteq Asleep(op, p) /\ Retrying(op, p) \subseteq Retrying(op, p)'
      BY <1>1, <1>5, <3>2 DEF Asleep, Retrying, WaitsOn
    <3>3. CASE call[t].op = "send"
      <4>1. CAPACITY - len[p] <= 0
        BY <1>2, <3>1, <3>3 DEF Available
      <4>2. Asleep("recv", p)' # {} => len[p] - WakeDue(p) <= Cardinality(Retrying("recv", p)')
        <5>1. Asleep("recv", p)' \subseteq Asleep("recv", p) /\ Retrying("recv", p) \subseteq Retrying("recv", p)'
          BY <3>2, <3>3
        <5>2. len[p] - WakeDue(p) \in Int /\ len[p] - WakeDue(p) <= len[p] - WakeDue(p)
          BY <3>1
        <5> QED
          BY <3>1, <5>1, <5>2, EnoughKept
      <4>3. CAPACITY - len[p] \in Int
        BY <3>1
      <4>4. Asleep("send", p)' # {} => CAPACITY - len[p] <= Cardinality(Retrying("send", p)')
        BY <4>1, <4>3, EnoughOfNothing
      <4> QED
        BY <4>2, <4>4
    <3>4. CASE call[t].op = "recv"
      <4>1. len[p] - WakeDue(p) <= 0 /\ len[p] - WakeDue(p) \in Int
        BY <1>2, <3>1, <3>4 DEF Available
      <4>2. Asleep("recv", p)' # {} => len[p] - WakeDue(p) <= Cardinality(Retrying("recv", p)')
        BY <4>1, EnoughOfNothing
      <4>3. Asleep("send", p)' # {} => CAPACITY - len[p] <= Cardinality(Retrying("send", p)')
        <5>1. Asleep("send", p)' \subseteq Asleep("send", p) /\ Retrying("send", p) \subseteq Retrying("send", p)'
          BY <3>2, <3>4
        <5>2. CAPACITY - len[p] \in Int /\ CAPACITY - len[p] <= CAPACITY - len[p]
          BY <3>1
        <5> QED
          BY <3>1, <5>1, <5>2, EnoughKept
      <4> QED
        BY <4>2, <4>3
    <3> QED
      BY <1>1, <1>2, <2>4, <3>3, <3>4, CallKinds, ObjectKinds
  <2>5. p \in Queues => len'[p] = len[p] /\ WakeDue(p)' = WakeDue(p)
    BY <1>1 DEF WakeDue
  <2> QED
    BY <2>1, <2>2, <2>3, <2>4, <2>5 DEF NoneLostOn, Enough
<1>11. ASSUME NEW g \in Groups PROVE EventsReach(g)'
  <2>1. \A u \in Tasks : WaitsOn(u, "set", g) /\ wakes[u] > 0 => call'[u] = call[u] /\ wakes'[u] = wakes[u]
    BY <1>1
  <2>2. /\ Cardinality(Owed(g)) <= Cardinality(Owed(g)')
        /\ Cardinality(Owed(g)) \in Nat /\ Cardinality(Owed(g)') \in Nat
    BY <2>1, OwedKept DEF DynInv, Shape
  <2>3. g \in Objects /\ "recv" \in Sides
    BY ObjectKinds DEF Sides
  <2>4. CASE <<side, p>> # <<"recv", g>>
    <3>1. list'["recv"][g] = list["recv"][g]
      BY <1>3, <2>3, <2>4 DEF DynInv, Shape, DynTypes
    <3> QED
      BY <1>1, <1>4, <2>2, <3>1, GroupKept DEF DynInv
  <2>5. CASE side = "recv" /\ p = g
    <3> DEFINE s == list["recv"][g]
    <3>1. s \in Seq(Tasks) /\ DOMAIN s = 1 .. Len(s) /\ Len(s) \in Nat
      BY <2>3, LenProperties DEF DynInv, Shape, DynTypes
    <3>2. list'["recv"][g] = Append(s, t)
      BY <1>3, <2>3, <2>5 DEF DynInv, Shape, DynTypes
    <3>3. /\ DOMAIN Append(s, t) = 1 .. Len(s) + 1 /\ Append(s, t)[Len(s) + 1] = t
          /\ \A i \in 1 .. Len(s) : Append(s, t)[i] = s[i]
      BY <3>1, AppendProperties, LenProperties
    <3>4. ~Satisfied(call[t])
      <4>1. call[t].op = "wait"
        BY <1>1, <1>2, <2>5, CallKinds, ObjectKinds
      <4> QED
        BY <4>1 DEF Available
    <3> SUFFICES ASSUME NEW i \in DOMAIN list'["recv"][g], Satisfied(call[list["recv"][g][i]])'
                 PROVE  i <= Cardinality(Owed(g)')
      BY DEF EventsReach
    <3>5. Satisfied(call[list'["recv"][g][i]])
      BY <1>1 DEF Satisfied
    <3>6. i \in 1 .. Len(s) /\ Satisfied(call[s[i]])
      BY <3>1, <3>2, <3>3, <3>4, <3>5
    <3>7. i <= Cardinality(Owed(g))
      BY <3>1, <3>6 DEF DynInv, EventsReach
    <3> QED
      BY <2>2, <3>1, <3>6, <3>7
  <2> QED
    BY <2>4, <2>5
<1> QED
  BY <1>3, <1>6, <1>7, <1>8, <1>9, <1>10, <1>11 DEF DynInv, Shape

LEMMA TestFailsDyn == ASSUME DynInv, NEW t \in Tasks, TestFails(t) PROVE DynInv'
<1>1. pc[t] = "test" /\ ~Available(t) /\ UNCHANGED <<objVars, call, wakes>>
  BY DEF TestFails
<1>2. CASE Enrol(t, Side(call[t]), call[t].obj, FALSE) /\ Goto(t, "resume")
  BY <1>1, <1>2, EnrolDyn
<1>3. CASE CannotEnrol(t, Side(call[t]), call[t].obj, FALSE) /\ Goto(t, "check")
  <2>1. UNCHANGED <<tstate, list>>
    BY <1>3 DEF CannotEnrol
  <2> QED
    BY <1>1, <1>3, <2>1, CannotDyn
<1> QED
  BY <1>2, <1>3 DEF TestFails

LEMMA InitDyn == Init => DynInv
<1> SUFFICES ASSUME Init PROVE DynInv
  OBVIOUS
<1> USE DEF Init, WaitersInit
<1>1. DynTypes
  BY DynObjAssumption DEF DynTypes
<1>2. CallsAt /\ IsrAtomic /\ CountsAgree
  BY DynObjAssumption DEF CallsAt, IsrAtomic, CountsAgree, RecursionCounts, LenCountsItems
<1>3. \A side \in Sides, o \in Objects : list[side][o] = <<>>
  OBVIOUS
<1>4. ListsAreSleepers
  <2>1. \A side \in Sides, o \in Objects : Len(list[side][o]) = 0 /\ DOMAIN list[side][o] = {}
    BY <1>3
  <2>2. \A t \in Tasks : tstate[t] = "Ready"
    OBVIOUS
  <2> QED
    BY <2>1, <2>2, WaitersAssumption DEF ListsAreSleepers, NoRepeats
<1>5. \A op, o : Asleep(op, o) = {}
  BY DEF Asleep
<1>6. \A o \in Objects : NoneLostOn(o)
  BY <1>5 DEF NoneLostOn, Enough
<1>7. \A g \in Groups : EventsReach(g)
  BY <1>3, ObjectKinds DEF EventsReach, Sides
<1> QED
  BY <1>1, <1>2, <1>4, <1>6, <1>7 DEF DynInv, Shape

LEMMA NextDyn == ASSUME ~ISR_REMOTE, DynInv, [Next]_vars PROVE DynInv'
<1>1. ASSUME NEW t \in Tasks, Proceed(t) PROVE DynInv'
  BY <1>1, TakeDyn, TransferDyn, LockDyn, WaitDyn, TestFailsDyn, ResumeDyn, CheckDyn, ReleaseDyn,
     SetWakesDyn DEF Proceed
<1>2. CASE Next
  BY <1>1, <1>2, EnterDyn, DeadlineDyn, UnlockDyn, SetDyn, ClearDyn, GiveDyn, IsrLoadDyn, IsrStoreDyn,
     IsrWakeDyn DEF Next, Using
<1> QED
  BY <1>2, StutterDyn

(* What the invariant says of the objects.                                 *)
LEMMA DynInvRight == ASSUME DynInv PROVE ObjectsRight
<1>1. NoLostPermit
  BY ObjectKinds DEF NoLostPermit, DynInv, NoneLostOn, Enough
<1>2. NoLostItem
  <2> SUFFICES ASSUME NEW q \in Queues \ Timed
               PROVE  /\ Asleep("recv", q) # {} => len[q] <= Cardinality(Retrying("recv", q)) + WakeDue(q)
                      /\ Asleep("send", q) # {} => CAPACITY - len[q] <= Cardinality(Retrying("send", q))
    BY DEF NoLostItem, WakeDue
  <2>1. Enough("recv", q, len[q] - WakeDue(q)) /\ Enough("send", q, CAPACITY - len[q])
    BY ObjectKinds DEF DynInv, NoneLostOn
  <2>2. Cardinality(Retrying("recv", q)) \in Nat /\ len[q] \in Int /\ WakeDue(q) \in Int
    BY RetryingFinite, DynObjAssumption DEF DynInv, Shape, DynTypes, WakeDue
  <2> QED
    BY <2>1, <2>2 DEF Enough
<1>3. NoLostUnlock
  <2> SUFFICES ASSUME NEW m \in RMutexes \ Timed, Asleep("lock", m) # {}, owner[m] = NoOwner
               PROVE  Retrying("lock", m) # {}
    BY DEF NoLostUnlock
  <2>1. 1 <= Cardinality(Retrying("lock", m))
    BY ObjectKinds DEF DynInv, NoneLostOn, Enough, Unowned
  <2> QED
    BY <2>1, FS_EmptySet
<1>4. NoLostEvent
  <2> SUFFICES ASSUME NEW g \in Groups \ Timed, NEW t \in Asleep("wait", g), Satisfied(call[t])
               PROVE  Rank(t, g) <= Cardinality(Owed(g))
    BY DEF NoLostEvent
  <2> DEFINE s == list["recv"][g]
             at == CHOOSE i \in DOMAIN s : s[i] = t
  <2>1. g \in Objects /\ "recv" \in Sides /\ t \in Tasks /\ tstate[t] # "Ready" /\ call[t].obj = g
        /\ Side(call[t]) = "recv"
    BY ObjectKinds DEF Asleep, WaitsOn, Sides, Side
  <2>2. s \in Seq(Tasks) /\ DOMAIN s = 1 .. Len(s) /\ Len(s) \in Nat
    BY <2>1, LenProperties DEF DynInv, Shape, DynTypes
  <2>3. \E i \in DOMAIN s : s[i] = t
    BY <2>1 DEF DynInv, Shape, ListsAreSleepers
  <2>4. at \in 1 .. Len(s) /\ s[at] = t
    BY <2>2, <2>3
  <2>5. Rank(t, g) = Cardinality({i \in 1 .. at : tstate[s[i]] # "Ready"})
    BY DEF Rank
  <2> HIDE DEF at
  <2>6. \A i \in 1 .. Len(s) : tstate[s[i]] # "Ready"
    BY <2>1, <2>2 DEF DynInv, Shape, ListsAreSleepers, Sleeper
  <2>7. {i \in 1 .. at : tstate[s[i]] # "Ready"} = 1 .. at
    BY <2>2, <2>4, <2>6
  <2>8. Cardinality(1 .. at) = at
    <3>1. at \in Nat /\ at >= 1
      BY <2>2, <2>4
    <3> QED
      BY <3>1, FS_Interval
  <2>9. at <= Cardinality(Owed(g))
    BY <2>2, <2>4 DEF DynInv, EventsReach
  <2> QED
    BY <2>5, <2>7, <2>8, <2>9
<1> QED
  BY <1>1, <1>2, <1>3, <1>4 DEF ObjectsRight, NothingLost, DynInv

(* Where send_from_isr runs on the tasks' core, no object loses a wake-up  *)
(* or miscounts, for any tasks and objects and any sizes (dynobj.rs,       *)
(* test_or_enrol, produce_and_wake, EventGroup::set).                      *)
THEOREM ObjectsAreRight == ASSUME ~ISR_REMOTE PROVE Spec => []ObjectsRight
<1>1. DynInv /\ [Next]_vars => DynInv'
  BY NextDyn
<1>2. Spec => []DynInv
  BY <1>1, InitDyn, PTL DEF Spec
<1> QED
  BY <1>2, DynInvRight, PTL


LEMMA SpanSeq == \A S, q, s : q \in Nat /\ s \in [1 .. q -> S] => s \in Seq(S) /\ Len(s) = q
OBVIOUS

(***************************************************************************)
(* The SPI hosts: the pieces of a buffer.                                  *)
(***************************************************************************)

LEMMA DivBounds ==
  ASSUME NEW a \in Nat, NEW c \in Nat \ {0}
  PROVE  a \div c \in Nat /\ (a \div c) * c <= a /\ a < (a \div c) * c + c
OBVIOUS

LEMMA TimesMore ==
  ASSUME NEW i \in Nat, NEW k \in Nat, NEW c \in Nat, i <= k
  PROVE  i * c <= k * c /\ i * c \in Nat
OBVIOUS

LEMMA CeilBounds ==
  ASSUME NEW n \in Nat, NEW c \in Nat \ {0}
  PROVE  /\ Ceil(n, c) \in Nat
         /\ n <= Ceil(n, c) * c
         /\ \A i \in 1 .. Ceil(n, c) : (i - 1) * c \in Nat /\ (i - 1) * c < n
         /\ n > 0 => Ceil(n, c) > 0
<1> DEFINE q == Ceil(n, c)
<1>1. q \in Nat /\ q * c <= n + c - 1 /\ n + c - 1 < q * c + c
  BY DivBounds DEF Ceil
<1>2. ASSUME NEW i \in 1 .. q PROVE (i - 1) * c \in Nat /\ (i - 1) * c < n
  <2>1. i \in Nat /\ i <= q
    BY <1>1
  <2>2. i * c <= q * c /\ (i - 1) * c = i * c - c /\ (i - 1) * c \in Nat /\ i * c \in Nat /\ q * c \in Nat
    BY <1>1, <2>1, TimesMore
  <2> HIDE DEF q
  <2> QED
    BY <1>1, <2>2
<1>3. n > 0 => q > 0
  BY <1>1
<1> QED
  BY <1>1, <1>2, <1>3

LEMMA MinOfTwo ==
  ASSUME NEW a \in Int, NEW b \in Int
  PROVE  Min({a, b}) = IF a <= b THEN a ELSE b
<1>1. PICK m : m = IF a <= b THEN a ELSE b
  OBVIOUS
<1>2. m \in {a, b} /\ \A y \in {a, b} : m <= y
  BY <1>1
<1>3. \A x \in {a, b} : (\A y \in {a, b} : x <= y) => x = m
  BY <1>1
<1>4. Min({a, b}) \in {a, b} /\ \A y \in {a, b} : Min({a, b}) <= y
  BY <1>2 DEF Min
<1> QED
  BY <1>1, <1>3, <1>4

LEMMA MaxOfTwo ==
  ASSUME NEW a \in Int, NEW b \in Int
  PROVE  Max({a, b}) = IF a >= b THEN a ELSE b
<1>1. PICK m : m = IF a >= b THEN a ELSE b
  OBVIOUS
<1>2. m \in {a, b} /\ \A y \in {a, b} : m >= y
  BY <1>1
<1>3. \A x \in {a, b} : (\A y \in {a, b} : x >= y) => x = m
  BY <1>1
<1>4. Max({a, b}) \in {a, b} /\ \A y \in {a, b} : Max({a, b}) >= y
  BY <1>2 DEF Max
<1> QED
  BY <1>1, <1>3, <1>4

(* The positions a list of pieces covers.                                  *)
Cover(s) == UNION {Span(s[i]) : i \in 1 .. Len(s)}

LEMMA CoverNone == Cover(<<>>) = {}
BY DEF Cover

LEMMA CoverHead ==
  ASSUME NEW s \in Seq(PieceType), s # <<>>
  PROVE  /\ Head(s) \in PieceType /\ Tail(s) \in Seq(PieceType) /\ Len(Tail(s)) = Len(s) - 1
         /\ Cover(s) = Span(Head(s)) \cup Cover(Tail(s))
<1>1. PICK n, w : n = Len(s) /\ n \in Nat \ {0} /\ w = Tail(s)
  <2>1. Len(s) \in Nat /\ Len(s) # 0
    BY EmptySeq
  <2> QED
    BY <2>1
<1>2. w \in Seq(PieceType) /\ Len(w) = n - 1 /\ \A i \in 1 .. n - 1 : w[i] = s[i + 1]
  BY <1>1
<1>3. Head(s) = s[1] /\ s[1] \in PieceType
  BY <1>1
<1>4. ASSUME NEW y \in Cover(s) PROVE y \in Span(s[1]) \cup Cover(w)
  <2>1. PICK i \in 1 .. n : y \in Span(s[i])
    BY <1>1, <1>4 DEF Cover
  <2>2. CASE i = 1
    BY <2>1, <2>2
  <2>3. CASE i # 1
    <3>1. i - 1 \in 1 .. n - 1 /\ w[i - 1] = s[i]
      BY <1>1, <1>2, <2>1, <2>3
    <3> QED
      BY <1>2, <2>1, <3>1 DEF Cover
  <2> QED
    BY <2>2, <2>3
<1>5. Span(s[1]) \subseteq Cover(s)
  BY <1>1 DEF Cover
<1>6. ASSUME NEW y \in Cover(w) PROVE y \in Cover(s)
  <2>1. PICK i \in 1 .. n - 1 : y \in Span(w[i])
    BY <1>2, <1>6 DEF Cover
  <2>2. i + 1 \in 1 .. n /\ w[i] = s[i + 1]
    BY <1>1, <1>2, <2>1
  <2> QED
    BY <1>1, <2>1, <2>2 DEF Cover
<1> QED
  BY <1>1, <1>2, <1>3, <1>4, <1>5, <1>6

LEMMA PiecesCover ==
  ASSUME NEW at \in Nat, NEW n \in Nat, NEW c \in Nat \ {0}
  PROVE  /\ Pieces(at, n, c) \in Seq(PieceType) /\ Len(Pieces(at, n, c)) = Ceil(n, c)
         /\ Cover(Pieces(at, n, c)) = at .. at + n - 1
<1>1. PICK q : q = Ceil(n, c) /\ q \in Nat /\ n <= q * c /\ \A i \in 1 .. q : (i - 1) * c \in Nat /\ (i - 1) * c < n
  BY CeilBounds
<1>2. PICK s : s = Pieces(at, n, c)
  OBVIOUS
<1>3. ASSUME NEW i \in 1 .. q
      PROVE  /\ s[i].at = at + (i - 1) * c /\ s[i] \in PieceType
             /\ s[i].n = (IF c <= n - (i - 1) * c THEN c ELSE n - (i - 1) * c)
  <2>1. PICK d : d = (i - 1) * c /\ d \in Nat /\ d < n
    BY <1>1
  <2>2. s[i] = [at |-> at + d, n |-> Min({c, n - d})]
    BY <1>1, <1>2, <2>1 DEF Pieces
  <2>3. Min({c, n - d}) = IF c <= n - d THEN c ELSE n - d
    BY <2>1, MinOfTwo
  <2> QED
    BY <2>1, <2>2, <2>3 DEF PieceType
<1>4. s \in Seq(PieceType) /\ Len(s) = q
  <2>1. s = [i \in 1 .. q |-> s[i]]
    BY <1>1, <1>2 DEF Pieces
  <2>2. s \in [1 .. q -> PieceType]
    BY <1>3, <2>1
  <2> QED
    BY <1>1, <2>2, SpanSeq
<1>5. ASSUME NEW y \in Cover(s) PROVE y \in at .. at + n - 1
  <2>1. PICK i \in 1 .. q : y \in Span(s[i])
    BY <1>4, <1>5 DEF Cover
  <2>2. PICK d : d = (i - 1) * c /\ d \in Nat /\ d < n
    BY <1>1, <2>1
  <2> QED
    BY <1>3, <2>1, <2>2 DEF Span, PieceType
<1>6. ASSUME NEW y \in at .. at + n - 1 PROVE y \in Cover(s)
  <2>1. PICK k : k = (y - at) \div c
    OBVIOUS
  <2>2. k \in Nat /\ k * c <= y - at /\ y - at < k * c + c
    BY <2>1, DivBounds
  <2>3. k + 1 \in 1 .. q
    <3>1. SUFFICES ASSUME k >= q PROVE FALSE
      BY <1>1, <2>2
    <3>2. q * c <= k * c /\ q * c \in Nat /\ k * c \in Nat
      BY <1>1, <2>2, <3>1, TimesMore
    <3> QED
      BY <1>1, <2>2, <3>2
  <2>4. PICK d : d = k * c /\ d \in Nat
    BY <2>2, TimesMore
  <2>5. /\ s[k + 1].at = at + d /\ s[k + 1] \in PieceType
        /\ s[k + 1].n = (IF c <= n - d THEN c ELSE n - d)
    BY <1>3, <2>2, <2>3, <2>4
  <2>6. y \in Span(s[k + 1])
    BY <2>2, <2>4, <2>5 DEF Span
  <2> QED
    BY <1>4, <2>3, <2>6 DEF Cover
<1> QED
  BY <1>1, <1>2, <1>4, <1>5, <1>6

(* A chain for a buffer that is not empty is its pieces of MAX_LEN.        *)
LEMMA ChainCovers ==
  ASSUME NEW at \in Nat, NEW n \in Nat, n > 0
  PROVE  /\ build_chain(at, n) \in Seq(PieceType)
         /\ Cover(build_chain(at, n)) = at .. at + n - 1
<1> USE SpiAssumption
<1>1. DescriptorsNeeded(n) = Ceil(n, DESC_MAX_LEN)
  <2>1. Ceil(n, DESC_MAX_LEN) \in Nat /\ Ceil(n, DESC_MAX_LEN) > 0
    BY CeilBounds
  <2> QED
    BY <2>1, MaxOfTwo DEF DescriptorsNeeded
<1>2. build_chain(at, n) = Pieces(at, n, DESC_MAX_LEN)
  BY <1>1 DEF build_chain, Pieces
<1> QED
  BY <1>2, PiecesCover

(***************************************************************************)
(* The hosts.                                                              *)
(***************************************************************************)
SpiPcs == {"closed", "init", "claim", "select", "ready", "piece", "fifo", "shift",
           "begin", "reset", "arm", "go", "wait", "await"}
JobRec == [pc : SpiPcs, call : Nat, len : Nat, pieces : Seq(PieceType), rounds : Seq(PieceType),
           try : Nat, async : BOOLEAN, reach : BOOLEAN, bank : Nat, moved : SUBSET Int,
           outcome : {"none", "ok", "timeout", "error"}]
EngRec == [tx : Seq(PieceType), rx : Seq(PieceType), buffer : Nat, go : BOOLEAN,
           flags : SUBSET Flags, call : Nat, bank : Nat]
SlotRec == [claimed : BOOLEAN, channel : 0 .. SPI_CHANNELS, dma : BOOLEAN, bank : 0 .. 1,
            pending : Nat, intEna : BOOLEAN, handled : BOOLEAN]

SpiTyped ==
  /\ chanOwner \in [Crossbar -> Hosts \cup {NoHost}]
  /\ selector \in [Hosts -> 0 .. SPI_CHANNELS]
  /\ spiHost \in [Hosts -> SlotRec]
  /\ spiJob \in [Hosts -> JobRec]
  /\ spiEngine \in [Hosts -> EngRec]
  /\ spiCalls \in Nat

(* An engine that is off the memory.                                       *)
Off(e) == e.tx = <<>> /\ e.rx = <<>>
All(j) == 0 .. j.len - 1

(* A job j and its engine e, when n calls have begun: the engine works for *)
(* this call or an earlier one, and for a polled call what has been moved  *)
(* and what the lists still hold make up the buffer.                       *)
Lists(j, e) ==
  /\ j.pc \in {"closed", "init", "claim", "select"} => j.outcome = "none"
  /\ j.pc \in {"piece", "reset", "arm"} => j.moved \cup Cover(j.pieces) = All(j)
  /\ j.pc \in {"go", "wait"} => j.pieces # <<>>
  /\ j.pc \in {"fifo", "shift"} =>
       /\ j.pieces # <<>>
       /\ j.moved \cup Cover(j.rounds) \cup Cover(Tail(j.pieces)) = All(j)
  /\ j.pc = "shift" => j.rounds # <<>>
  /\ j.pc \in {"go", "wait"} => j.moved \cup Cover(e.rx) \cup Cover(Tail(j.pieces)) = All(j)
  /\ j.pc = "ready" /\ j.outcome = "ok" => j.moved = All(j)
Engines(j, e) ==
  /\ j.pc \notin {"go", "wait"} /\ e.call = j.call => Off(e)
  /\ j.pc = "arm" => Off(e) /\ e.flags = {} /\ ~e.go
  /\ j.pc = "go" => e.call = j.call /\ e.flags = {} /\ ~e.go /\ Len(e.tx) = Len(e.rx)
  /\ j.pc = "wait" => /\ e.call = j.call
                      /\ "in" \in e.flags => e.rx = <<>>
                      /\ "out" \in e.flags => e.tx = <<>>
HostOk(j, e, n) ==
  /\ j.call <= n /\ e.call <= j.call
  /\ j.async => j.pc \in {"ready", "begin", "reset", "arm", "go", "await"}
  /\ j.pc \in {"begin", "await"} => j.async
  /\ j.pc \in {"begin", "reset", "arm"} => j.pieces # <<>> /\ Head(j.pieces).n > 0
  /\ ~j.async => Lists(j, e) /\ Engines(j, e)

(* A channel that is selected, or about to be, is its host's.              *)
ChansOwned ==
  /\ \A h \in Hosts : selector[h] # 0 => chanOwner[selector[h]] = h
  /\ \A h \in Hosts : spiJob[h].pc = "select" => spiJob[h].try \in Crossbar /\ chanOwner[spiJob[h].try] = h

HostsOk == \A h \in Hosts : HostOk(spiJob[h], spiEngine[h], spiCalls)
SpiInv == SpiTyped /\ ChansOwned /\ HostsOk

LEMMA SpiBegins == SpiInit => SpiInv
<1> USE SpiAssumption
<1> SUFFICES ASSUME SpiInit PROVE SpiInv
  OBVIOUS
<1>0. <<>> \in Seq(PieceType)
  OBVIOUS
<1>1. NoJob \in JobRec /\ Still \in EngRec /\ NewSlot \in SlotRec
  <2>1. NoJob \in JobRec
    BY <1>0 DEF NoJob, JobRec, SpiPcs
  <2>2. Still \in EngRec
    BY <1>0 DEF Still, EngRec
  <2>3. NewSlot \in SlotRec
    BY DEF NewSlot, SlotRec
  <2> QED
    BY <2>1, <2>2, <2>3
<1>2. SpiTyped
  BY <1>1 DEF SpiInit, SpiTyped
<1>3. ChansOwned
  BY DEF SpiInit, ChansOwned, NoJob
<1>4. HostOk(NoJob, Still, 0)
  BY DEF HostOk, Lists, Engines, Off, NoJob, Still
<1> QED
  BY <1>2, <1>3, <1>4 DEF SpiInit, SpiInv, HostsOk

(* One host moves on.                                                      *)
SpiMoves(h, j, e) ==
  /\ spiJob' = [spiJob EXCEPT ![h] = j]
  /\ spiEngine' = [spiEngine EXCEPT ![h] = e]

LEMMA HostMoves ==
  ASSUME SpiInv, NEW h \in Hosts, NEW j \in JobRec, NEW e \in EngRec, SpiMoves(h, j, e),
         spiCalls' \in Nat, spiCalls <= spiCalls', HostOk(j, e, spiCalls')
  PROVE  HostsOk' /\ spiJob' \in [Hosts -> JobRec] /\ spiEngine' \in [Hosts -> EngRec]
<1> USE DEF SpiInv, SpiTyped
<1>1. /\ spiJob' \in [Hosts -> JobRec] /\ spiEngine' \in [Hosts -> EngRec]
      /\ spiJob'[h] = j /\ spiEngine'[h] = e
      /\ \A k \in Hosts : k # h => spiJob'[k] = spiJob[k] /\ spiEngine'[k] = spiEngine[k]
  BY DEF SpiMoves
<1>2. ASSUME NEW k \in Hosts PROVE HostOk(spiJob'[k], spiEngine'[k], spiCalls')
  <2>1. CASE k = h
    BY <1>1, <2>1
  <2>2. CASE k # h
    <3>1. HostOk(spiJob[k], spiEngine[k], spiCalls) /\ spiJob[k].call \in Nat
      BY DEF HostsOk, JobRec
    <3> QED
      BY <1>1, <2>2, <3>1 DEF HostOk
  <2> QED
    BY <2>1, <2>2
<1> QED
  BY <1>1, <1>2 DEF HostsOk

(* ... and leaves the channels alone.                                      *)
LEMMA HostOnly ==
  ASSUME SpiInv, NEW h \in Hosts, NEW j \in JobRec, NEW e \in EngRec, SpiMoves(h, j, e),
         spiCalls' \in Nat, spiCalls <= spiCalls', HostOk(j, e, spiCalls'),
         spiHost' \in [Hosts -> SlotRec], UNCHANGED <<chanOwner, selector>>,
         j.pc = "select" => spiJob[h].pc = "select" /\ j.try = spiJob[h].try
  PROVE  SpiInv'
<1>1. HostsOk' /\ spiJob' \in [Hosts -> JobRec] /\ spiEngine' \in [Hosts -> EngRec]
  BY HostMoves
<1>2. SpiTyped'
  BY <1>1 DEF SpiInv, SpiTyped
<1>3. ChansOwned'
  BY DEF SpiInv, SpiTyped, ChansOwned, SpiMoves
<1> QED
  BY <1>1, <1>2, <1>3 DEF SpiInv

LEMMA SpiFacts ==
  ASSUME SpiInv, NEW h \in Hosts
  PROVE  /\ spiJob[h] \in JobRec /\ spiEngine[h] \in EngRec /\ spiHost[h] \in SlotRec
         /\ HostOk(spiJob[h], spiEngine[h], spiCalls)
         /\ spiHost \in [Hosts -> SlotRec] /\ spiCalls \in Nat
BY DEF SpiInv, SpiTyped, HostsOk

(* Steps that change neither the job's lists nor the engine.               *)
LEMMA SpiSlot ==
  ASSUME SpiInv, spiHost' \in [Hosts -> SlotRec],
         UNCHANGED <<chanOwner, selector, spiJob, spiEngine, spiCalls>>
  PROVE  SpiInv'
BY DEF SpiInv, SpiTyped, ChansOwned, HostsOk

Goes(j, loc, try) == [j EXCEPT !.pc = loc, !.try = try]

LEMMA GoesOk ==
  ASSUME NEW j \in JobRec, NEW e, NEW n, HostOk(j, e, n), j.pc \in {"closed", "init", "claim", "select"},
         NEW loc \in {"closed", "init", "claim", "select", "ready"}, NEW try \in Nat
  PROVE  /\ Goes(j, loc, try) \in JobRec /\ HostOk(Goes(j, loc, try), e, n)
         /\ Goes(j, loc, try).pc = loc /\ Goes(j, loc, try).try = try
<1>1. PICK k : k = Goes(j, loc, try)
  OBVIOUS
<1>2. k \in JobRec /\ k.pc = loc /\ k.try = try
  BY <1>1 DEF Goes, JobRec, SpiPcs
<1>3. k.call = j.call /\ k.async = j.async /\ k.outcome = j.outcome
  BY <1>1 DEF Goes, JobRec
<1>4. HostOk(k, e, n)
  BY <1>2, <1>3 DEF HostOk, Lists, Engines
<1> QED
  BY <1>1, <1>2, <1>4

LEMMA SpiSetup ==
  ASSUME SpiInv, NEW h \in Hosts, SpiOpen(h) \/ InitFails(h) \/ InitRoutes(h) \/ ClaimChan(h) \/ SetSelector(h)
  PROVE  SpiInv'
<1> USE SpiAssumption
<1>1. PICK j0, e0 : /\ j0 = spiJob[h] /\ e0 = spiEngine[h] /\ j0 \in JobRec /\ e0 \in EngRec
                    /\ HostOk(j0, e0, spiCalls) /\ j0.try \in Nat
  BY SpiFacts DEF JobRec
<1>2. spiJob \in [Hosts -> JobRec] /\ spiHost \in [Hosts -> SlotRec]
  BY DEF SpiInv, SpiTyped
<1>3. spiEngine' = [spiEngine EXCEPT ![h] = e0] /\ spiCalls' = spiCalls /\ spiCalls \in Nat
  BY <1>1, SpiFacts DEF SpiInv, SpiTyped, SpiOpen, InitFails, InitRoutes, ClaimChan, SetSelector, spiRest, spiOthers
<1>4. ASSUME NEW loc \in {"closed", "init", "claim", "ready"}, NEW try \in Nat, j0.pc \in {"closed", "init", "claim"},
             spiJob' = [spiJob EXCEPT ![h] = Goes(j0, loc, try)],
             spiHost' \in [Hosts -> SlotRec], UNCHANGED <<chanOwner, selector>>
      PROVE  SpiInv'
  <2>1. PICK j : j = Goes(j0, loc, try)
    OBVIOUS
  <2>2. j \in JobRec /\ HostOk(j, e0, spiCalls) /\ j.pc = loc
    BY <1>1, <1>4, <2>1, GoesOk
  <2>3. SpiMoves(h, j, e0)
    BY <1>3, <1>4, <2>1 DEF SpiMoves
  <2> QED
    BY <1>1, <1>3, <1>4, <2>2, <2>3, HostOnly
<1>5. CASE SpiOpen(h)
  <2>1. spiJob' = [spiJob EXCEPT ![h] = Goes(j0, "init", j0.try)] /\ j0.pc = "closed"
    BY <1>1, <1>2, <1>5 DEF SpiOpen, SpiGoto, At, JobRec, Goes
  <2>2. spiHost' \in [Hosts -> SlotRec] /\ UNCHANGED <<chanOwner, selector>>
    BY <1>2, <1>5 DEF SpiOpen, spiRest, spiOthers, SlotRec
  <2> QED
    BY <1>1, <1>4, <2>1, <2>2
<1>6. CASE InitFails(h)
  <2>1. spiJob' = [spiJob EXCEPT ![h] = Goes(j0, "closed", j0.try)] /\ j0.pc = "init"
    BY <1>1, <1>2, <1>6 DEF InitFails, SpiGoto, At, JobRec, Goes
  <2>2. spiHost' \in [Hosts -> SlotRec] /\ UNCHANGED <<chanOwner, selector>>
    BY <1>2, <1>6 DEF InitFails, spiRest, spiOthers, SlotRec
  <2> QED
    BY <1>1, <1>4, <2>1, <2>2
<1>7. CASE InitRoutes(h)
  <2>1. PICK b : b = (spiHost[h].channel # 0 \/ \E c \in Crossbar : chanOwner[c] = h)
    OBVIOUS
  <2>2. PICK loc : loc = (IF b THEN "ready" ELSE "claim")
    OBVIOUS
  <2>3. spiJob' = [spiJob EXCEPT ![h].try = 1, ![h].pc = loc] /\ j0.pc = "init"
    BY <1>1, <1>7, <2>1, <2>2 DEF InitRoutes, At
  <2>4. spiJob' = [spiJob EXCEPT ![h] = Goes(j0, loc, 1)]
    BY <1>1, <1>2, <2>3 DEF JobRec, Goes
  <2>5. spiHost' \in [Hosts -> SlotRec] /\ UNCHANGED <<chanOwner, selector>>
    BY <1>2, <1>7 DEF InitRoutes, spiRest, spiOthers
  <2>6. loc \in {"closed", "init", "claim", "ready"} /\ 1 \in Nat
    BY <2>2
  <2> QED
    BY <1>4, <2>3, <2>4, <2>5, <2>6
<1>8. CASE ClaimChan(h)
  <2>0. j0.try + 1 \in Nat /\ j0.pc = "claim" /\ spiHost' \in [Hosts -> SlotRec] /\ UNCHANGED <<selector, spiHost>>
    BY <1>1, <1>2, <1>8 DEF ClaimChan, At
  <2>1. \/ SpiGoto(h, "ready") /\ chanOwner' = chanOwner
        \/ spiJob' = [spiJob EXCEPT ![h].try = j0.try + 1] /\ chanOwner' = chanOwner
        \/ /\ j0.try \in Crossbar /\ chanOwner[j0.try] = NoHost
           /\ chanOwner' = [chanOwner EXCEPT ![j0.try] = h] /\ SpiGoto(h, "select")
    BY <1>1, <1>8, Zenon DEF ClaimChan
  <2>2. CASE SpiGoto(h, "ready") /\ chanOwner' = chanOwner
    <3>1. spiJob' = [spiJob EXCEPT ![h] = Goes(j0, "ready", j0.try)]
      BY <1>1, <1>2, <2>2 DEF SpiGoto, JobRec, Goes
    <3> QED
      BY <1>1, <1>4, <2>0, <2>2, <3>1
  <2>3. CASE spiJob' = [spiJob EXCEPT ![h].try = j0.try + 1] /\ chanOwner' = chanOwner
    <3>1. spiJob' = [spiJob EXCEPT ![h] = Goes(j0, "claim", j0.try + 1)]
      BY <1>1, <1>2, <2>0, <2>3 DEF JobRec, Goes
    <3> QED
      BY <1>4, <2>0, <2>3, <3>1
  <2>4. CASE /\ j0.try \in Crossbar /\ chanOwner[j0.try] = NoHost
             /\ chanOwner' = [chanOwner EXCEPT ![j0.try] = h] /\ SpiGoto(h, "select")
    <3>1. spiJob' = [spiJob EXCEPT ![h] = Goes(j0, "select", j0.try)]
      BY <1>1, <1>2, <2>4 DEF SpiGoto, JobRec, Goes
    <3>2. PICK j : j = Goes(j0, "select", j0.try)
      OBVIOUS
    <3>3. j \in JobRec /\ HostOk(j, e0, spiCalls) /\ j.pc = "select" /\ j.try = j0.try
      BY <1>1, <2>0, <3>2, GoesOk
    <3>4. SpiMoves(h, j, e0)
      BY <1>3, <3>1, <3>2 DEF SpiMoves
    <3>5. HostsOk' /\ spiJob' \in [Hosts -> JobRec] /\ spiEngine' \in [Hosts -> EngRec]
      BY <1>1, <1>3, <3>3, <3>4, HostMoves
    <3>6. SpiTyped'
      BY <1>3, <2>0, <2>4, <3>5 DEF SpiInv, SpiTyped
    <3>7. /\ spiJob'[h].pc = "select" /\ spiJob'[h].try = j0.try
          /\ \A k \in Hosts : k # h => spiJob'[k] = spiJob[k]
      BY <1>2, <3>3, <3>4 DEF SpiMoves
    <3>8. \A c \in Crossbar, k \in Hosts : chanOwner[c] = k => chanOwner'[c] = k
      BY <2>4 DEF SpiInv, SpiTyped
    <3>9. \A k \in Hosts : selector[k] # 0 => selector[k] \in Crossbar
      BY DEF SpiInv, SpiTyped, Crossbar
    <3>10. \A k \in Hosts : selector'[k] # 0 => chanOwner'[selector'[k]] = k
      BY <2>0, <3>8, <3>9 DEF SpiInv, ChansOwned
    <3>11. ASSUME NEW k \in Hosts, spiJob'[k].pc = "select"
           PROVE  spiJob'[k].try \in Crossbar /\ chanOwner'[spiJob'[k].try] = k
      <4>1. CASE k = h
        BY <2>4, <3>7, <3>11, <4>1 DEF SpiInv, SpiTyped
      <4>2. CASE k # h
        BY <3>7, <3>8, <3>11, <4>2 DEF SpiInv, ChansOwned
      <4> QED
        BY <4>1, <4>2
    <3>12. ChansOwned'
      BY <3>10, <3>11 DEF ChansOwned
    <3> QED
      BY <3>5, <3>6, <3>12 DEF SpiInv
  <2> QED
    BY <2>1, <2>2, <2>3, <2>4
<1>9. CASE SetSelector(h)
  <2>0. j0.try \in Crossbar /\ j0.pc = "select" /\ chanOwner[j0.try] = h
    BY <1>1, <1>9 DEF SetSelector, At, SpiInv, ChansOwned
  <2>1. /\ spiJob' = [spiJob EXCEPT ![h] = Goes(j0, "ready", j0.try)]
        /\ selector' = [selector EXCEPT ![h] = j0.try] /\ chanOwner' = chanOwner
    BY <1>1, <1>2, <1>9 DEF SetSelector, SpiGoto, JobRec, Goes
  <2>2. PICK j : j = Goes(j0, "ready", j0.try)
    OBVIOUS
  <2>3. j0.try \in Nat /\ j0.try \in 0 .. SPI_CHANNELS
    BY <1>1, <2>0 DEF JobRec, Crossbar
  <2>4. j \in JobRec /\ HostOk(j, e0, spiCalls) /\ j.pc = "ready"
    BY <1>1, <2>0, <2>2, <2>3, GoesOk
  <2>5. SpiMoves(h, j, e0)
    BY <1>3, <2>1, <2>2 DEF SpiMoves
  <2>6. HostsOk' /\ spiJob' \in [Hosts -> JobRec] /\ spiEngine' \in [Hosts -> EngRec]
    BY <1>1, <1>3, <2>4, <2>5, HostMoves
  <2>7. spiHost' \in [Hosts -> SlotRec]
    BY <1>1, <1>9, <2>3, SpiFacts DEF SetSelector, SlotRec
  <2>8. SpiTyped'
    BY <1>3, <2>1, <2>3, <2>6, <2>7 DEF SpiInv, SpiTyped
  <2>9. spiJob'[h].pc = "ready" /\ \A k \in Hosts : k # h => spiJob'[k] = spiJob[k]
    BY <2>4, <2>5 DEF SpiMoves, SpiInv, SpiTyped
  <2>10. ChansOwned'
    BY <2>0, <2>1, <2>9 DEF SpiInv, SpiTyped, ChansOwned
  <2> QED
    BY <2>6, <2>8, <2>10 DEF SpiInv
<1> QED
  BY <1>5, <1>6, <1>7, <1>8, <1>9

(* A job moves on, or ends; an engine takes on new contents.               *)
JobGo(j, loc, pieces, rounds, moved, bk) ==
  [j EXCEPT !.pc = loc, !.pieces = pieces, !.rounds = rounds, !.moved = moved, !.bank = bk]
JobEnds(j, how) == [j EXCEPT !.pc = "ready", !.outcome = how, !.pieces = <<>>, !.rounds = <<>>]
Eng(e, tx, rx, buffer, go, flags, nth, bk) ==
  [e EXCEPT !.tx = tx, !.rx = rx, !.buffer = buffer, !.go = go, !.flags = flags, !.call = nth, !.bank = bk]

LEMMA JobGoIs ==
  ASSUME NEW j \in JobRec, NEW loc \in SpiPcs, NEW pieces \in Seq(PieceType), NEW rounds \in Seq(PieceType),
         NEW moved \in SUBSET Int, NEW bk \in Nat,
         NEW k, k = JobGo(j, loc, pieces, rounds, moved, bk)
  PROVE  /\ k \in JobRec /\ k.pc = loc /\ k.pieces = pieces /\ k.rounds = rounds /\ k.moved = moved
         /\ k.bank = bk /\ k.call = j.call /\ k.len = j.len /\ k.async = j.async /\ k.outcome = j.outcome
BY DEF JobGo, JobRec

LEMMA JobEndsIs ==
  ASSUME NEW j \in JobRec, NEW how \in {"ok", "timeout", "error"}, NEW k, k = JobEnds(j, how)
  PROVE  /\ k \in JobRec /\ k.pc = "ready" /\ k.moved = j.moved /\ k.call = j.call
         /\ k.len = j.len /\ k.async = j.async /\ k.outcome = how
<1>1. <<>> \in Seq(PieceType) /\ "ready" \in SpiPcs
  BY DEF SpiPcs
<1> QED
  BY <1>1 DEF JobEnds, JobRec

LEMMA EngIs ==
  ASSUME NEW e \in EngRec, NEW tx \in Seq(PieceType), NEW rx \in Seq(PieceType), NEW buffer \in Nat, NEW go \in BOOLEAN,
         NEW flags \in SUBSET Flags, NEW nth \in Nat, NEW bk \in Nat,
         NEW k, k = Eng(e, tx, rx, buffer, go, flags, nth, bk)
  PROVE  /\ k \in EngRec /\ k.tx = tx /\ k.rx = rx /\ k.go = go /\ k.flags = flags /\ k.call = nth
BY DEF Eng, EngRec

(* What a step of a host finds.                                            *)
SpiNow(h, j, e) ==
  /\ j = spiJob[h] /\ e = spiEngine[h] /\ j \in JobRec /\ e \in EngRec
  /\ HostOk(j, e, spiCalls) /\ spiCalls \in Nat
  /\ spiJob \in [Hosts -> JobRec] /\ spiHost \in [Hosts -> SlotRec] /\ spiEngine \in [Hosts -> EngRec]
  /\ spiHost[h] \in SlotRec
  /\ j.call \in Nat /\ j.len \in Nat /\ j.pieces \in Seq(PieceType) /\ j.rounds \in Seq(PieceType)
  /\ j.moved \in SUBSET Int /\ j.bank \in Nat /\ j.async \in BOOLEAN /\ j.pc \in SpiPcs
  /\ e.tx \in Seq(PieceType) /\ e.rx \in Seq(PieceType) /\ e.buffer \in Nat /\ e.go \in BOOLEAN
  /\ e.flags \in SUBSET Flags /\ e.call \in Nat /\ e.bank \in Nat

LEMMA SpiNowIs ==
  ASSUME SpiInv, NEW h \in Hosts
  PROVE  \E j, e : SpiNow(h, j, e)
<1>1. PICK j, e : j = spiJob[h] /\ e = spiEngine[h]
  OBVIOUS
<1>2. j \in JobRec /\ e \in EngRec /\ HostOk(j, e, spiCalls) /\ spiHost[h] \in SlotRec /\ spiCalls \in Nat
  BY <1>1, SpiFacts
<1>3. /\ j.call \in Nat /\ j.len \in Nat /\ j.pieces \in Seq(PieceType) /\ j.rounds \in Seq(PieceType)
      /\ j.moved \in SUBSET Int /\ j.bank \in Nat /\ j.async \in BOOLEAN /\ j.pc \in SpiPcs
  BY <1>2 DEF JobRec
<1>4. /\ e.tx \in Seq(PieceType) /\ e.rx \in Seq(PieceType) /\ e.buffer \in Nat /\ e.go \in BOOLEAN
      /\ e.flags \in SUBSET Flags /\ e.call \in Nat /\ e.bank \in Nat
  BY <1>2 DEF EngRec
<1> QED
  BY <1>1, <1>2, <1>3, <1>4 DEF SpiNow, SpiInv, SpiTyped

(* A step of a host between two states of a call.                          *)
LEMMA SpiSteps ==
  ASSUME SpiInv, NEW h \in Hosts, NEW j \in JobRec, NEW e \in EngRec,
         spiJob' = [spiJob EXCEPT ![h] = j], spiEngine' = [spiEngine EXCEPT ![h] = e],
         HostOk(j, e, spiCalls), j.pc # "select",
         spiHost' \in [Hosts -> SlotRec], UNCHANGED <<chanOwner, selector, spiCalls>>
  PROVE  SpiInv'
<1>1. SpiMoves(h, j, e)
  BY DEF SpiMoves
<1>2. spiCalls \in Nat /\ spiCalls' = spiCalls /\ spiCalls <= spiCalls'
  BY SpiFacts
<1> QED
  BY <1>1, <1>2, HostOnly

(* A call ends, with the engine off the memory.                            *)
LEMMA SpiOver ==
  ASSUME SpiInv, NEW h \in Hosts, NEW j0, NEW e0, SpiNow(h, j0, e0),
         NEW how \in {"ok", "timeout", "error"}, NEW e \in EngRec, Ends(h, how),
         spiEngine' = [spiEngine EXCEPT ![h] = e], e.call = e0.call,
         ~j0.async /\ how = "ok" => j0.moved = All(j0),
         ~j0.async /\ e.call = j0.call => Off(e),
         spiHost' \in [Hosts -> SlotRec], UNCHANGED <<chanOwner, selector, spiCalls>>
  PROVE  SpiInv'
<1>1. PICK j : j = JobEnds(j0, how)
  OBVIOUS
<1>2. /\ j \in JobRec /\ j.pc = "ready" /\ j.moved = j0.moved /\ j.call = j0.call
      /\ j.len = j0.len /\ j.async = j0.async /\ j.outcome = how
  BY <1>1, JobEndsIs DEF SpiNow
<1>3. spiJob' = [spiJob EXCEPT ![h] = j]
  BY <1>1 DEF SpiNow, Ends, JobEnds, JobRec
<1>4. Lists(j, e) \/ j.async
  BY <1>2 DEF Lists, All
<1>5. Engines(j, e) \/ j.async
  BY <1>2 DEF Engines
<1>6. HostOk(j, e, spiCalls)
  BY <1>2, <1>4, <1>5 DEF HostOk, SpiNow
<1> QED
  BY <1>2, <1>3, <1>6, SpiSteps

(* A polled call begins.                                                   *)
LEMMA BusTransferStep ==
  ASSUME SpiInv, NEW h \in Hosts, NEW kind \in {"exchange", "stream"}, NEW n \in OpLens, NEW reach \in BOOLEAN,
         BusTransfer(h, kind, n, reach)
  PROVE  SpiInv'
<1> USE SpiAssumption
<1>1. PICK j0, e0 : SpiNow(h, j0, e0)
  BY SpiNowIs
<1>2. PICK w : w = (IF kind = "exchange" THEN <<[at |-> 0, n |-> n]>> ELSE Pieces(0, n, SPI_MAX_BYTES))
  OBVIOUS
<1>3. n \in Nat
  OBVIOUS
<1>4. w \in Seq(PieceType) /\ Cover(w) = 0 .. n - 1
  <2>1. CASE kind = "exchange"
    <3>1. PICK p : p = [at |-> 0, n |-> n]
      OBVIOUS
    <3>2. p \in PieceType /\ Span(p) = 0 .. n - 1 /\ w = <<p>>
      BY <1>2, <1>3, <2>1, <3>1 DEF PieceType, Span
    <3>3. w \in Seq(PieceType) /\ Len(w) = 1 /\ w[1] = p
      BY <3>2
    <3>4. {Span(w[i]) : i \in 1 .. 1} = {Span(p)}
      BY <3>3
    <3> QED
      BY <3>2, <3>3, <3>4 DEF Cover
  <2>2. CASE kind # "exchange"
    BY <1>2, <1>3, <2>2, PiecesCover
  <2> QED
    BY <2>1, <2>2
<1>5. PICK j : j = [NoJob EXCEPT !.pc = "piece", !.call = spiCalls + 1, !.len = n, !.reach = reach, !.pieces = w]
  OBVIOUS
<1>6. /\ j \in JobRec /\ j.pc = "piece" /\ j.call = spiCalls + 1 /\ j.len = n /\ j.pieces = w
      /\ j.moved = {} /\ j.async = FALSE /\ j.outcome = "none"
  <2>1. spiCalls + 1 \in Nat /\ <<>> \in Seq(PieceType) /\ "piece" \in SpiPcs /\ {} \in SUBSET Int
    BY <1>1 DEF SpiNow, SpiPcs
  <2>2. j = [pc |-> "piece", call |-> spiCalls + 1, len |-> n, pieces |-> w, rounds |-> <<>>, try |-> 0,
             async |-> FALSE, reach |-> reach, bank |-> 0, moved |-> {}, outcome |-> "none"]
    BY <1>5 DEF NoJob
  <2> QED
    BY <1>3, <1>4, <2>1, <2>2 DEF JobRec
<1>7. SpiMoves(h, j, e0)
  BY <1>1, <1>2, <1>5 DEF BusTransfer, Calling, SpiMoves, SpiNow
<1>8. e0.call <= spiCalls
  BY <1>1 DEF SpiNow, HostOk
<1>9. Lists(j, e0) /\ Engines(j, e0)
  <2>1. Lists(j, e0)
    BY <1>4, <1>6 DEF Lists, All
  <2>2. Engines(j, e0)
    BY <1>1, <1>6, <1>8 DEF Engines, SpiNow
  <2> QED
    BY <2>1, <2>2
<1>10. spiCalls' = spiCalls + 1 /\ UNCHANGED <<chanOwner, selector, spiHost>>
  BY DEF BusTransfer, Calling
<1>11. HostOk(j, e0, spiCalls')
  BY SMTT(30), <1>1, <1>6, <1>8, <1>9, <1>10 DEF HostOk, SpiNow
<1>12. spiCalls' \in Nat /\ spiCalls <= spiCalls' /\ spiHost' \in [Hosts -> SlotRec] /\ e0 \in EngRec
  BY SMTT(30), <1>1, <1>10 DEF SpiNow
<1> QED
  BY <1>6, <1>7, <1>10, <1>11, <1>12, HostOnly

LEMMA PiecesDoneStep == ASSUME SpiInv, NEW h \in Hosts, PiecesDone(h) PROVE SpiInv'
<1>1. PICK j0, e0 : SpiNow(h, j0, e0)
  BY SpiNowIs
<1>2. j0.pc = "piece" /\ j0.pieces = <<>> /\ Ends(h, "ok") /\ UNCHANGED <<spiHost, spiEngine, chanOwner, selector, spiCalls>>
  BY <1>1 DEF PiecesDone, At, SpiNow, spiRest, spiOthers
<1>3. spiEngine' = [spiEngine EXCEPT ![h] = e0] /\ spiHost' \in [Hosts -> SlotRec] /\ e0 \in EngRec
  BY <1>1, <1>2 DEF SpiNow
<1>4. ~j0.async => j0.moved = All(j0) /\ (e0.call = j0.call => Off(e0))
  BY <1>1, <1>2, CoverNone DEF SpiNow, HostOk, Lists, Engines
<1> QED
  BY <1>1, <1>2, <1>3, <1>4, SpiOver

LEMMA ByFifoStep == ASSUME SpiInv, NEW h \in Hosts, ByFifo(h) PROVE SpiInv'
<1> USE SpiAssumption
<1>1. PICK j0, e0 : SpiNow(h, j0, e0)
  BY SpiNowIs
<1>2. PICK p, r : p = Head(j0.pieces) /\ r = Pieces(p.at, p.n, SPI_MAX_BYTES)
  OBVIOUS
<1>3. /\ j0.pc = "piece" /\ j0.pieces # <<>> /\ UNCHANGED <<spiHost, spiEngine, chanOwner, selector, spiCalls>>
      /\ Ends(h, "error") \/ spiJob' = [spiJob EXCEPT ![h].pc = "fifo", ![h].rounds = r]
  BY <1>1, <1>2 DEF ByFifo, At, SpiNow, spiRest, spiOthers
<1>4. spiEngine' = [spiEngine EXCEPT ![h] = e0] /\ spiHost' \in [Hosts -> SlotRec] /\ e0 \in EngRec
  BY <1>1, <1>3 DEF SpiNow
<1>5. ~j0.async => (e0.call = j0.call => Off(e0))
  BY <1>1, <1>3 DEF SpiNow, HostOk, Engines
<1>6. CASE Ends(h, "error")
  BY <1>1, <1>3, <1>4, <1>5, <1>6, SpiOver
<1>7. CASE spiJob' = [spiJob EXCEPT ![h].pc = "fifo", ![h].rounds = r]
  <2>1. p \in PieceType /\ Cover(j0.pieces) = Span(p) \cup Cover(Tail(j0.pieces))
    BY <1>1, <1>2, <1>3, CoverHead DEF SpiNow
  <2>2. p.at \in Nat /\ p.n \in Nat
    BY <2>1 DEF PieceType
  <2>3. r \in Seq(PieceType) /\ Cover(r) = Span(p)
    BY <1>2, <2>2, PiecesCover DEF Span
  <2>4. PICK j : j = JobGo(j0, "fifo", j0.pieces, r, j0.moved, j0.bank)
    OBVIOUS
  <2>5. /\ j \in JobRec /\ j.pc = "fifo" /\ j.pieces = j0.pieces /\ j.rounds = r /\ j.moved = j0.moved
        /\ j.call = j0.call /\ j.len = j0.len /\ j.async = j0.async /\ j.outcome = j0.outcome
    BY SMTT(30), <1>1, <2>3, <2>4, JobGoIs DEF SpiNow, SpiPcs
  <2>6. spiJob' = [spiJob EXCEPT ![h] = j]
    BY <1>1, <1>7, <2>4 DEF SpiNow, JobGo, JobRec
  <2>7. ~j0.async => j0.moved \cup Cover(j0.pieces) = All(j0)
    BY <1>1, <1>3 DEF SpiNow, HostOk, Lists
  <2>8. ~j.async => Lists(j, e0)
    BY <1>3, <2>1, <2>3, <2>5, <2>7 DEF Lists, All
  <2>9. ~j.async => Engines(j, e0)
    BY <1>5, <2>5 DEF Engines
  <2>10. HostOk(j, e0, spiCalls)
    BY <1>1, <1>3, <2>5, <2>8, <2>9 DEF SpiNow, HostOk
  <2> QED
    BY <1>3, <1>4, <2>5, <2>6, <2>10, SpiSteps
<1> QED
  BY <1>3, <1>6, <1>7

LEMMA FifoStartStep == ASSUME SpiInv, NEW h \in Hosts, FifoStart(h) PROVE SpiInv'
<1>1. PICK j0, e0 : SpiNow(h, j0, e0)
  BY SpiNowIs
<1>2. PICK b, on : b = Head(j0.rounds).n /\ on = TRUE
  OBVIOUS
<1>3. /\ j0.pc = "fifo" /\ j0.rounds # <<>> /\ UNCHANGED <<spiHost, chanOwner, selector, spiCalls>>
      /\ spiEngine' = [spiEngine EXCEPT ![h].buffer = b, ![h].go = on]
      /\ spiJob' = [spiJob EXCEPT ![h].pc = "shift"]
  BY <1>1, <1>2 DEF FifoStart, At, SpiNow, spiRest, spiOthers, SpiGoto
<1>4. b \in Nat
  BY <1>1, <1>2, <1>3, CoverHead DEF SpiNow, PieceType
<1>5. PICK e : e = Eng(e0, e0.tx, e0.rx, b, on, e0.flags, e0.call, e0.bank)
  OBVIOUS
<1>6. e \in EngRec /\ e.tx = e0.tx /\ e.rx = e0.rx /\ e.call = e0.call
  <2>1. /\ e0.tx \in Seq(PieceType) /\ e0.rx \in Seq(PieceType) /\ on \in BOOLEAN
        /\ e0.flags \in SUBSET Flags /\ e0.call \in Nat /\ e0.bank \in Nat
    BY <1>1, <1>2 DEF SpiNow
  <2> QED
    BY SMTT(30), <1>1, <1>4, <1>5, <2>1, EngIs DEF SpiNow
<1>7. spiEngine' = [spiEngine EXCEPT ![h] = e]
  BY <1>1, <1>3, <1>5 DEF SpiNow, Eng, EngRec
<1>8. PICK j : j = JobGo(j0, "shift", j0.pieces, j0.rounds, j0.moved, j0.bank)
  OBVIOUS
<1>9. /\ j \in JobRec /\ j.pc = "shift" /\ j.pieces = j0.pieces /\ j.rounds = j0.rounds /\ j.moved = j0.moved
      /\ j.call = j0.call /\ j.len = j0.len /\ j.async = j0.async
  BY <1>1, <1>8, JobGoIs DEF SpiNow, SpiPcs
<1>10. spiJob' = [spiJob EXCEPT ![h] = j]
  BY <1>1, <1>3, <1>8 DEF SpiNow, JobGo, JobRec
<1>11. ~j.async => Lists(j, e)
  BY <1>1, <1>3, <1>9 DEF SpiNow, HostOk, Lists, All
<1>12. ~j.async => Engines(j, e)
  BY <1>1, <1>3, <1>6, <1>9 DEF SpiNow, HostOk, Engines, Off
<1>13. HostOk(j, e, spiCalls)
  BY <1>1, <1>3, <1>6, <1>9, <1>11, <1>12 DEF SpiNow, HostOk
<1>14. spiHost' \in [Hosts -> SlotRec]
  BY <1>1, <1>3 DEF SpiNow
<1> QED
  BY <1>3, <1>6, <1>7, <1>9, <1>10, <1>13, <1>14, SpiSteps

LEMMA FifoEndStep == ASSUME SpiInv, NEW h \in Hosts, FifoEnd(h) PROVE SpiInv'
<1>1. PICK j0, e0 : SpiNow(h, j0, e0)
  BY SpiNowIs
<1>2. PICK p, m, w : p = Head(j0.rounds) /\ m = j0.moved \cup Span(p) /\ w = Tail(j0.rounds)
  OBVIOUS
<1>3. /\ j0.pc = "shift" /\ UNCHANGED <<spiHost, spiEngine, chanOwner, selector, spiCalls>>
      /\ spiJob' = [spiJob EXCEPT ![h].pc = "fifo", ![h].rounds = w, ![h].moved = m]
  BY <1>1, <1>2 DEF FifoEnd, At, SpiNow, spiRest, spiOthers
<1>4. spiEngine' = [spiEngine EXCEPT ![h] = e0] /\ spiHost' \in [Hosts -> SlotRec] /\ e0 \in EngRec
  BY <1>1, <1>3 DEF SpiNow
<1>6. ~j0.async
  BY <1>1, <1>3 DEF SpiNow, HostOk
<1>7. SpiInv'
  <2>1. j0.rounds # <<>> /\ j0.pieces # <<>> /\ j0.moved \cup Cover(j0.rounds) \cup Cover(Tail(j0.pieces)) = All(j0)
    BY <1>1, <1>3, <1>6 DEF SpiNow, HostOk, Lists
  <2>2. /\ p \in PieceType /\ w \in Seq(PieceType)
        /\ Cover(j0.rounds) = Span(p) \cup Cover(w)
    BY <1>1, <1>2, <2>1, CoverHead DEF SpiNow
  <2>3. m \in SUBSET Int
    BY <1>1, <1>2, <2>2 DEF SpiNow, Span, PieceType
  <2>4. PICK j : j = JobGo(j0, "fifo", j0.pieces, w, m, j0.bank)
    OBVIOUS
  <2>5. /\ j \in JobRec /\ j.pc = "fifo" /\ j.pieces = j0.pieces /\ j.rounds = w /\ j.moved = m
        /\ j.call = j0.call /\ j.len = j0.len /\ j.async = j0.async
    BY SMTT(30), <1>1, <2>2, <2>3, <2>4, JobGoIs DEF SpiNow, SpiPcs
  <2>6. spiJob' = [spiJob EXCEPT ![h] = j]
    BY <1>1, <1>2, <1>3, <2>4 DEF SpiNow, JobGo, JobRec
  <2>7. Lists(j, e0)
    BY <1>2, <2>1, <2>2, <2>5 DEF Lists, All
  <2>8. Engines(j, e0)
    BY <1>1, <1>3, <1>6, <2>5 DEF SpiNow, HostOk, Engines
  <2>9. HostOk(j, e0, spiCalls)
    BY <1>1, <1>6, <2>5, <2>7, <2>8 DEF SpiNow, HostOk
  <2> QED
    BY <1>3, <1>4, <2>5, <2>6, <2>9, SpiSteps
<1> QED
  BY <1>7

LEMMA FifoTimeoutStep == ASSUME SpiInv, NEW h \in Hosts, FifoTimeout(h) PROVE SpiInv'
<1>1. PICK j0, e0 : SpiNow(h, j0, e0)
  BY SpiNowIs
<1>2. j0.pc = "shift" /\ Ends(h, "timeout") /\ UNCHANGED <<spiHost, spiEngine, chanOwner, selector, spiCalls>>
  BY <1>1 DEF FifoTimeout, At, SpiNow, spiRest, spiOthers
<1>3. spiEngine' = [spiEngine EXCEPT ![h] = e0] /\ spiHost' \in [Hosts -> SlotRec] /\ e0 \in EngRec
  BY <1>1, <1>2 DEF SpiNow
<1>4. ~j0.async => (e0.call = j0.call => Off(e0))
  BY <1>1, <1>2 DEF SpiNow, HostOk, Engines
<1> QED
  BY <1>1, <1>2, <1>3, <1>4, SpiOver

(* A piece is over, by the FIFO or by DMA.                                 *)
LEMMA PieceOver ==
  ASSUME SpiInv, NEW h \in Hosts, NEW j0, NEW e0, SpiNow(h, j0, e0), ~j0.async, j0.pieces # <<>>,
         spiJob' = [spiJob EXCEPT ![h].pc = "piece", ![h].pieces = Tail(@)],
         j0.moved \cup Cover(Tail(j0.pieces)) = All(j0), e0.call = j0.call => Off(e0),
         UNCHANGED <<spiHost, spiEngine, chanOwner, selector, spiCalls>>
  PROVE  SpiInv'
<1>1. PICK w : w = Tail(j0.pieces)
  OBVIOUS
<1>2. w \in Seq(PieceType)
  BY <1>1, CoverHead DEF SpiNow
<1>3. PICK j : j = JobGo(j0, "piece", w, j0.rounds, j0.moved, j0.bank)
  OBVIOUS
<1>4. /\ j \in JobRec /\ j.pc = "piece" /\ j.pieces = w /\ j.moved = j0.moved
      /\ j.call = j0.call /\ j.len = j0.len /\ j.async = j0.async
  <2>1. /\ j0 \in JobRec /\ j0.rounds \in Seq(PieceType) /\ j0.moved \in SUBSET Int /\ j0.bank \in Nat
        /\ "piece" \in SpiPcs
    BY DEF SpiNow, SpiPcs
  <2> QED
    BY <1>2, <1>3, <2>1, JobGoIs
<1>5. spiJob' = [spiJob EXCEPT ![h] = j]
  BY <1>1, <1>3 DEF SpiNow, JobGo, JobRec
<1>6. Lists(j, e0)
  BY <1>1, <1>4 DEF Lists, All
<1>7. Engines(j, e0)
  BY <1>4 DEF Engines
<1>8. HostOk(j, e0, spiCalls)
  BY <1>4, <1>6, <1>7 DEF SpiNow, HostOk
<1>9. spiEngine' = [spiEngine EXCEPT ![h] = e0] /\ spiHost' \in [Hosts -> SlotRec] /\ e0 \in EngRec
  BY DEF SpiNow
<1> QED
  BY <1>4, <1>5, <1>8, <1>9, SpiSteps

LEMMA FifoChunkedStep == ASSUME SpiInv, NEW h \in Hosts, FifoChunked(h) PROVE SpiInv'
<1>1. PICK j0, e0 : SpiNow(h, j0, e0)
  BY SpiNowIs
<1>2. /\ j0.pc = "fifo" /\ j0.rounds = <<>> /\ UNCHANGED <<spiHost, spiEngine, chanOwner, selector, spiCalls>>
      /\ spiJob' = [spiJob EXCEPT ![h].pc = "piece", ![h].pieces = Tail(@)]
  BY <1>1 DEF FifoChunked, At, SpiNow, spiRest, spiOthers
<1>3. ~j0.async
  BY <1>1, <1>2 DEF SpiNow, HostOk
<1>4. j0.pieces # <<>> /\ j0.moved \cup Cover(Tail(j0.pieces)) = All(j0)
  BY <1>1, <1>2, <1>3, CoverNone DEF SpiNow, HostOk, Lists
<1>5. e0.call = j0.call => Off(e0)
  BY <1>1, <1>2, <1>3 DEF SpiNow, HostOk, Engines
<1> QED
  BY <1>1, <1>2, <1>3, <1>4, <1>5, PieceOver

LEMMA WaitDmaDoneStep == ASSUME SpiInv, NEW h \in Hosts, WaitDmaDone(h) PROVE SpiInv'
<1>1. PICK j0, e0 : SpiNow(h, j0, e0)
  BY SpiNowIs
<1>2. /\ j0.pc = "wait" /\ e0.flags = Flags /\ UNCHANGED <<spiHost, spiEngine, chanOwner, selector, spiCalls>>
      /\ spiJob' = [spiJob EXCEPT ![h].pc = "piece", ![h].pieces = Tail(@)]
  BY <1>1 DEF WaitDmaDone, At, SpiNow, spiRest, spiOthers, dma_done
<1>3. ~j0.async
  BY <1>1, <1>2 DEF SpiNow, HostOk
<1>4. "in" \in e0.flags /\ "out" \in e0.flags
  BY <1>2 DEF Flags
<1>5. e0.tx = <<>> /\ e0.rx = <<>>
  BY <1>1, <1>2, <1>3, <1>4 DEF SpiNow, HostOk, Engines
<1>6. j0.pieces # <<>> /\ j0.moved \cup Cover(Tail(j0.pieces)) = All(j0)
  BY <1>1, <1>2, <1>3, <1>5, CoverNone DEF SpiNow, HostOk, Lists
<1>7. Off(e0)
  BY <1>5 DEF Off
<1> QED
  BY <1>1, <1>2, <1>3, <1>6, <1>7, PieceOver

LEMMA ByDmaStep == ASSUME SpiInv, NEW h \in Hosts, ByDma(h) PROVE SpiInv'
<1> USE SpiAssumption
<1>1. PICK j0, e0 : SpiNow(h, j0, e0)
  BY SpiNowIs
<1>2. PICK b : b = spiHost[h].bank
  OBVIOUS
<1>3. /\ j0.pc = "piece" /\ j0.pieces # <<>> /\ Head(j0.pieces).n > 0
      /\ UNCHANGED <<spiEngine, chanOwner, selector, spiCalls>>
      /\ spiHost' = [spiHost EXCEPT ![h].bank = 1 - @]
      /\ Ends(h, "error") \/ spiJob' = [spiJob EXCEPT ![h].pc = "reset", ![h].bank = b]
  BY <1>1, <1>2 DEF ByDma, At, SpiNow, spiRest, spiOthers, use_dma
<1>4. b \in Nat /\ spiEngine' = [spiEngine EXCEPT ![h] = e0] /\ e0 \in EngRec
  BY SMTT(30), <1>1, <1>2, <1>3 DEF SpiNow, SlotRec
<1>5. spiHost' \in [Hosts -> SlotRec]
  <2>1. 1 - b \in 0 .. 1
    BY SMTT(30), <1>1, <1>2 DEF SpiNow, SlotRec
  <2>2. PICK c : c = 1 - b
    OBVIOUS
  <2>3. spiHost' = [spiHost EXCEPT ![h].bank = c]
    BY <1>1, <1>2, <1>3, <2>2 DEF SpiNow
  <2> QED
    BY <1>1, <2>1, <2>2, <2>3 DEF SpiNow, SlotRec
<1>6. ~j0.async /\ (e0.call = j0.call => Off(e0))
  BY <1>1, <1>3 DEF SpiNow, HostOk, Engines
<1>7. CASE Ends(h, "error")
  BY <1>1, <1>3, <1>4, <1>5, <1>6, <1>7, SpiOver
<1>8. CASE spiJob' = [spiJob EXCEPT ![h].pc = "reset", ![h].bank = b]
  <2>1. PICK j : j = JobGo(j0, "reset", j0.pieces, j0.rounds, j0.moved, b)
    OBVIOUS
  <2>2. /\ j \in JobRec /\ j.pc = "reset" /\ j.pieces = j0.pieces /\ j.moved = j0.moved
        /\ j.call = j0.call /\ j.len = j0.len /\ j.async = j0.async
    BY SMTT(30), <1>1, <1>4, <2>1, JobGoIs DEF SpiNow, SpiPcs
  <2>3. spiJob' = [spiJob EXCEPT ![h] = j]
    BY <1>1, <1>8, <2>1 DEF SpiNow, JobGo, JobRec
  <2>4. Lists(j, e0)
    BY <1>1, <1>3, <1>6, <2>2 DEF SpiNow, HostOk, Lists, All
  <2>5. Engines(j, e0)
    BY <1>6, <2>2 DEF Engines
  <2>6. HostOk(j, e0, spiCalls)
    BY <1>1, <1>3, <2>2, <2>4, <2>5 DEF SpiNow, HostOk
  <2> QED
    BY <1>3, <1>4, <1>5, <2>2, <2>3, <2>6, SpiSteps
<1> QED
  BY <1>3, <1>7, <1>8

LEMMA FireResetStep == ASSUME SpiInv, NEW h \in Hosts, FireReset(h) PROVE SpiInv'
<1>1. PICK j0, e0 : SpiNow(h, j0, e0)
  BY SpiNowIs
<1>2. PICK e : e = Still
  OBVIOUS
<1>3. /\ e \in EngRec /\ e.tx = <<>> /\ e.rx = <<>> /\ e.call = 0 /\ e.flags = {} /\ ~e.go
  BY <1>2 DEF Still, EngRec
<1>4. /\ j0.pc = "reset" /\ UNCHANGED <<spiHost, chanOwner, selector, spiCalls>>
      /\ spiEngine' = [spiEngine EXCEPT ![h] = e] /\ spiJob' = [spiJob EXCEPT ![h].pc = "arm"]
  BY <1>1, <1>2 DEF FireReset, At, SpiNow, spiRest, spiOthers, SpiGoto
<1>5. PICK j : j = JobGo(j0, "arm", j0.pieces, j0.rounds, j0.moved, j0.bank)
  OBVIOUS
<1>6. /\ j \in JobRec /\ j.pc = "arm" /\ j.pieces = j0.pieces /\ j.moved = j0.moved
      /\ j.call = j0.call /\ j.len = j0.len /\ j.async = j0.async
  BY <1>1, <1>5, JobGoIs DEF SpiNow, SpiPcs
<1>7. spiJob' = [spiJob EXCEPT ![h] = j]
  BY <1>1, <1>4, <1>5 DEF SpiNow, JobGo, JobRec
<1>8. ~j.async => Lists(j, e)
  BY <1>1, <1>4, <1>6 DEF SpiNow, HostOk, Lists, All
<1>9. ~j.async => Engines(j, e)
  BY <1>3, <1>6 DEF Engines, Off
<1>10. HostOk(j, e, spiCalls)
  BY <1>1, <1>3, <1>4, <1>6, <1>8, <1>9 DEF SpiNow, HostOk
<1>11. spiHost' \in [Hosts -> SlotRec]
  BY <1>1, <1>4 DEF SpiNow
<1> QED
  BY <1>3, <1>4, <1>6, <1>7, <1>10, <1>11, SpiSteps

LEMMA FireArmStep == ASSUME SpiInv, NEW h \in Hosts, FireArm(h) PROVE SpiInv'
<1>1. PICK j0, e0 : SpiNow(h, j0, e0)
  BY SpiNowIs
<1>2. PICK p, w : p = Head(j0.pieces) /\ w = build_chain(p.at, p.n)
  OBVIOUS
<1>3. /\ j0.pc = "arm" /\ UNCHANGED <<spiHost, chanOwner, selector, spiCalls>>
      /\ spiEngine' = [spiEngine EXCEPT ![h] = [e0 EXCEPT !.tx = w, !.rx = w, !.call = j0.call, !.bank = j0.bank]]
      /\ spiJob' = [spiJob EXCEPT ![h].pc = "go"]
  BY <1>1, <1>2 DEF FireArm, At, SpiNow, spiRest, spiOthers, SpiGoto
<1>4. /\ j0.pieces # <<>> /\ p \in PieceType /\ p.n > 0
      /\ Cover(j0.pieces) = Span(p) \cup Cover(Tail(j0.pieces))
  <2>1. j0.pieces # <<>> /\ Head(j0.pieces).n > 0
    BY <1>1, <1>3 DEF SpiNow, HostOk
  <2> QED
    BY <1>1, <1>2, <2>1, CoverHead DEF SpiNow
<1>5. p.at \in Nat /\ p.n \in Nat
  BY <1>4 DEF PieceType
<1>6. w \in Seq(PieceType) /\ Cover(w) = Span(p)
  BY <1>2, <1>4, <1>5, ChainCovers DEF Span
<1>7. PICK e : e = Eng(e0, w, w, e0.buffer, e0.go, e0.flags, j0.call, j0.bank)
  OBVIOUS
<1>8. e \in EngRec /\ e.tx = w /\ e.rx = w /\ e.call = j0.call /\ e.flags = e0.flags /\ e.go = e0.go
  BY SMTT(30), <1>1, <1>6, <1>7, EngIs DEF SpiNow
<1>9. spiEngine' = [spiEngine EXCEPT ![h] = e]
  BY <1>1, <1>3, <1>7 DEF SpiNow, Eng, EngRec
<1>10. PICK j : j = JobGo(j0, "go", j0.pieces, j0.rounds, j0.moved, j0.bank)
  OBVIOUS
<1>11. /\ j \in JobRec /\ j.pc = "go" /\ j.pieces = j0.pieces /\ j.moved = j0.moved
       /\ j.call = j0.call /\ j.len = j0.len /\ j.async = j0.async
  BY SMTT(30), <1>1, <1>10, JobGoIs DEF SpiNow, SpiPcs
<1>12. spiJob' = [spiJob EXCEPT ![h] = j]
  BY <1>1, <1>3, <1>10 DEF SpiNow, JobGo, JobRec
<1>13. ~j0.async => j0.moved \cup Cover(j0.pieces) = All(j0)
  BY <1>1, <1>3 DEF SpiNow, HostOk, Lists
<1>14. ~j.async => Lists(j, e)
  BY <1>4, <1>6, <1>8, <1>11, <1>13 DEF Lists, All
<1>15. ~j.async => Engines(j, e)
  BY <1>1, <1>3, <1>8, <1>11 DEF SpiNow, HostOk, Engines
<1>16. HostOk(j, e, spiCalls)
  BY <1>1, <1>3, <1>8, <1>11, <1>14, <1>15 DEF SpiNow, HostOk
<1>17. spiHost' \in [Hosts -> SlotRec]
  BY <1>1, <1>3 DEF SpiNow
<1> QED
  BY <1>3, <1>8, <1>9, <1>11, <1>12, <1>16, <1>17, SpiSteps

LEMMA FireGoStep == ASSUME SpiInv, NEW h \in Hosts, FireGo(h) PROVE SpiInv'
<1>1. PICK j0, e0 : SpiNow(h, j0, e0)
  BY SpiNowIs
<1>2. PICK loc, on : loc = (IF j0.async THEN "await" ELSE "wait") /\ on = TRUE
  OBVIOUS
<1>3. /\ j0.pc = "go" /\ UNCHANGED <<spiHost, chanOwner, selector, spiCalls>>
      /\ spiEngine' = [spiEngine EXCEPT ![h].go = on]
      /\ spiJob' = [spiJob EXCEPT ![h].pc = loc]
  BY <1>1, <1>2 DEF FireGo, At, SpiNow, spiRest, spiOthers, SpiGoto
<1>4. PICK e : e = Eng(e0, e0.tx, e0.rx, e0.buffer, on, e0.flags, e0.call, e0.bank)
  OBVIOUS
<1>5. e \in EngRec /\ e.tx = e0.tx /\ e.rx = e0.rx /\ e.call = e0.call /\ e.flags = e0.flags
  <2>1. on \in BOOLEAN
    BY <1>2
  <2> QED
    BY SMTT(30), <1>1, <1>4, <2>1, EngIs DEF SpiNow
<1>6. spiEngine' = [spiEngine EXCEPT ![h] = e]
  BY <1>1, <1>3, <1>4 DEF SpiNow, Eng, EngRec
<1>7. PICK j : j = JobGo(j0, loc, j0.pieces, j0.rounds, j0.moved, j0.bank)
  OBVIOUS
<1>8. /\ j \in JobRec /\ j.pc = loc /\ j.pieces = j0.pieces /\ j.moved = j0.moved
      /\ j.call = j0.call /\ j.len = j0.len /\ j.async = j0.async
  <2>1. loc \in SpiPcs
    BY <1>2 DEF SpiPcs
  <2> QED
    BY SMTT(30), <1>1, <1>7, <2>1, JobGoIs DEF SpiNow
<1>9. spiJob' = [spiJob EXCEPT ![h] = j]
  BY <1>1, <1>3, <1>7 DEF SpiNow, JobGo, JobRec
<1>10. ~j.async => j.pc = "wait"
  BY <1>2, <1>8
<1>11. j.async => j.pc = "await"
  BY <1>2, <1>8
<1>12. ~j.async => Lists(j, e)
  BY <1>1, <1>3, <1>5, <1>8, <1>10 DEF SpiNow, HostOk, Lists, All
<1>13. ~j.async => Engines(j, e)
  BY <1>1, <1>3, <1>5, <1>8, <1>10 DEF SpiNow, HostOk, Engines
<1>14. HostOk(j, e, spiCalls)
  BY <1>1, <1>5, <1>8, <1>10, <1>11, <1>12, <1>13 DEF SpiNow, HostOk
<1>15. spiHost' \in [Hosts -> SlotRec] /\ j.pc # "select"
  BY <1>1, <1>3, <1>2, <1>8 DEF SpiNow
<1> QED
  BY <1>3, <1>5, <1>6, <1>8, <1>9, <1>14, <1>15, SpiSteps

LEMMA WaitTimeoutStep == ASSUME SpiInv, NEW h \in Hosts, WaitTimeout(h) PROVE SpiInv'
<1>1. PICK j0, e0 : SpiNow(h, j0, e0)
  BY SpiNowIs
<1>0. PICK w : w = <<>>
  OBVIOUS
<1>2. w = <<>> /\ w \in Seq(PieceType)
  BY <1>0
<1>3. /\ j0.pc = "wait" /\ UNCHANGED <<spiHost, chanOwner, selector, spiCalls>>
      /\ spiEngine' = [spiEngine EXCEPT ![h].tx = w, ![h].rx = w] /\ Ends(h, "timeout")
  BY <1>1, <1>2 DEF WaitTimeout, At, SpiNow, spiRest, spiOthers
<1>4. PICK e : e = Eng(e0, w, w, e0.buffer, e0.go, e0.flags, e0.call, e0.bank)
  OBVIOUS
<1>5. e \in EngRec /\ e.tx = w /\ e.rx = w /\ e.call = e0.call
  <2>1. /\ e0 \in EngRec /\ w \in Seq(PieceType) /\ e0.buffer \in Nat /\ e0.go \in BOOLEAN
        /\ e0.flags \in SUBSET Flags /\ e0.call \in Nat /\ e0.bank \in Nat
    BY <1>1, <1>2 DEF SpiNow
  <2> QED
    BY <1>4, <2>1, EngIs
<1>6. spiEngine' = [spiEngine EXCEPT ![h] = e]
  BY <1>1, <1>3, <1>4 DEF SpiNow, Eng, EngRec
<1>7. Off(e) /\ spiHost' \in [Hosts -> SlotRec]
  BY <1>1, <1>2, <1>3, <1>5 DEF Off, SpiNow
<1> QED
  BY ZenonT(60), <1>1, <1>3, <1>5, <1>6, <1>7, SpiOver

LEMMA ExchangeAsyncStep == ASSUME SpiInv, NEW h \in Hosts, NEW n \in OpLens, ExchangeAsync(h, n) PROVE SpiInv'
<1> USE SpiAssumption
<1>1. PICK j0, e0 : SpiNow(h, j0, e0)
  BY SpiNowIs
<1>2. PICK b, w : b = spiHost[h].bank /\ w = <<[at |-> 0, n |-> n]>>
  OBVIOUS
<1>3. n \in Nat /\ n > 0 /\ b \in 0 .. 1
  BY <1>1, <1>2 DEF ExchangeAsync, SpiNow, SlotRec
<1>4. w \in Seq(PieceType) /\ w # <<>> /\ Head(w).n > 0
  <2>1. PICK p : p = [at |-> 0, n |-> n]
    OBVIOUS
  <2>2. p \in PieceType /\ p.n > 0
    BY <1>3, <2>1 DEF PieceType
  <2>3. w = <<p>>
    BY <1>2, <2>1
  <2> QED
    BY <2>2, <2>3
<1>5. PICK j : j = [NoJob EXCEPT !.pc = "begin", !.call = spiCalls + 1, !.len = n, !.async = TRUE,
                                 !.bank = b, !.pieces = w]
  OBVIOUS
<1>6. j \in JobRec /\ j.pc = "begin" /\ j.call = spiCalls + 1 /\ j.pieces = w /\ j.async
  <2>1. spiCalls + 1 \in Nat /\ <<>> \in Seq(PieceType) /\ "begin" \in SpiPcs /\ {} \in SUBSET Int /\ b \in Nat
    BY <1>1, <1>3 DEF SpiNow, SpiPcs
  <2>2. j = [pc |-> "begin", call |-> spiCalls + 1, len |-> n, pieces |-> w, rounds |-> <<>>, try |-> 0,
             async |-> TRUE, reach |-> TRUE, bank |-> b, moved |-> {}, outcome |-> "none"]
    BY <1>5 DEF NoJob
  <2> QED
    BY <1>3, <1>4, <2>1, <2>2 DEF JobRec
<1>7. SpiMoves(h, j, e0)
  BY <1>1, <1>2, <1>5 DEF ExchangeAsync, SpiMoves, SpiNow
<1>8. e0.call <= spiCalls
  BY <1>1 DEF SpiNow, HostOk
<1>9. spiCalls' = spiCalls + 1 /\ UNCHANGED <<chanOwner, selector>>
  BY DEF ExchangeAsync
<1>13. spiHost' = [spiHost EXCEPT ![h].bank = 1 - @, ![h].intEna = TRUE]
  BY DEF ExchangeAsync
<1>10. spiHost' \in [Hosts -> SlotRec]
  <2>1. 1 - b \in 0 .. 1
    BY <1>3
  <2>2. PICK c : c = 1 - b
    OBVIOUS
  <2>3. spiHost' = [spiHost EXCEPT ![h].bank = c, ![h].intEna = TRUE]
    BY <1>1, <1>2, <1>13, <2>2 DEF SpiNow
  <2> QED
    BY <1>1, <2>1, <2>2, <2>3 DEF SpiNow, SlotRec
<1>11. HostOk(j, e0, spiCalls')
  BY <1>1, <1>4, <1>6, <1>8, <1>9 DEF HostOk, SpiNow
<1>12. spiCalls' \in Nat /\ spiCalls <= spiCalls' /\ e0 \in EngRec
  BY SMTT(30), <1>1, <1>9 DEF SpiNow
<1> QED
  BY <1>6, <1>7, <1>9, <1>10, <1>11, <1>12, HostOnly

LEMMA AsyncBeginStep == ASSUME SpiInv, NEW h \in Hosts, AsyncBegin(h) PROVE SpiInv'
<1>1. PICK j0, e0 : SpiNow(h, j0, e0)
  BY SpiNowIs
<1>2. /\ j0.pc = "begin" /\ UNCHANGED <<spiEngine, chanOwner, selector, spiCalls>>
      /\ \/ Ends(h, "error") /\ spiHost' = spiHost
         \/ /\ spiJob' = [spiJob EXCEPT ![h].pc = "reset"]
            /\ spiHost' = [spiHost EXCEPT ![h].pending = j0.call]
  BY <1>1 DEF AsyncBegin, At, SpiNow, spiRest, spiOthers, SpiGoto
<1>3. spiEngine' = [spiEngine EXCEPT ![h] = e0] /\ e0 \in EngRec
  BY <1>1, <1>2 DEF SpiNow
<1>4. spiHost' \in [Hosts -> SlotRec]
  <2>1. CASE spiHost' = spiHost
    BY <1>1, <2>1 DEF SpiNow
  <2>2. CASE spiHost' = [spiHost EXCEPT ![h].pending = j0.call]
    <3>1. j0.call \in Nat /\ spiHost \in [Hosts -> SlotRec]
      BY <1>1 DEF SpiNow
    <3> QED
      BY <2>2, <3>1 DEF SlotRec
  <2> QED
    BY <1>2, <2>1, <2>2
<1>5. j0.pieces # <<>> /\ Head(j0.pieces).n > 0
  BY <1>1, <1>2 DEF SpiNow, HostOk
<1>6. CASE Ends(h, "error")
  <2>1. ~j0.async /\ e0.call = j0.call => Off(e0)
    BY <1>1, <1>2 DEF SpiNow, HostOk, Engines
  <2> QED
    BY <1>1, <1>2, <1>3, <1>4, <1>6, <2>1, SpiOver
<1>7. CASE spiJob' = [spiJob EXCEPT ![h].pc = "reset"]
  <2>1. PICK j : j = JobGo(j0, "reset", j0.pieces, j0.rounds, j0.moved, j0.bank)
    OBVIOUS
  <2>2. /\ j \in JobRec /\ j.pc = "reset" /\ j.pieces = j0.pieces /\ j.moved = j0.moved
        /\ j.call = j0.call /\ j.len = j0.len /\ j.async = j0.async
    BY SMTT(30), <1>1, <2>1, JobGoIs DEF SpiNow, SpiPcs
  <2>3. spiJob' = [spiJob EXCEPT ![h] = j]
    BY <1>1, <1>7, <2>1 DEF SpiNow, JobGo, JobRec
  <2>4. HostOk(j, e0, spiCalls)
    BY <1>1, <1>2, <1>5, <2>2 DEF SpiNow, HostOk
  <2> QED
    BY <1>2, <1>3, <1>4, <2>2, <2>3, <2>4, SpiSteps
<1> QED
  BY <1>2, <1>6, <1>7

LEMMA AwaitAsyncStep == ASSUME SpiInv, NEW h \in Hosts, AwaitAsync(h) PROVE SpiInv'
<1>1. PICK j0, e0 : SpiNow(h, j0, e0)
  BY SpiNowIs
<1>2. PICK how : how = IF spiJob[h].call \in spiSignalled THEN "ok" ELSE "timeout"
  OBVIOUS
<1>3. j0.pc = "await" /\ Ends(h, how) /\ UNCHANGED <<spiHost, spiEngine, chanOwner, selector, spiCalls>>
  BY <1>1, <1>2 DEF AwaitAsync, At, SpiNow, spiRest, spiOthers
<1>4. spiEngine' = [spiEngine EXCEPT ![h] = e0] /\ spiHost' \in [Hosts -> SlotRec] /\ e0 \in EngRec
  BY <1>1, <1>3 DEF SpiNow
<1>5. j0.async /\ how \in {"ok", "timeout", "error"}
  BY <1>1, <1>2, <1>3 DEF SpiNow, HostOk
<1> QED
  BY ZenonT(60), <1>1, <1>3, <1>4, <1>5, SpiOver

(* The engine moves on under a call that does not.                         *)
LEMMA EngineMoves ==
  ASSUME SpiInv, NEW h \in Hosts, NEW j0, NEW e0, SpiNow(h, j0, e0), NEW e \in EngRec, NEW m \in SUBSET Int,
         spiEngine' = [spiEngine EXCEPT ![h] = e],
         spiJob' = [spiJob EXCEPT ![h].moved = m],
         e.call = e0.call,
         Engines(j0, e0) /\ ~j0.async => Engines(j0, e),
         ~j0.async /\ j0.pc \in {"go", "wait"} => j0.moved \cup Cover(e0.rx) = m \cup Cover(e.rx),
         ~j0.async /\ j0.pc \notin {"go", "wait"} => j0.moved = m,
         UNCHANGED <<spiHost, chanOwner, selector, spiCalls>>
  PROVE  SpiInv'
<1>1. PICK j : j = [j0 EXCEPT !.moved = m]
  OBVIOUS
<1>2. /\ j \in JobRec /\ j.pc = j0.pc /\ j.pieces = j0.pieces /\ j.rounds = j0.rounds /\ j.moved = m
      /\ j.call = j0.call /\ j.len = j0.len /\ j.async = j0.async /\ j.outcome = j0.outcome /\ j.try = j0.try
  BY <1>1 DEF SpiNow, JobRec
<1>3. spiJob' = [spiJob EXCEPT ![h] = j]
  BY <1>1 DEF SpiNow
<1>4. ~j.async => Lists(j, e)
  <2>1. SUFFICES ASSUME ~j0.async PROVE Lists(j, e)
    BY <1>2
  <2>2. Lists(j0, e0)
    BY <2>1 DEF SpiNow, HostOk
  <2>3. CASE j0.pc \in {"go", "wait"}
    <3>1. m \cup Cover(e.rx) \cup Cover(Tail(j0.pieces)) = All(j0) /\ j0.pieces # <<>>
      BY <2>1, <2>2, <2>3 DEF Lists
    <3> QED
      BY <1>2, <2>3, <3>1 DEF Lists, All
  <2>4. CASE j0.pc \notin {"go", "wait"}
    BY <1>2, <2>1, <2>2, <2>4 DEF Lists, All
  <2> QED
    BY <2>3, <2>4
<1>5. ~j.async => Engines(j, e)
  BY <1>2 DEF SpiNow, HostOk, Engines
<1>6. HostOk(j, e, spiCalls)
  BY <1>2, <1>4, <1>5 DEF SpiNow, HostOk
<1>7. SpiMoves(h, j, e)
  BY <1>3 DEF SpiMoves
<1>8. spiCalls \in Nat /\ spiCalls' = spiCalls /\ spiCalls <= spiCalls' /\ spiHost' \in [Hosts -> SlotRec]
  BY SMTT(20) DEF SpiNow
<1>9. j.pc = "select" => spiJob[h].pc = "select" /\ j.try = spiJob[h].try
  BY <1>2 DEF SpiNow
<1> QED
  BY <1>2, <1>6, <1>7, <1>8, <1>9, HostOnly

LEMMA TopAcksStep == ASSUME SpiInv, NEW h \in Hosts, TopAcks(h) PROVE SpiInv'
<1>1. PICK j0, e0 : SpiNow(h, j0, e0)
  BY SpiNowIs
<1>0. PICK fl : fl = {}
  OBVIOUS
<1>2. fl = {} /\ fl \in SUBSET Flags
  BY <1>0
<1>3. /\ spiEngine' = [spiEngine EXCEPT ![h].flags = fl] /\ UNCHANGED <<spiHost, spiJob, chanOwner, selector, spiCalls>>
  BY <1>2 DEF TopAcks
<1>4. PICK e : e = Eng(e0, e0.tx, e0.rx, e0.buffer, e0.go, fl, e0.call, e0.bank)
  OBVIOUS
<1>5. e \in EngRec /\ e.tx = e0.tx /\ e.rx = e0.rx /\ e.call = e0.call /\ e.go = e0.go /\ e.flags = fl
  BY SMTT(30), <1>1, <1>2, <1>4, EngIs DEF SpiNow
<1>6. spiEngine' = [spiEngine EXCEPT ![h] = e]
  BY <1>1, <1>3, <1>4 DEF SpiNow, Eng, EngRec
<1>7. spiJob' = [spiJob EXCEPT ![h].moved = j0.moved] /\ j0.moved \in SUBSET Int
  BY <1>1, <1>3 DEF SpiNow, JobRec
<1>8. Engines(j0, e0) => Engines(j0, e)
  BY <1>2, <1>5 DEF Engines, Off
<1>9. PICK m : m = j0.moved
  OBVIOUS
<1>10. /\ spiJob' = [spiJob EXCEPT ![h].moved = m] /\ m \in SUBSET Int
       /\ j0.moved \cup Cover(e0.rx) = m \cup Cover(e.rx)
  BY <1>5, <1>7, <1>9
<1>11. UNCHANGED <<spiHost, chanOwner, selector, spiCalls>> /\ e.call = e0.call /\ e \in EngRec
  BY <1>3, <1>5
<1> QED
  BY <1>1, <1>6, <1>8, <1>9, <1>10, <1>11, EngineMoves

LEMMA SpiShiftsStep == ASSUME SpiInv, NEW h \in Hosts, SpiShifts(h) PROVE SpiInv'
<1>1. PICK j0, e0 : SpiNow(h, j0, e0)
  BY SpiNowIs
<1>2. PICK m : m = j0.moved
  OBVIOUS
<1>3. spiJob' = [spiJob EXCEPT ![h].moved = m] /\ m \in SUBSET Int /\ UNCHANGED <<spiHost, chanOwner, selector, spiCalls>>
  BY <1>1, <1>2 DEF SpiNow, JobRec, SpiShifts, spiRest, spiOthers
<1>4. e0.go
  BY <1>1 DEF SpiNow, SpiShifts
<1>5. ASSUME NEW tx \in Seq(PieceType), NEW buffer \in Nat, NEW go \in BOOLEAN, NEW flags \in SUBSET Flags,
             spiEngine' = [spiEngine EXCEPT ![h] = Eng(e0, tx, e0.rx, buffer, go, flags, e0.call, e0.bank)],
             e0.tx = <<>> => tx = <<>>, "in" \in flags => "in" \in e0.flags,
             "out" \in flags => "out" \in e0.flags \/ tx = <<>>
      PROVE  SpiInv'
  <2>1. PICK e : e = Eng(e0, tx, e0.rx, buffer, go, flags, e0.call, e0.bank)
    OBVIOUS
  <2>2. e \in EngRec /\ e.tx = tx /\ e.rx = e0.rx /\ e.call = e0.call /\ e.go = go /\ e.flags = flags
    <3>1. e0 \in EngRec /\ e0.rx \in Seq(PieceType) /\ e0.call \in Nat /\ e0.bank \in Nat
      BY <1>1 DEF SpiNow
    <3> QED
      BY <1>5, <2>1, <3>1, EngIs
  <2>3. spiEngine' = [spiEngine EXCEPT ![h] = e]
    BY <1>5, <2>1
  <2>4. Engines(j0, e0) => Engines(j0, e)
    <3>1. SUFFICES ASSUME Engines(j0, e0) PROVE Engines(j0, e)
      OBVIOUS
    <3>2. j0.pc # "arm" /\ j0.pc # "go"
      BY <1>4, <3>1 DEF Engines
    <3> QED
      BY <1>5, <2>2, <3>1, <3>2 DEF Engines, Off
  <2>5. j0.moved \cup Cover(e0.rx) = m \cup Cover(e.rx)
    BY <1>2, <2>2
  <2> QED
    BY <1>1, <1>2, <1>3, <2>2, <2>3, <2>4, <2>5, EngineMoves
<1>6. CASE e0.tx # <<>>
  <2>1. PICK tx, flags : tx = Tail(e0.tx) /\ flags = IF Len(e0.tx) = 1 THEN e0.flags \cup {"out"} ELSE e0.flags
    OBVIOUS
  <2>2. tx \in Seq(PieceType) /\ Len(tx) = Len(e0.tx) - 1
    BY <1>1, <1>6, <2>1, CoverHead DEF SpiNow
  <2>3. Len(e0.tx) = 1 => tx = <<>>
    BY <2>2, EmptySeq
  <2>4. flags \in SUBSET Flags
    BY <1>1, <2>1 DEF SpiNow, Flags
  <2>5. spiEngine' = [spiEngine EXCEPT ![h] =
                        [(IF Len(e0.tx) = 1 THEN [e0 EXCEPT !.flags = @ \cup {"out"}] ELSE e0) EXCEPT !.tx = Tail(@)]]
    BY <1>1, <1>6 DEF SpiNow, SpiShifts
  <2>6. spiEngine' = [spiEngine EXCEPT ![h] = Eng(e0, tx, e0.rx, e0.buffer, e0.go, flags, e0.call, e0.bank)]
    <3>0. e0 \in EngRec
      BY <1>1 DEF SpiNow
    <3>1. CASE Len(e0.tx) = 1
      <4>1. [(IF Len(e0.tx) = 1 THEN [e0 EXCEPT !.flags = @ \cup {"out"}] ELSE e0) EXCEPT !.tx = Tail(@)]
              = [[e0 EXCEPT !.flags = flags] EXCEPT !.tx = tx]
        BY <2>1, <3>0, <3>1 DEF EngRec
      <4>2. [[e0 EXCEPT !.flags = flags] EXCEPT !.tx = tx] = Eng(e0, tx, e0.rx, e0.buffer, e0.go, flags, e0.call, e0.bank)
        BY <3>0 DEF Eng, EngRec
      <4> QED
        BY <2>5, <4>1, <4>2
    <3>2. CASE Len(e0.tx) # 1
      <4>1. [(IF Len(e0.tx) = 1 THEN [e0 EXCEPT !.flags = @ \cup {"out"}] ELSE e0) EXCEPT !.tx = Tail(@)]
              = [e0 EXCEPT !.tx = tx]
        BY <2>1, <3>0, <3>2 DEF EngRec
      <4>2. [e0 EXCEPT !.tx = tx] = Eng(e0, tx, e0.rx, e0.buffer, e0.go, flags, e0.call, e0.bank)
        BY <2>1, <3>0, <3>2 DEF Eng, EngRec
      <4> QED
        BY <2>5, <4>1, <4>2
    <3> QED
      BY <3>1, <3>2
  <2>7. e0.buffer \in Nat /\ e0.go \in BOOLEAN
    BY <1>1 DEF SpiNow
  <2>8. ("in" \in flags => "in" \in e0.flags) /\ ("out" \in flags => "out" \in e0.flags \/ tx = <<>>)
    BY <2>1, <2>3
  <2> QED
    BY <1>5, <1>6, <2>2, <2>4, <2>6, <2>7, <2>8
<1>7. CASE e0.tx = <<>>
  <2>1. PICK flags, no : flags = e0.flags \cup {"done"} /\ no = FALSE
    OBVIOUS
  <2>2. spiEngine' = [spiEngine EXCEPT ![h].go = no, ![h].buffer = 0, ![h].flags = flags]
    BY <1>1, <1>7, <2>1 DEF SpiNow, SpiShifts
  <2>3. spiEngine' = [spiEngine EXCEPT ![h] = Eng(e0, e0.tx, e0.rx, 0, no, flags, e0.call, e0.bank)]
    BY <1>1, <2>2 DEF SpiNow, Eng, EngRec
  <2>4. flags \in SUBSET Flags /\ no \in BOOLEAN /\ 0 \in Nat /\ e0.tx \in Seq(PieceType)
    BY <1>1, <2>1 DEF SpiNow, Flags
  <2>5. ("in" \in flags => "in" \in e0.flags) /\ ("out" \in flags => "out" \in e0.flags)
    BY <2>1
  <2> QED
    BY <1>5, <1>7, <2>3, <2>4, <2>5
<1> QED
  BY <1>6, <1>7

LEMMA SpiLandsStep == ASSUME SpiInv, NEW h \in Hosts, SpiLands(h) PROVE SpiInv'
<1>1. PICK j0, e0 : SpiNow(h, j0, e0)
  BY SpiNowIs
<1>2. PICK p, rx : p = Head(e0.rx) /\ rx = Tail(e0.rx)
  OBVIOUS
<1>3. PICK m : m = IF e0.call = j0.call THEN j0.moved \cup Span(p) ELSE j0.moved
  OBVIOUS
<1>4. PICK flags : flags = e0.flags \cup (IF Len(e0.rx) = 1 THEN {"in"} ELSE {})
  OBVIOUS
<1>5. /\ Len(e0.rx) > Len(e0.tx) /\ UNCHANGED <<spiHost, chanOwner, selector, spiCalls>>
      /\ spiEngine' = [spiEngine EXCEPT ![h].rx = rx, ![h].flags = flags]
      /\ spiJob' = IF e0.call = j0.call THEN [spiJob EXCEPT ![h].moved = j0.moved \cup Span(p)] ELSE spiJob
  BY <1>1, <1>2, <1>4 DEF SpiNow, SpiLands, spiRest, spiOthers
<1>6. Len(e0.tx) \in Nat /\ e0.rx # <<>>
  BY <1>1, <1>5 DEF SpiNow
<1>7. p \in PieceType /\ rx \in Seq(PieceType) /\ Len(rx) = Len(e0.rx) - 1 /\ Cover(e0.rx) = Span(p) \cup Cover(rx)
  BY <1>1, <1>2, <1>6, CoverHead DEF SpiNow
<1>8. Len(e0.rx) = 1 => rx = <<>>
  BY <1>7, EmptySeq
<1>9. m \in SUBSET Int
  BY <1>1, <1>3, <1>7 DEF SpiNow, Span, PieceType
<1>10. spiJob' = [spiJob EXCEPT ![h].moved = m]
  BY <1>1, <1>3, <1>5 DEF SpiNow, JobRec
<1>11. PICK e : e = Eng(e0, e0.tx, rx, e0.buffer, e0.go, flags, e0.call, e0.bank)
  OBVIOUS
<1>12. e \in EngRec /\ e.tx = e0.tx /\ e.rx = rx /\ e.call = e0.call /\ e.go = e0.go /\ e.flags = flags
  <2>1. /\ e0 \in EngRec /\ e0.tx \in Seq(PieceType) /\ e0.buffer \in Nat /\ e0.go \in BOOLEAN
        /\ flags \in SUBSET Flags /\ e0.call \in Nat /\ e0.bank \in Nat
    BY <1>1, <1>4 DEF SpiNow, Flags
  <2> QED
    BY <1>7, <1>11, <2>1, EngIs
<1>13. spiEngine' = [spiEngine EXCEPT ![h] = e]
  BY <1>1, <1>5, <1>11 DEF SpiNow, Eng, EngRec
<1>14. ASSUME Engines(j0, e0)
       PROVE  Engines(j0, e) /\ (j0.pc \notin {"go", "wait"} => m = j0.moved)
  <2>1. ~Off(e0) /\ j0.pc # "arm" /\ j0.pc # "go"
    BY <1>5, <1>6, <1>14 DEF Engines, Off
  <2>2. j0.pc # "wait" => e0.call # j0.call
    BY <1>14, <2>1 DEF Engines
  <2>3. "out" \in flags => "out" \in e0.flags
    BY <1>4
  <2>4. "in" \in flags => rx = <<>> \/ "in" \in e0.flags
    BY <1>4, <1>8
  <2>5. Engines(j0, e)
    BY <1>6, <1>12, <1>14, <2>1, <2>2, <2>3, <2>4 DEF Engines
  <2> QED
    BY <1>3, <2>2, <2>5
<1>15. ~j0.async => Engines(j0, e0)
  BY <1>1 DEF SpiNow, HostOk
<1>16. ~j0.async /\ j0.pc \in {"go", "wait"} => j0.moved \cup Cover(e0.rx) = m \cup Cover(e.rx)
  <2>1. SUFFICES ASSUME ~j0.async, j0.pc \in {"go", "wait"} PROVE j0.moved \cup Cover(e0.rx) = m \cup Cover(e.rx)
    OBVIOUS
  <2>2. e0.call = j0.call
    BY <1>15, <2>1 DEF Engines
  <2> QED
    BY <1>3, <1>7, <1>12, <2>2
<1>17. UNCHANGED <<spiHost, chanOwner, selector, spiCalls>> /\ e.call = e0.call /\ e \in EngRec
  BY <1>5, <1>12
<1>18. ~j0.async /\ j0.pc \notin {"go", "wait"} => j0.moved = m
  BY <1>14, <1>15
<1>19. Engines(j0, e0) => Engines(j0, e)
  BY <1>14
<1> QED
  BY <1>1, <1>9, <1>10, <1>13, <1>16, <1>17, <1>18, <1>19, EngineMoves

LEMMA SpiSlots ==
  ASSUME SpiInv, NEW h \in Hosts, ConnectTop(h) \/ (\E on \in BOOLEAN : SetDma(h, on)) \/ TopTakes(h)
  PROVE  SpiInv'
<1>1. UNCHANGED <<chanOwner, selector, spiJob, spiEngine, spiCalls>>
  BY DEF ConnectTop, SetDma, TopTakes, spiRest, spiOthers
<1>2. spiHost \in [Hosts -> SlotRec]
  BY DEF SpiInv, SpiTyped
<1>3. spiHost' \in [Hosts -> SlotRec]
  <2>1. CASE ConnectTop(h)
    BY <1>2, <2>1 DEF ConnectTop, SlotRec
  <2>2. CASE \E on \in BOOLEAN : SetDma(h, on)
    BY <1>2, <2>2 DEF SetDma, SlotRec
  <2>3. CASE TopTakes(h)
    BY <1>2, <2>3 DEF TopTakes, SlotRec
  <2> QED
    BY <2>1, <2>2, <2>3
<1> QED
  BY <1>1, <1>3, SpiSlot

LEMMA SpiStays == SpiInv /\ [SpiNext]_spiVars => SpiInv'
<1> SUFFICES ASSUME SpiInv, [SpiNext]_spiVars PROVE SpiInv'
  OBVIOUS
<1>1. CASE UNCHANGED spiVars
  <2>1. spiHost' \in [Hosts -> SlotRec] /\ UNCHANGED <<chanOwner, selector, spiJob, spiEngine, spiCalls>>
    BY <1>1 DEF spiVars, SpiInv, SpiTyped
  <2> QED
    BY <2>1, SpiSlot
<1>2. ASSUME NEW h \in Hosts,
             SpiOpen(h) \/ InitFails(h) \/ InitRoutes(h) \/ ClaimChan(h) \/ SetSelector(h)
      PROVE  SpiInv'
  BY <1>2, SpiSetup
<1>3. ASSUME NEW h \in Hosts, ConnectTop(h) \/ (\E on \in BOOLEAN : SetDma(h, on)) \/ TopTakes(h)
      PROVE  SpiInv'
  BY <1>3, SpiSlots
<1>4. ASSUME NEW h \in Hosts,
             PiecesDone(h) \/ ByFifo(h) \/ FifoStart(h) \/ FifoEnd(h) \/ FifoTimeout(h) \/ FifoChunked(h)
      PROVE  SpiInv'
  BY <1>4, PiecesDoneStep, ByFifoStep, FifoStartStep, FifoEndStep, FifoTimeoutStep, FifoChunkedStep
<1>5. ASSUME NEW h \in Hosts,
             ByDma(h) \/ FireReset(h) \/ FireArm(h) \/ FireGo(h) \/ WaitDmaDone(h) \/ WaitTimeout(h)
      PROVE  SpiInv'
  BY <1>5, ByDmaStep, FireResetStep, FireArmStep, FireGoStep, WaitDmaDoneStep, WaitTimeoutStep
<1>6. ASSUME NEW h \in Hosts, AsyncBegin(h) \/ AwaitAsync(h) \/ TopAcks(h) \/ SpiShifts(h) \/ SpiLands(h)
      PROVE  SpiInv'
  BY <1>6, AsyncBeginStep, AwaitAsyncStep, TopAcksStep, SpiShiftsStep, SpiLandsStep
<1>7. ASSUME SpiNext PROVE SpiInv'
  BY <1>2, <1>3, <1>4, <1>5, <1>6, <1>7, BusTransferStep, ExchangeAsyncStep, SpiAssumption, Zenon DEF SpiNext
<1> QED
  BY <1>1, <1>7

(* What earlier transfers left in an engine.  A polled call that has met   *)
(* none of it has lost nothing, shifts over no other transaction, and      *)
(* runs its DMA with no FIFO transfer before it.                           *)
ResRec == [fifo : Nat, over : BOOLEAN, short : SUBSET Int, mixed : BOOLEAN]
Clean(j, r) ==
  ~j.async /\ ~r.mixed =>
    /\ r.short = {}
    /\ j.pc = "shift" => ~r.over
    /\ j.pc \in {"go", "wait"} => r.fifo = 0
ResInv ==
  /\ spiResidue \in [Hosts -> ResRec]
  /\ \A h \in Hosts : Clean(spiJob[h], spiResidue[h])

LEMMA ResBegins == SpiInit => ResInv
BY DEF SpiInit, ResInv, ResRec, Clean, NoResidue, NoJob

(* A step that leaves the residue alone and starts nothing.                *)
Follows(k) ==
  /\ spiJob'[k].async = spiJob[k].async
  /\ spiJob'[k].pc = "shift" => spiJob[k].pc = "shift"
  /\ spiJob'[k].pc \in {"go", "wait"} => spiJob[k].pc \in {"go", "wait"}

LEMMA ResFollows ==
  ASSUME ResInv, UNCHANGED spiResidue, \A k \in Hosts : Follows(k)
  PROVE  ResInv'
BY DEF ResInv, Clean, Follows

(* A step of one host that changes its residue.                            *)
LEMMA ResMoves ==
  ASSUME ResInv, NEW h \in Hosts, NEW r \in ResRec, spiResidue' = [spiResidue EXCEPT ![h] = r],
         \A k \in Hosts : k # h => spiJob'[k] = spiJob[k],
         Clean(spiJob'[h], r)
  PROVE  ResInv'
<1>1. spiResidue' \in [Hosts -> ResRec]
  BY DEF ResInv
<1>2. ASSUME NEW k \in Hosts PROVE Clean(spiJob'[k], spiResidue'[k])
  <2>1. CASE k = h
    BY <2>1 DEF ResInv
  <2>2. CASE k # h
    BY <2>2 DEF ResInv
  <2> QED
    BY <2>1, <2>2
<1> QED
  BY <1>1, <1>2 DEF ResInv

LEMMA ResSetup ==
  ASSUME SpiInv, ResInv, NEW h \in Hosts,
         SpiOpen(h) \/ InitFails(h) \/ InitRoutes(h) \/ ClaimChan(h) \/ SetSelector(h)
  PROVE  ResInv'
<1>1. spiJob \in [Hosts -> JobRec]
  BY DEF SpiInv, SpiTyped
<1>2. UNCHANGED spiResidue
  BY DEF SpiOpen, InitFails, InitRoutes, ClaimChan, SetSelector, spiRest
<1>3. \A k \in Hosts : Follows(k)
  BY <1>1 DEF SpiOpen, InitFails, InitRoutes, ClaimChan, SetSelector, SpiGoto, At, Follows, JobRec
<1> QED
  BY <1>2, <1>3, ResFollows

LEMMA ResQuiet ==
  ASSUME SpiInv, ResInv, NEW h \in Hosts,
         \/ ConnectTop(h) \/ (\E on \in BOOLEAN : SetDma(h, on)) \/ TopAcks(h) \/ TopTakes(h)
         \/ SpiShifts(h)
  PROVE  ResInv'
<1>1. UNCHANGED <<spiResidue, spiJob>>
  BY DEF ConnectTop, SetDma, TopAcks, TopTakes, SpiShifts, spiRest
<1> QED
  BY <1>1, ResFollows DEF Follows

LEMMA EndsFollows ==
  ASSUME SpiInv, NEW h \in Hosts, NEW how, Ends(h, how)
  PROVE  \A k \in Hosts : Follows(k)
<1>1. spiJob \in [Hosts -> JobRec]
  BY DEF SpiInv, SpiTyped
<1>2. spiJob'[h].pc = "ready" /\ spiJob'[h].async = spiJob[h].async
  BY <1>1 DEF Ends, JobRec
<1>3. \A k \in Hosts : k # h => spiJob'[k] = spiJob[k]
  BY <1>1 DEF Ends
<1> QED
  BY <1>2, <1>3 DEF Follows

(* One host goes to l.                                                     *)
TurnsTo(h, l) ==
  /\ spiJob'[h].pc = l /\ spiJob'[h].async = spiJob[h].async
  /\ \A k \in Hosts : k # h => spiJob'[k] = spiJob[k]

LEMMA TurnFollows ==
  ASSUME NEW h \in Hosts, NEW l, TurnsTo(h, l), l \notin {"shift", "go"}, l = "wait" => spiJob[h].pc = "go"
  PROVE  \A k \in Hosts : Follows(k)
BY DEF Follows, TurnsTo

LEMMA ResTurns ==
  ASSUME SpiInv, ResInv, NEW h \in Hosts,
         \/ PiecesDone(h) \/ ByFifo(h) \/ FifoTimeout(h) \/ FifoChunked(h) \/ ByDma(h)
         \/ FireReset(h) \/ FireGo(h) \/ WaitDmaDone(h) \/ WaitTimeout(h) \/ AsyncBegin(h) \/ AwaitAsync(h)
  PROVE  ResInv'
<1>1. PICK j0, e0 : SpiNow(h, j0, e0)
  BY SpiNowIs
<1>2. UNCHANGED spiResidue
  BY DEF PiecesDone, ByFifo, FifoTimeout, FifoChunked, ByDma, FireReset, FireGo, WaitDmaDone, WaitTimeout,
         AsyncBegin, AwaitAsync, spiRest
<1>3. \A k \in Hosts : Follows(k)
  <2>1. CASE PiecesDone(h) \/ FifoTimeout(h) \/ WaitTimeout(h) \/ AwaitAsync(h)
    <3>1. PICK how : Ends(h, how)
      BY <2>1 DEF PiecesDone, FifoTimeout, WaitTimeout, AwaitAsync
    <3> QED
      BY <3>1, EndsFollows
  <2>2. ASSUME NEW l \in {"piece", "fifo", "reset"}, NEW pieces, spiJob' = [spiJob EXCEPT ![h].pc = l, ![h].pieces = pieces]
        PROVE  \A k \in Hosts : Follows(k)
    <3>1. TurnsTo(h, l)
      BY <1>1, <2>2 DEF SpiNow, JobRec, TurnsTo
    <3> QED
      BY <3>1, TurnFollows
  <2>3. ASSUME NEW l \in {"piece", "fifo", "reset"}, NEW rounds, spiJob' = [spiJob EXCEPT ![h].pc = l, ![h].rounds = rounds]
        PROVE  \A k \in Hosts : Follows(k)
    <3>1. TurnsTo(h, l)
      BY <1>1, <2>3 DEF SpiNow, JobRec, TurnsTo
    <3> QED
      BY <3>1, TurnFollows
  <2>4. ASSUME NEW l \in {"piece", "fifo", "reset"}, NEW b, spiJob' = [spiJob EXCEPT ![h].pc = l, ![h].bank = b]
        PROVE  \A k \in Hosts : Follows(k)
    <3>1. TurnsTo(h, l)
      BY <1>1, <2>4 DEF SpiNow, JobRec, TurnsTo
    <3> QED
      BY <3>1, TurnFollows
  <2>5. ASSUME NEW l \in {"reset", "await", "arm", "wait"}, SpiGoto(h, l), l = "wait" => spiJob[h].pc = "go"
        PROVE  \A k \in Hosts : Follows(k)
    <3>1. TurnsTo(h, l)
      BY <1>1, <2>5 DEF SpiNow, JobRec, TurnsTo, SpiGoto
    <3> QED
      BY <2>5, <3>1, TurnFollows
  <2>6. CASE FifoChunked(h) \/ WaitDmaDone(h)
    <3>1. spiJob' = [spiJob EXCEPT ![h].pc = "piece", ![h].pieces = Tail(j0.pieces)]
      BY <1>1, <2>6 DEF FifoChunked, WaitDmaDone, SpiNow
    <3> QED
      BY <2>2, <3>1
  <2>7. CASE ByFifo(h)
    <3>1. PICK w : w = Pieces(Head(spiJob[h].pieces).at, Head(spiJob[h].pieces).n, SPI_MAX_BYTES)
      OBVIOUS
    <3>2. Ends(h, "error") \/ spiJob' = [spiJob EXCEPT ![h].pc = "fifo", ![h].rounds = w]
      BY <2>7, <3>1 DEF ByFifo
    <3> QED
      BY <2>3, <3>2, EndsFollows
  <2>8. CASE ByDma(h)
    <3>1. PICK b : b = spiHost[h].bank
      OBVIOUS
    <3>2. Ends(h, "error") \/ spiJob' = [spiJob EXCEPT ![h].pc = "reset", ![h].bank = b]
      BY <2>8, <3>1 DEF ByDma
    <3> QED
      BY <2>4, <3>2, EndsFollows
  <2>9. CASE FireReset(h)
    BY <2>5, <2>9 DEF FireReset
  <2>10. CASE FireGo(h)
    <3>1. PICK l : l = IF spiJob[h].async THEN "await" ELSE "wait"
      OBVIOUS
    <3>2. SpiGoto(h, l) /\ spiJob[h].pc = "go" /\ l \in {"await", "wait"}
      BY <2>10, <3>1 DEF FireGo, At
    <3> QED
      BY <2>5, <3>2
  <2>11. CASE AsyncBegin(h)
    <3>1. Ends(h, "error") \/ SpiGoto(h, "reset")
      BY <2>11 DEF AsyncBegin
    <3> QED
      BY <2>5, <3>1, EndsFollows
  <2> QED
    BY <2>1, <2>6, <2>7, <2>8, <2>9, <2>10, <2>11
<1> QED
  BY <1>2, <1>3, ResFollows

(* A call begins.                                                          *)
LEMMA ResCalls ==
  ASSUME SpiInv, ResInv, NEW h \in Hosts, Afresh(h), NEW j, spiJob' = [spiJob EXCEPT ![h] = j],
         j.pc \in {"piece", "begin"}
  PROVE  ResInv'
<1>1. spiJob \in [Hosts -> JobRec] /\ spiResidue \in [Hosts -> ResRec]
  BY DEF SpiInv, SpiTyped, ResInv
<1>2. PICK r : r = [spiResidue[h] EXCEPT !.short = {}, !.mixed = FALSE]
  OBVIOUS
<1>3. r \in ResRec /\ r.short = {} /\ ~r.mixed
  BY <1>1, <1>2 DEF ResRec
<1>4. spiResidue' = [spiResidue EXCEPT ![h] = r]
  BY <1>1, <1>2 DEF Afresh
<1>5. spiJob'[h] = j /\ \A k \in Hosts : k # h => spiJob'[k] = spiJob[k]
  BY <1>1
<1>6. Clean(j, r)
  BY <1>3 DEF Clean
<1> QED
  BY <1>3, <1>4, <1>5, <1>6, ResMoves

LEMMA ResCalled ==
  ASSUME SpiInv, ResInv, NEW h \in Hosts, NEW n,
         \/ \E kind \in {"exchange", "stream"}, reach \in BOOLEAN : BusTransfer(h, kind, n, reach)
         \/ ExchangeAsync(h, n)
  PROVE  ResInv'
<1>1. ASSUME NEW kind, NEW reach, BusTransfer(h, kind, n, reach) PROVE ResInv'
  <2>1. PICK j : j = [NoJob EXCEPT !.pc = "piece", !.call = spiCalls + 1, !.len = n, !.reach = reach,
                        !.pieces = IF kind = "exchange" THEN <<[at |-> 0, n |-> n]>>
                                   ELSE Pieces(0, n, SPI_MAX_BYTES)]
    OBVIOUS
  <2>2. j.pc = "piece"
    BY <2>1 DEF NoJob
  <2>3. Calling(h, j)
    BY <1>1, <2>1, Zenon DEF BusTransfer
  <2>4. Afresh(h) /\ spiJob' = [spiJob EXCEPT ![h] = j]
    BY <2>3 DEF Calling
  <2> QED
    BY <2>2, <2>4, ResCalls
<1>2. ASSUME ExchangeAsync(h, n) PROVE ResInv'
  <2>1. PICK j : j = [NoJob EXCEPT !.pc = "begin", !.call = spiCalls + 1,
                        !.len = n, !.async = TRUE, !.bank = spiHost[h].bank,
                        !.pieces = <<[at |-> 0, n |-> n]>>]
    OBVIOUS
  <2>2. j.pc = "begin"
    BY <2>1 DEF NoJob
  <2>3. Afresh(h) /\ spiJob' = [spiJob EXCEPT ![h] = j]
    BY <1>2, <2>1 DEF ExchangeAsync
  <2> QED
    BY <2>2, <2>3, ResCalls
<1> QED
  BY <1>1, <1>2

(* The rounds of the FIFO: one that starts over another transaction is     *)
(* marked, and only a marked one loses anything.                           *)
LEMMA ResFifo ==
  ASSUME SpiInv, ResInv, NEW h \in Hosts, FifoStart(h) \/ FifoEnd(h)
  PROVE  ResInv'
<1>1. PICK j0, e0 : SpiNow(h, j0, e0)
  BY SpiNowIs
<1>2. PICK p, r0 : p = Head(j0.rounds) /\ r0 = spiResidue[h]
  OBVIOUS
<1>3. /\ r0 \in ResRec /\ Clean(j0, r0) /\ spiResidue \in [Hosts -> ResRec]
      /\ r0.fifo \in Nat /\ r0.over \in BOOLEAN /\ r0.short \in SUBSET Int /\ r0.mixed \in BOOLEAN
  BY <1>1, <1>2 DEF ResInv, ResRec, SpiNow
<1>4. ~j0.async /\ j0.rounds # <<>>
  BY <1>1 DEF SpiNow, HostOk, Lists, FifoStart, FifoEnd, At
<1>5. p \in PieceType /\ p.n \in Nat /\ Span(p) \in SUBSET Int
  <2>1. p \in PieceType
    BY <1>1, <1>2, <1>4, CoverHead DEF SpiNow
  <2> QED
    BY <2>1 DEF PieceType, Span
<1>6. CASE FifoStart(h)
  <2>1. PICK r : r = [r0 EXCEPT !.fifo = p.n, !.over = e0.go, !.mixed = r0.mixed \/ e0.go]
    OBVIOUS
  <2>2. r \in ResRec /\ r.over = e0.go /\ r.short = r0.short /\ r.mixed = (r0.mixed \/ e0.go)
    BY <1>1, <1>3, <1>5, <2>1 DEF ResRec, SpiNow
  <2>3. spiResidue' = [spiResidue EXCEPT ![h] = r]
    BY <1>1, <1>2, <1>3, <1>6, <2>1 DEF FifoStart, SpiNow, ResRec
  <2>4. /\ spiJob'[h].pc = "shift" /\ spiJob'[h].async = j0.async
        /\ \A k \in Hosts : k # h => spiJob'[k] = spiJob[k]
    BY <1>1, <1>6 DEF FifoStart, SpiGoto, SpiNow, JobRec
  <2>5. Clean(spiJob'[h], r)
    BY <1>1, <1>3, <2>2, <2>4 DEF Clean, SpiNow
  <2> QED
    BY <2>2, <2>3, <2>4, <2>5, ResMoves
<1>7. CASE FifoEnd(h)
  <2>1. PICK r, s : s = (IF r0.over THEN r0.short \cup Span(p) ELSE r0.short) /\ r = [r0 EXCEPT !.short = s]
    OBVIOUS
  <2>2. s \in SUBSET Int
    BY <1>3, <1>5, <2>1
  <2>3. r \in ResRec /\ r.short = s /\ r.mixed = r0.mixed
    BY <1>3, <2>1, <2>2 DEF ResRec
  <2>4. spiResidue' = [spiResidue EXCEPT ![h] = r]
    BY <1>1, <1>2, <1>3, <1>7, <2>1 DEF FifoEnd, SpiNow, ResRec
  <2>5. /\ spiJob'[h].pc = "fifo" /\ spiJob'[h].async = j0.async
        /\ \A k \in Hosts : k # h => spiJob'[k] = spiJob[k]
    BY <1>1, <1>7 DEF FifoEnd, SpiNow, JobRec
  <2>6. j0.pc = "shift"
    BY <1>1, <1>7 DEF FifoEnd, At, SpiNow
  <2>7. Clean(spiJob'[h], r)
    BY <1>3, <2>1, <2>3, <2>5, <2>6 DEF Clean
  <2> QED
    BY <2>3, <2>4, <2>5, <2>7, ResMoves
<1> QED
  BY <1>6, <1>7

(* The links of a DMA transfer: the one after a FIFO transfer is marked.   *)
LEMMA ResArms == ASSUME SpiInv, ResInv, NEW h \in Hosts, FireArm(h) PROVE ResInv'
<1>1. spiJob \in [Hosts -> JobRec] /\ spiResidue \in [Hosts -> ResRec]
  BY DEF SpiInv, SpiTyped, ResInv
<1>2. PICK r0, r : r0 = spiResidue[h] /\ r = [r0 EXCEPT !.mixed = r0.mixed \/ r0.fifo # 0]
  OBVIOUS
<1>3. /\ r \in ResRec /\ r.short = r0.short /\ r.fifo = r0.fifo /\ r.mixed = (r0.mixed \/ r0.fifo # 0)
      /\ r0.mixed \in BOOLEAN
  BY <1>1, <1>2 DEF ResRec
<1>4. spiResidue' = [spiResidue EXCEPT ![h] = r]
  BY <1>1, <1>2 DEF FireArm, ResRec
<1>5. /\ spiJob'[h].pc = "go" /\ spiJob'[h].async = spiJob[h].async
      /\ \A k \in Hosts : k # h => spiJob'[k] = spiJob[k]
  BY <1>1 DEF FireArm, SpiGoto, JobRec
<1>6. Clean(spiJob[h], r0)
  BY <1>2 DEF ResInv
<1>7. Clean(spiJob'[h], r)
  BY <1>3, <1>5, <1>6 DEF Clean
<1> QED
  BY <1>3, <1>4, <1>5, <1>7, ResMoves

(* What lands for a polled call that is not marked lands whole.            *)
LEMMA ResLands == ASSUME SpiInv, ResInv, NEW h \in Hosts, SpiLands(h) PROVE ResInv'
<1>1. PICK j0, e0 : SpiNow(h, j0, e0)
  BY SpiNowIs
<1>2. PICK r0, lost : r0 = spiResidue[h] /\ lost = (IF e0.call = j0.call THEN LandsShort(h) ELSE {})
  OBVIOUS
<1>3. /\ r0 \in ResRec /\ Clean(j0, r0) /\ spiResidue \in [Hosts -> ResRec]
      /\ r0.fifo \in Nat /\ r0.short \in SUBSET Int /\ r0.mixed \in BOOLEAN
  BY <1>1, <1>2 DEF ResInv, ResRec, SpiNow
<1>4. PICK left \in {r0.fifo, 0} :
        spiResidue' = [spiResidue EXCEPT ![h].fifo = left, ![h].short = r0.short \cup lost]
  <2>1. PICK left \in {r0.fifo} \cup (IF Len(e0.rx) = 1 THEN {0} ELSE {}) :
          spiResidue' = [spiResidue EXCEPT ![h].fifo = left,
                           ![h].short = IF e0.call = j0.call THEN @ \cup LandsShort(h) ELSE @]
    BY <1>1, <1>2 DEF SpiLands, SpiNow
  <2>2. left \in {r0.fifo, 0}
    OBVIOUS
  <2>3. spiResidue' = [spiResidue EXCEPT ![h].fifo = left, ![h].short = r0.short \cup lost]
    BY <1>2, <1>3, <2>1
  <2> QED
    BY <2>2, <2>3
<1>5. e0.rx # <<>> /\ e0.tx \in Seq(PieceType)
  <2>1. Len(e0.rx) > Len(e0.tx) /\ Len(e0.tx) \in Nat
    BY <1>1 DEF SpiLands, SpiNow
  <2> QED
    BY <1>1, <2>1 DEF SpiNow
<1>6. lost \in SUBSET Int
  <2>1. Head(e0.rx) \in PieceType
    BY <1>1, <1>5, CoverHead DEF SpiNow
  <2>2. Span(Head(e0.rx)) \in SUBSET Int
    BY <2>1 DEF PieceType, Span
  <2>3. LandsShort(h) \subseteq Span(Head(e0.rx))
    BY <1>1 DEF LandsShort, SpiNow
  <2> QED
    BY <1>2, <2>2, <2>3
<1>7. PICK r : r = [r0 EXCEPT !.fifo = left, !.short = r0.short \cup lost]
  OBVIOUS
<1>8. r \in ResRec /\ r.fifo = left /\ r.short = r0.short \cup lost /\ r.mixed = r0.mixed /\ r.over = r0.over
  <2>1. PICK s : s = r0.short \cup lost
    OBVIOUS
  <2>2. s \in SUBSET Int /\ left \in Nat
    BY <1>3, <1>4, <1>6, <2>1
  <2>3. r = [r0 EXCEPT !.fifo = left, !.short = s]
    BY <1>7, <2>1
  <2>4. r \in ResRec /\ r.fifo = left /\ r.short = s /\ r.mixed = r0.mixed /\ r.over = r0.over
    BY <1>3, <2>2, <2>3 DEF ResRec
  <2> QED
    BY <2>1, <2>4
<1>9. spiResidue' = [spiResidue EXCEPT ![h] = r]
  BY <1>2, <1>3, <1>4, <1>7 DEF ResRec
<1>10. /\ spiJob'[h].pc = j0.pc /\ spiJob'[h].async = j0.async
       /\ \A k \in Hosts : k # h => spiJob'[k] = spiJob[k]
  BY <1>1 DEF SpiLands, SpiNow, JobRec
<1>11. ASSUME ~j0.async, ~r0.mixed PROVE lost = {} /\ (j0.pc \in {"go", "wait"} => left = 0)
  <2>1. j0.pc \in {"go", "wait"} => r0.fifo = 0
    BY <1>3, <1>11 DEF Clean
  <2>2. j0.pc \notin {"go", "wait"} => e0.call # j0.call
    BY <1>1, <1>5, <1>11 DEF SpiNow, HostOk, Engines, Off
  <2>3. r0.fifo = 0 => LandsShort(h) = {}
    BY <1>2 DEF LandsShort
  <2> QED
    BY <1>2, <1>4, <2>1, <2>2, <2>3
<1>12. Clean(spiJob'[h], r)
  BY <1>3, <1>8, <1>10, <1>11 DEF Clean
<1> QED
  BY <1>8, <1>9, <1>10, <1>12, ResMoves

LEMMA ResStays == SpiInv /\ ResInv /\ [SpiNext]_spiVars => ResInv'
<1> SUFFICES ASSUME SpiInv, ResInv, [SpiNext]_spiVars PROVE ResInv'
  OBVIOUS
<1>1. CASE UNCHANGED spiVars
  BY <1>1, ResFollows DEF spiVars, Follows
<1>2. ASSUME NEW h \in Hosts,
             SpiOpen(h) \/ InitFails(h) \/ InitRoutes(h) \/ ClaimChan(h) \/ SetSelector(h)
      PROVE  ResInv'
  BY <1>2, ResSetup
<1>3. ASSUME NEW h \in Hosts,
             \/ ConnectTop(h) \/ (\E on \in BOOLEAN : SetDma(h, on)) \/ TopAcks(h) \/ TopTakes(h)
             \/ SpiShifts(h)
      PROVE  ResInv'
  BY <1>3, ResQuiet
<1>4. ASSUME NEW h \in Hosts,
             \/ PiecesDone(h) \/ ByFifo(h) \/ FifoTimeout(h) \/ FifoChunked(h) \/ ByDma(h)
             \/ FireReset(h) \/ FireGo(h) \/ WaitDmaDone(h) \/ WaitTimeout(h) \/ AsyncBegin(h) \/ AwaitAsync(h)
      PROVE  ResInv'
  BY <1>4, ResTurns
<1>5. ASSUME NEW h \in Hosts, NEW n,
             \/ \E kind \in {"exchange", "stream"}, reach \in BOOLEAN : BusTransfer(h, kind, n, reach)
             \/ ExchangeAsync(h, n)
      PROVE  ResInv'
  BY <1>5, ResCalled
<1>6. ASSUME NEW h \in Hosts, FifoStart(h) \/ FifoEnd(h) \/ FireArm(h) \/ SpiLands(h)
      PROVE  ResInv'
  BY <1>6, ResFifo, ResArms, ResLands
<1>7. ASSUME SpiNext PROVE ResInv'
  BY <1>2, <1>3, <1>4, <1>5, <1>6, <1>7, SpiAssumption, Zenon DEF SpiNext
<1> QED
  BY <1>1, <1>7

(* SpiMoved: a polled transfer that returns Ok has accounted for every     *)
(* byte, moved them all unless it met what an earlier transfer left in the *)
(* engine, and left the engine off its memory; a channel has one host.     *)
THEOREM SpiIsMoved == SpiSpec => []SpiMoved
<1>1. SpiInv /\ ResInv => SpiMoved
  <2> SUFFICES ASSUME SpiInv, ResInv PROVE SpiMoved
    OBVIOUS
  <2>1. ChannelsApart
    BY DEF SpiInv, ChansOwned, ChannelsApart
  <2>2. ASSUME NEW h \in Hosts, At(h, "ready"), ~spiJob[h].async, spiJob[h].call # 0
        PROVE  /\ spiJob[h].outcome = "ok" => spiJob[h].moved = 0 .. spiJob[h].len - 1
               /\ spiEngine[h].call = spiJob[h].call => spiEngine[h].tx = <<>> /\ spiEngine[h].rx = <<>>
    BY <2>2 DEF SpiInv, HostsOk, HostOk, Lists, Engines, Off, All, At
  <2>3. ASSUME NEW h \in Hosts, ~spiJob[h].async PROVE spiResidue[h].short = {} \/ spiResidue[h].mixed
    BY <2>3 DEF ResInv, Clean
  <2>4. PolledMoved
    BY <2>2, <2>3 DEF PolledMoved
  <2> QED
    BY <2>1, <2>4 DEF SpiMoved
<1> QED
  BY <1>1, SpiBegins, SpiStays, ResBegins, ResStays, PTL DEF SpiSpec

(***************************************************************************)
(* The I2C controllers: runs of bytes.                                     *)
(***************************************************************************)
I2cBytes == Nat \X {"w", "r"} \X Nat

(* The bytes of a call in one direction that follow the first few.         *)
RunOf(s, nth, dir, few) ==
  s \in Seq(I2cBytes) /\ \A i \in 1 .. Len(s) : s[i] = WireByte(nth, dir, few + i)

LEMMA RunNone == ASSUME NEW nth, NEW dir, NEW few PROVE RunOf(<<>>, nth, dir, few)
BY DEF RunOf

LEMMA RunTail ==
  ASSUME NEW s, NEW nth, NEW dir, NEW few \in Nat, RunOf(s, nth, dir, few), s # <<>>
  PROVE  /\ Head(s) = WireByte(nth, dir, few + 1) /\ RunOf(Tail(s), nth, dir, few + 1)
         /\ Len(Tail(s)) = Len(s) - 1 /\ Len(s) \in Nat \ {0}
<1>1. s \in Seq(I2cBytes) /\ Len(s) \in Nat /\ Len(s) # 0
  BY EmptySeq DEF RunOf
<1>2. PICK w : w = Tail(s)
  OBVIOUS
<1>3. w \in Seq(I2cBytes) /\ Len(w) = Len(s) - 1 /\ \A i \in 1 .. Len(w) : w[i] = s[i + 1]
  BY <1>1, <1>2
<1>4. \A i \in 1 .. Len(w) : w[i] = WireByte(nth, dir, (few + 1) + i)
  <2> TAKE i \in 1 .. Len(w)
  <2>1. i + 1 \in 1 .. Len(s) /\ few + (i + 1) = (few + 1) + i
    BY <1>1, <1>3
  <2>2. s[i + 1] = WireByte(nth, dir, few + (i + 1))
    BY <2>1 DEF RunOf
  <2> QED
    BY <1>3, <2>1, <2>2
<1>5. Head(s) = s[1] /\ s[1] = WireByte(nth, dir, few + 1)
  BY <1>1 DEF RunOf
<1> QED
  BY <1>1, <1>2, <1>3, <1>4, <1>5 DEF RunOf

LEMMA RunAppend ==
  ASSUME NEW s, NEW nth \in Nat, NEW dir \in {"w", "r"}, NEW few \in Nat, RunOf(s, nth, dir, few),
         NEW b, b = WireByte(nth, dir, few + Len(s) + 1)
  PROVE  RunOf(Append(s, b), nth, dir, few) /\ Len(Append(s, b)) = Len(s) + 1
<1>1. s \in Seq(I2cBytes) /\ Len(s) \in Nat
  BY DEF RunOf
<1>2. b \in I2cBytes
  BY <1>1 DEF WireByte, I2cBytes
<1>3. PICK w : w = Append(s, b)
  OBVIOUS
<1>4. w \in Seq(I2cBytes) /\ Len(w) = Len(s) + 1 /\ w[Len(s) + 1] = b /\ \A i \in 1 .. Len(s) : w[i] = s[i]
  BY <1>1, <1>2, <1>3
<1>5. \A i \in 1 .. Len(w) : w[i] = WireByte(nth, dir, few + i)
  <2> TAKE i \in 1 .. Len(w)
  <2>1. CASE i = Len(s) + 1
    <3>1. few + Len(s) + 1 = few + i
      BY <1>1, <2>1
    <3> QED
      BY <1>4, <2>1, <3>1
  <2>2. CASE i # Len(s) + 1
    BY <1>1, <1>4, <2>2 DEF RunOf
  <2> QED
    BY <2>1, <2>2
<1> QED
  BY <1>3, <1>4, <1>5 DEF RunOf

LEMMA RunJoin ==
  ASSUME NEW s, NEW t, NEW nth, NEW dir, RunOf(s, nth, dir, 0), RunOf(t, nth, dir, Len(s))
  PROVE  RunOf(s \o t, nth, dir, 0) /\ Len(s \o t) = Len(s) + Len(t)
<1>1. s \in Seq(I2cBytes) /\ t \in Seq(I2cBytes) /\ Len(s) \in Nat /\ Len(t) \in Nat
  BY DEF RunOf
<1>2. PICK w : w = s \o t
  OBVIOUS
<1>3. /\ w \in Seq(I2cBytes) /\ Len(w) = Len(s) + Len(t)
      /\ \A i \in 1 .. Len(w) : w[i] = IF i <= Len(s) THEN s[i] ELSE t[i - Len(s)]
  BY <1>1, <1>2
<1>4. \A i \in 1 .. Len(w) : w[i] = WireByte(nth, dir, 0 + i)
  <2> TAKE i \in 1 .. Len(w)
  <2>1. CASE i <= Len(s)
    BY <1>1, <1>3, <2>1 DEF RunOf
  <2>2. CASE i > Len(s)
    <3>1. i - Len(s) \in 1 .. Len(t) /\ Len(s) + (i - Len(s)) = 0 + i
      BY <1>1, <1>3, <2>2
    <3>2. t[i - Len(s)] = WireByte(nth, dir, Len(s) + (i - Len(s)))
      BY <3>1 DEF RunOf
    <3> QED
      BY <1>1, <1>3, <2>2, <3>1, <3>2
  <2> QED
    BY <1>1, <2>1, <2>2
<1> QED
  BY <1>2, <1>3, <1>4 DEF RunOf

LEMMA CatIs ==
  ASSUME NEW S, NEW s \in Seq(S), NEW t \in Seq(S)
  PROVE  /\ s \o t \in Seq(S) /\ Len(s \o t) = Len(s) + Len(t) /\ Len(s) \in Nat /\ Len(t) \in Nat
         /\ \A i \in 1 .. Len(s) : (s \o t)[i] = s[i]
         /\ \A i \in 1 .. Len(t) : (s \o t)[Len(s) + i] = t[i]
OBVIOUS

(* Two runs of one length from one place are the same.                     *)
LEMMA RunSame ==
  ASSUME NEW s, NEW t, NEW nth, NEW dir, NEW few, RunOf(s, nth, dir, few), RunOf(t, nth, dir, few), Len(s) = Len(t)
  PROVE  s = t
<1>1. s \in Seq(I2cBytes) /\ t \in Seq(I2cBytes) /\ \A i \in 1 .. Len(s) : s[i] = t[i]
  BY DEF RunOf
<1> QED
  BY <1>1, SeqEqual

LEMMA RunWhole ==
  ASSUME NEW nth \in Nat, NEW n \in Nat
  PROVE  /\ RunOf(Writes(nth, n), nth, "w", 0) /\ Len(Writes(nth, n)) = n
         /\ RunOf(Reads(nth, n), nth, "r", 0) /\ Len(Reads(nth, n)) = n
<1>1. \A i \in 1 .. n : WireByte(nth, "w", i) \in I2cBytes /\ WireByte(nth, "r", i) \in I2cBytes
  BY DEF WireByte, I2cBytes
<1>2. Writes(nth, n) \in [1 .. n -> I2cBytes] /\ Reads(nth, n) \in [1 .. n -> I2cBytes]
  BY <1>1 DEF Writes, Reads
<1>3. /\ Writes(nth, n) \in Seq(I2cBytes) /\ Len(Writes(nth, n)) = n
      /\ Reads(nth, n) \in Seq(I2cBytes) /\ Len(Reads(nth, n)) = n
  BY <1>2, SpanSeq
<1>4. \A i \in 1 .. n : 0 + i = i
  OBVIOUS
<1>5. \A i \in 1 .. n : Writes(nth, n)[i] = WireByte(nth, "w", 0 + i) /\ Reads(nth, n)[i] = WireByte(nth, "r", 0 + i)
  BY <1>4 DEF Writes, Reads
<1> QED
  BY <1>3, <1>5 DEF RunOf

(***************************************************************************)
(* The controllers.                                                        *)
(***************************************************************************)
I2cPcs == {"idle", "op", "wait", "read", "begin", "check", "look", "serve", "drain"}
I2cOps == [w : Nat, r : Nat, bits : Nat]
I2cEnded == {"none", "ok", "invalid", "no device", "timeout", "busy"}
I2cJobs == [pc : I2cPcs, call : Nat, ops : Seq(I2cOps), steps : Seq({"w", "r"}), pushed : Nat,
            want : Seq(I2cBytes), sent : Seq(I2cBytes), acked : Seq(I2cBytes), got : Seq(I2cBytes),
            raw : SUBSET I2cFlags, outcome : I2cEnded]
I2cEngs == [run : BOOLEAN, cmds : Seq({"address", "w", "r", "stop"} \cup I2cBytes),
            tx : Seq(I2cBytes), rx : Seq(I2cBytes), flags : SUBSET I2cFlags]

(* What is left of a list of commands: n bytes one way, and STOP.          *)
Rest(cmds, dir, n) ==
  Len(cmds) = n + 1 /\ cmds[n + 1] = "stop" /\ \A i \in 1 .. n : cmds[i] = dir
OpeningList(cmds, dir, n) == cmds # <<>> /\ Head(cmds) = "address" /\ Rest(Tail(cmds), dir, n)

(* The ESP32's controller, by where the driver is: the part of the op in   *)
(* progress, the bytes of it that are done, and the list that is left.     *)
EspMoved(j) == j.got = j.want /\ j.acked = j.sent
PartOk(j, o) == \/ j.steps = <<"w">> /\ o.r = 0 
                \/ j.steps = <<"r">>
                \/ j.steps = <<"w", "r">>
BeginOk(j, o) == j.got = <<>> /\ j.acked = IF Head(j.steps) = "w" THEN <<>> ELSE Writes(j.call, o.w)
Left(j, e, o) == IF Head(j.steps) = "w" THEN Len(e.tx) ELSE o.r - Len(e.rx)
WritingOk(j, e, o) ==
  /\ RunOf(j.acked, j.call, "w", 0) /\ RunOf(e.tx, j.call, "w", Len(j.acked))
  /\ Len(j.acked) + Len(e.tx) = o.w
ReadingOk(j, e, o) ==
  /\ j.acked = Writes(j.call, o.w) /\ RunOf(e.rx, j.call, "r", 0) /\ Len(e.rx) <= o.r
EspWaitOk(j, e, o) ==
  /\ j.got = <<>>
  /\ Head(j.steps) = "w" => WritingOk(j, e, o)
  /\ Head(j.steps) = "r" => ReadingOk(j, e, o)
  /\ "complete" \notin e.flags =>
       e.run /\ (Rest(e.cmds, Head(j.steps), Left(j, e, o)) \/ OpeningList(e.cmds, Head(j.steps), Left(j, e, o)))
  /\ "complete" \in e.flags => ~e.run /\ Left(j, e, o) = 0
ReadOk(j, e, o) ==
  /\ j.got = <<>> /\ j.acked = Writes(j.call, o.w)
  /\ Head(j.steps) = "r" => e.rx = Reads(j.call, o.r)
EspOk(j, e) ==
  /\ j.pc \in {"idle", "op", "begin", "wait", "read"}
  /\ j.pc # "wait" => ~e.run
  /\ j.pc = "op" \/ (j.pc = "idle" /\ j.outcome = "ok") => EspMoved(j)
  /\ j.pc \in {"begin", "wait", "read"} => j.ops # <<>> /\ PartOk(j, Head(j.ops))
  /\ j.pc = "begin" => BeginOk(j, Head(j.ops))
  /\ j.pc = "wait" /\ e.flags \cap I2cErrors = {} => EspWaitOk(j, e, Head(j.ops))
  /\ j.pc = "read" => ReadOk(j, e, Head(j.ops))

(* The RP2040's: the commands done, those in the FIFO and those not pushed *)
(* yet make up the exchange; a byte is read before the next is asked for.  *)
Done(j, e) == Len(j.acked) + Len(j.got) + Len(e.rx)
WireAt(j, k) == IF k <= Len(j.sent) THEN WireByte(j.call, "w", k) ELSE WireByte(j.call, "r", k - Len(j.sent))
BytesOk(j, e) ==
  /\ RunOf(j.sent, j.call, "w", 0) /\ RunOf(j.want, j.call, "r", 0)
  /\ RunOf(j.acked, j.call, "w", 0) /\ Len(j.acked) <= Len(j.sent)
  /\ RunOf(j.got, j.call, "r", 0) /\ RunOf(e.rx, j.call, "r", Len(j.got))
  /\ Len(j.got) + Len(e.rx) > 0 => Len(j.acked) = Len(j.sent)
PushedOk(j, e) ==
  /\ j.pushed <= Len(j.sent) + Len(j.want) /\ j.pushed <= Len(j.sent) + Len(j.got) + 1
  /\ Done(j, e) + Len(e.tx) <= j.pushed
  /\ "abort" \notin e.flags => Done(j, e) + Len(e.tx) = j.pushed
  /\ "abort" \in e.flags => e.tx = <<>>
  /\ \A i \in 1 .. Len(e.tx) : e.tx[i] = WireAt(j, Done(j, e) + i)
PicoOk(j, e) ==
  /\ j.pc \in {"idle", "op", "check", "look"}
  /\ j.pc \in {"idle", "op"} \/ "stop" \in e.flags => ~e.run
  /\ j.pc = "op" \/ (j.pc = "idle" /\ j.outcome = "ok") => j.got = j.want /\ (j.want # <<>> => j.acked = j.sent)
  /\ j.pc = "op" => j.pushed = 0
  /\ j.pc \in {"check", "look"} => j.ops # <<>> /\ BytesOk(j, e) /\ PushedOk(j, e)

(* The RP2040's as a slave: what it has been given is in order, and the    *)
(* last byte is that of the transaction in progress or of an earlier one.  *)
InOrder(g) ==
  \A i \in 1 .. Len(g) - 1 :
    \/ g[i + 1] = WireByte(g[i][1], "w", g[i][3] + 1)
    \/ g[i + 1][1] > g[i][1] /\ g[i + 1][3] = 1
GivenOk(g, e, n) ==
  /\ InOrder(g) /\ \A i \in 1 .. Len(g) : g[i][1] <= n
  /\ g # <<>> /\ e.run => \/ g[Len(g)][1] = n /\ g[Len(g)][3] = Len(e.cmds)
                          \/ g[Len(g)][1] < n /\ e.cmds = <<>>
CtrlOk(c, j, e, n) ==
  /\ c \in EspCtrls => EspOk(j, e)
  /\ c \in PicoCtrls => PicoOk(j, e)
  /\ c \in PicoSlaves => GivenOk(j.got \o e.rx, e, n)

I2cInv ==
  /\ i2cEng \in [Ctrls -> I2cEngs] /\ i2cJob \in [Ctrls -> I2cJobs] /\ i2cCalls \in [Ctrls -> Nat]
  /\ \A c \in Ctrls : CtrlOk(c, i2cJob[c], i2cEng[c], i2cCalls[c])

LEMMA I2cBegins == I2cInit => I2cInv
<1> SUFFICES ASSUME I2cInit PROVE I2cInv
  OBVIOUS
<1>1. PICK j, e : j = IdleI2c /\ e = Quiet
  OBVIOUS
<1>2. j \in I2cJobs /\ j.pc = "idle" /\ j.outcome = "none" /\ j.got = <<>>
  BY <1>1 DEF IdleI2c, I2cJobs, I2cPcs, I2cEnded
<1>3. e \in I2cEngs /\ ~e.run /\ e.flags = {} /\ e.rx = <<>>
  BY <1>1 DEF Quiet, I2cEngs
<1>4. \A c \in Ctrls : CtrlOk(c, j, e, 0)
  <2>1. j.got \o e.rx = <<>>
    BY <1>2, <1>3
  <2>2. GivenOk(<<>>, e, 0)
    BY <1>3 DEF GivenOk, InOrder
  <2> QED
    BY <1>2, <1>3, <2>1, <2>2 DEF CtrlOk, EspOk, PicoOk
<1> QED
  BY <1>1, <1>2, <1>3, <1>4 DEF I2cInit, I2cInv

(* What a step of a controller finds ...                                   *)
I2cNow(c, j, e) ==
  /\ j = i2cJob[c] /\ e = i2cEng[c] /\ j \in I2cJobs /\ e \in I2cEngs /\ CtrlOk(c, j, e, i2cCalls[c])
  /\ j.pc \in I2cPcs /\ j.call \in Nat /\ j.ops \in Seq(I2cOps) /\ j.steps \in Seq({"w", "r"}) /\ j.pushed \in Nat
  /\ j.want \in Seq(I2cBytes) /\ j.sent \in Seq(I2cBytes) /\ j.acked \in Seq(I2cBytes) /\ j.got \in Seq(I2cBytes)
  /\ e.tx \in Seq(I2cBytes) /\ e.rx \in Seq(I2cBytes) /\ e.run \in BOOLEAN /\ e.flags \in SUBSET I2cFlags
  /\ i2cCalls[c] \in Nat
  /\ i2cEng \in [Ctrls -> I2cEngs] /\ i2cJob \in [Ctrls -> I2cJobs] /\ i2cCalls \in [Ctrls -> Nat]

LEMMA I2cNowIs == ASSUME I2cInv, NEW c \in Ctrls PROVE \E j, e : I2cNow(c, j, e)
<1>1. PICK j, e : j = i2cJob[c] /\ e = i2cEng[c]
  OBVIOUS
<1>2. j \in I2cJobs /\ e \in I2cEngs /\ CtrlOk(c, j, e, i2cCalls[c]) /\ i2cCalls[c] \in Nat
  BY <1>1 DEF I2cInv
<1>3. /\ j.pc \in I2cPcs /\ j.call \in Nat /\ j.ops \in Seq(I2cOps) /\ j.steps \in Seq({"w", "r"}) /\ j.pushed \in Nat
      /\ j.want \in Seq(I2cBytes) /\ j.sent \in Seq(I2cBytes) /\ j.acked \in Seq(I2cBytes) /\ j.got \in Seq(I2cBytes)
  BY <1>2 DEF I2cJobs
<1>4. e.tx \in Seq(I2cBytes) /\ e.rx \in Seq(I2cBytes) /\ e.run \in BOOLEAN /\ e.flags \in SUBSET I2cFlags
  BY <1>2 DEF I2cEngs
<1> QED
  BY <1>1, <1>2, <1>3, <1>4 DEF I2cNow, I2cInv

(* ... and what it leaves.                                                 *)
LEMMA I2cSteps ==
  ASSUME I2cInv, NEW c \in Ctrls, NEW j \in I2cJobs, NEW e \in I2cEngs, NEW n \in Nat,
         i2cJob' = [i2cJob EXCEPT ![c] = j], i2cEng' = [i2cEng EXCEPT ![c] = e],
         i2cCalls' = [i2cCalls EXCEPT ![c] = n], CtrlOk(c, j, e, n)
  PROVE  I2cInv'
<1>1. /\ i2cEng' \in [Ctrls -> I2cEngs] /\ i2cJob' \in [Ctrls -> I2cJobs] /\ i2cCalls' \in [Ctrls -> Nat]
      /\ i2cJob'[c] = j /\ i2cEng'[c] = e /\ i2cCalls'[c] = n
      /\ \A d \in Ctrls : d # c => i2cJob'[d] = i2cJob[d] /\ i2cEng'[d] = i2cEng[d] /\ i2cCalls'[d] = i2cCalls[d]
  BY DEF I2cInv
<1>2. \A d \in Ctrls : CtrlOk(d, i2cJob'[d], i2cEng'[d], i2cCalls'[d])
  <2> TAKE d \in Ctrls
  <2>1. CASE d = c
    BY <1>1, <2>1
  <2>2. CASE d # c
    BY <1>1, <2>2 DEF I2cInv
  <2> QED
    BY <2>1, <2>2
<1> QED
  BY <1>1, <1>2 DEF I2cInv

(* A step that begins no call.                                             *)
LEMMA I2cGoes ==
  ASSUME I2cInv, NEW c \in Ctrls, NEW j \in I2cJobs, NEW e \in I2cEngs,
         i2cJob' = [i2cJob EXCEPT ![c] = j], i2cEng' = [i2cEng EXCEPT ![c] = e],
         UNCHANGED i2cCalls, CtrlOk(c, j, e, i2cCalls[c])
  PROVE  I2cInv'
<1>1. i2cCalls' = [i2cCalls EXCEPT ![c] = i2cCalls[c]] /\ i2cCalls[c] \in Nat
  BY DEF I2cInv
<1>2. PICK n : n = i2cCalls[c]
  OBVIOUS
<1> QED
  BY <1>1, <1>2, I2cSteps

LEMMA EspOnly == ASSUME NEW c \in EspCtrls, NEW j, NEW e, NEW n PROVE CtrlOk(c, j, e, n) <=> EspOk(j, e)
BY I2cAssumption DEF CtrlOk
LEMMA PicoOnly == ASSUME NEW c \in PicoCtrls, NEW j, NEW e, NEW n PROVE CtrlOk(c, j, e, n) <=> PicoOk(j, e)
BY I2cAssumption DEF CtrlOk
LEMMA SlaveOnly ==
  ASSUME NEW c \in PicoSlaves, NEW j, NEW e, NEW n PROVE CtrlOk(c, j, e, n) <=> GivenOk(j.got \o e.rx, e, n)
BY I2cAssumption DEF CtrlOk

(* A call begins, runs out of ops, or is refused one.                      *)
LEMMA I2cTransferStep ==
  ASSUME I2cInv, NEW c \in EspCtrls \cup PicoCtrls, NEW todo \in OpLists, I2cTransfer(c, todo)
  PROVE  I2cInv'
<1> USE I2cAssumption
<1>0. c \in Ctrls
  BY DEF Ctrls
<1>1. PICK j0, e0 : I2cNow(c, j0, e0)
  BY <1>0, I2cNowIs
<1>2. PICK n : n = i2cCalls[c] + 1
  OBVIOUS
<1>3. n \in Nat /\ todo \in Seq(I2cOps)
  BY SMTT(30), <1>1, <1>2 DEF I2cNow, I2cOps
<1>4. PICK j : j = [IdleI2c EXCEPT !.pc = "op", !.call = n, !.ops = todo]
  OBVIOUS
<1>5. j \in I2cJobs /\ j.pc = "op" /\ j.got = <<>> /\ j.want = <<>> /\ j.acked = <<>> /\ j.sent = <<>> /\ j.pushed = 0
  <2>1. j = [pc |-> "op", call |-> n, ops |-> todo, steps |-> <<>>, pushed |-> 0, want |-> <<>>, sent |-> <<>>,
             acked |-> <<>>, got |-> <<>>, raw |-> {}, outcome |-> "none"]
    BY <1>4 DEF IdleI2c
  <2>2. <<>> \in Seq(I2cBytes) /\ <<>> \in Seq({"w", "r"}) /\ {} \in SUBSET I2cFlags
    OBVIOUS
  <2> QED
    BY <1>3, <2>1, <2>2 DEF I2cJobs, I2cPcs, I2cEnded
<1>6. i2cJob' = [i2cJob EXCEPT ![c] = j] /\ i2cEng' = [i2cEng EXCEPT ![c] = e0] /\ i2cCalls' = [i2cCalls EXCEPT ![c] = n]
  BY <1>1, <1>2, <1>4 DEF I2cTransfer, I2cNow
<1>7. ~e0.run
  BY <1>0, <1>1 DEF I2cTransfer, I2cAt, I2cNow, CtrlOk, EspOk, PicoOk
<1>8. EspOk(j, e0) /\ PicoOk(j, e0)
  BY <1>5, <1>7 DEF EspOk, PicoOk, EspMoved
<1>9. CtrlOk(c, j, e0, n)
  BY <1>8, EspOnly, PicoOnly
<1> QED
  BY <1>0, <1>1, <1>3, <1>5, <1>6, <1>9, I2cSteps DEF I2cNow

(* A call ends with the controller still.                                  *)
LEMMA I2cOver ==
  ASSUME I2cInv, NEW c \in EspCtrls \cup PicoCtrls, NEW j0, NEW e0, I2cNow(c, j0, e0), NEW e \in I2cEngs,
         NEW how \in I2cEnded, I2cEnds(c, how), i2cEng' = [i2cEng EXCEPT ![c] = e], UNCHANGED i2cCalls,
         ~e.run, how = "ok" => j0.pc = "op"
  PROVE  I2cInv'
<1>0. c \in Ctrls
  BY DEF Ctrls
<1>1. PICK j : j = [j0 EXCEPT !.pc = "idle", !.outcome = how, !.ops = <<>>, !.steps = <<>>, !.pushed = 0]
  OBVIOUS
<1>2. /\ j \in I2cJobs /\ j.pc = "idle" /\ j.outcome = how
      /\ j.got = j0.got /\ j.want = j0.want /\ j.acked = j0.acked /\ j.sent = j0.sent
  <2>1. <<>> \in Seq(I2cOps) /\ <<>> \in Seq({"w", "r"}) /\ "idle" \in I2cPcs
    BY DEF I2cPcs
  <2> QED
    BY <1>1, <2>1 DEF I2cNow, I2cJobs
<1>3. i2cJob' = [i2cJob EXCEPT ![c] = j]
  BY <1>0, <1>1 DEF I2cEnds, I2cNow
<1>4. c \in EspCtrls => EspOk(j, e)
  BY <1>2, EspOnly DEF I2cNow, EspOk, EspMoved
<1>5. c \in PicoCtrls => PicoOk(j, e)
  BY <1>2, PicoOnly DEF I2cNow, PicoOk
<1>6. CtrlOk(c, j, e, i2cCalls[c])
  BY <1>4, <1>5, EspOnly, PicoOnly
<1> QED
  BY <1>0, <1>2, <1>3, <1>6, I2cGoes

LEMMA OpsOverStep ==
  ASSUME I2cInv, NEW c \in EspCtrls \cup PicoCtrls, OpsOver(c) \/ OpRefused(c)
  PROVE  I2cInv'
<1>0. c \in Ctrls
  BY DEF Ctrls
<1>1. PICK j0, e0 : I2cNow(c, j0, e0)
  BY <1>0, I2cNowIs
<1>2. PICK how \in {"ok", "invalid"} : I2cEnds(c, how) /\ i2cEng' = i2cEng /\ i2cCalls' = i2cCalls /\ j0.pc = "op"
  BY <1>1 DEF OpsOver, OpRefused, I2cAt, I2cNow
<1>3. i2cEng' = [i2cEng EXCEPT ![c] = e0] /\ e0 \in I2cEngs /\ how \in I2cEnded
  BY <1>1, <1>2 DEF I2cNow, I2cEnded
<1>4. ~e0.run
  BY <1>0, <1>1, <1>2 DEF I2cNow, CtrlOk, EspOk, PicoOk
<1> QED
  BY <1>1, <1>2, <1>3, <1>4, I2cOver

(***************************************************************************)
(* The ESP32's controllers.                                                *)
(***************************************************************************)
I2cCmds == {"address", "w", "r", "stop"} \cup I2cBytes

LEMMA RestTail ==
  ASSUME NEW cmds \in Seq(I2cCmds), NEW dir, NEW n \in Nat, Rest(cmds, dir, n)
  PROVE  /\ cmds # <<>> /\ Tail(cmds) \in Seq(I2cCmds)
         /\ n = 0 => Head(cmds) = "stop"
         /\ n > 0 => Head(cmds) = dir /\ Rest(Tail(cmds), dir, n - 1)
<1>1. PICK w : w = Tail(cmds)
  OBVIOUS
<1>2. Len(cmds) = n + 1 /\ cmds # <<>> /\ Head(cmds) = cmds[1]
  BY DEF Rest
<1>3. w \in Seq(I2cCmds) /\ Len(w) = n /\ \A i \in 1 .. n : w[i] = cmds[i + 1]
  BY <1>1, <1>2
<1>4. ASSUME n > 0 PROVE Rest(w, dir, n - 1)
  <2>1. \A i \in 1 .. n - 1 : w[i] = dir
    BY <1>3, <1>4 DEF Rest
  <2>2. w[n] = "stop" /\ (n - 1) + 1 = n
    BY <1>3, <1>4 DEF Rest
  <2> QED
    BY <1>3, <2>1, <2>2 DEF Rest
<1> QED
  BY <1>1, <1>2, <1>3, <1>4 DEF Rest

LEMMA CommandsAre ==
  ASSUME NEW dir \in {"w", "r"}, NEW n \in Nat
  PROVE  CommandList(dir, n) \in Seq(I2cCmds) /\ OpeningList(CommandList(dir, n), dir, n)
<1>1. PICK a, m, z : a = <<"address">> /\ m = [i \in 1 .. n |-> dir] /\ z = <<"stop">>
  OBVIOUS
<1>2. m \in [1 .. n -> I2cCmds]
  BY <1>1 DEF I2cCmds
<1>3. m \in Seq(I2cCmds) /\ Len(m) = n /\ \A i \in 1 .. n : m[i] = dir
  BY <1>1, <1>2, SpanSeq
<1>4. a \in Seq(I2cCmds) /\ Len(a) = 1 /\ a[1] = "address" /\ z \in Seq(I2cCmds) /\ Len(z) = 1 /\ z[1] = "stop"
  BY <1>1 DEF I2cCmds
<1>5. PICK am : am = a \o m
  OBVIOUS
<1>6. /\ am \in Seq(I2cCmds) /\ Len(am) = n + 1 /\ am[1] = "address" /\ \A i \in 1 .. n : am[i + 1] = dir
  <2>1. /\ am \in Seq(I2cCmds) /\ Len(am) = 1 + n /\ am[1] = a[1] /\ \A i \in 1 .. n : am[1 + i] = m[i]
    <3>1. /\ a \o m \in Seq(I2cCmds) /\ Len(a \o m) = Len(a) + Len(m)
          /\ \A i \in 1 .. Len(a) : (a \o m)[i] = a[i]
          /\ \A i \in 1 .. Len(m) : (a \o m)[Len(a) + i] = m[i]
      <4>1. a \in Seq(I2cCmds) /\ m \in Seq(I2cCmds)
        BY <1>3, <1>4
      <4> QED
        BY <4>1, CatIs
    <3>2. 1 \in 1 .. Len(a)
      BY <1>4
    <3> QED
      BY <1>3, <1>4, <1>5, <3>1, <3>2
  <2>2. Len(am) = n + 1 /\ am[1] = "address"
    BY <1>3, <1>4, <2>1
  <2>3. ASSUME NEW i \in 1 .. n PROVE am[i + 1] = dir
    <3>1. i + 1 = 1 + i
      OBVIOUS
    <3> QED
      BY <1>3, <2>1, <3>1
  <2> QED
    BY <2>1, <2>2, <2>3
<1>7. PICK l : l = am \o z
  OBVIOUS
<1>8. /\ l \in Seq(I2cCmds) /\ Len(l) = n + 2 /\ l[1] = "address" /\ l[n + 2] = "stop"
      /\ \A i \in 1 .. n : l[i + 1] = dir
  <2>1. /\ l \in Seq(I2cCmds) /\ Len(l) = (n + 1) + 1 /\ \A i \in 1 .. n + 1 : l[i] = am[i]
        /\ l[(n + 1) + 1] = z[1]
    <3>1. /\ am \o z \in Seq(I2cCmds) /\ Len(am \o z) = Len(am) + Len(z)
          /\ \A i \in 1 .. Len(am) : (am \o z)[i] = am[i]
          /\ \A i \in 1 .. Len(z) : (am \o z)[Len(am) + i] = z[i]
      <4>1. am \in Seq(I2cCmds) /\ z \in Seq(I2cCmds)
        BY <1>4, <1>6
      <4> QED
        BY <4>1, CatIs
    <3>2. 1 \in 1 .. Len(z)
      BY <1>4
    <3> QED
      BY <1>4, <1>6, <1>7, <3>1, <3>2
  <2>2. (n + 1) + 1 = n + 2 /\ 1 \in 1 .. n + 1 /\ \A i \in 1 .. n : i + 1 \in 1 .. n + 1
    OBVIOUS
  <2> QED
    BY <1>4, <1>6, <2>1, <2>2
<1>9. l = CommandList(dir, n)
  BY <1>1, <1>5, <1>7 DEF CommandList
<1>10. PICK w : w = Tail(l)
  OBVIOUS
<1>11. l # <<>> /\ Head(l) = "address" /\ Len(w) = n + 1 /\ \A i \in 1 .. n + 1 : w[i] = l[i + 1]
  BY <1>8, <1>10
<1>12. Rest(w, dir, n)
  <2>1. w[n + 1] = l[n + 2]
    BY <1>11
  <2> QED
    BY <1>8, <1>11, <2>1 DEF Rest
<1> QED
  BY <1>8, <1>9, <1>10, <1>11, <1>12 DEF OpeningList

(* What the ESP32's driver and controller find.                            *)
EspNow(c, j, e) == I2cNow(c, j, e) /\ EspOk(j, e) /\ c \in Ctrls
LEMMA EspNowIs == ASSUME I2cInv, NEW c \in EspCtrls PROVE \E j, e : EspNow(c, j, e)
<1>0. c \in Ctrls
  BY DEF Ctrls
<1>1. PICK j, e : I2cNow(c, j, e)
  BY <1>0, I2cNowIs
<1> QED
  BY <1>0, <1>1, EspOnly DEF I2cNow, EspNow

LEMMA EspGoes ==
  ASSUME I2cInv, NEW c \in EspCtrls, NEW j \in I2cJobs, NEW e \in I2cEngs,
         i2cJob' = [i2cJob EXCEPT ![c] = j], i2cEng' = [i2cEng EXCEPT ![c] = e],
         UNCHANGED i2cCalls, EspOk(j, e)
  PROVE  I2cInv'
<1>1. c \in Ctrls /\ CtrlOk(c, j, e, i2cCalls[c])
  BY EspOnly DEF Ctrls
<1> QED
  BY <1>1, I2cGoes

LEMMA HeadOp == ASSUME NEW ops \in Seq(I2cOps), ops # <<>>
  PROVE Head(ops) \in I2cOps /\ Head(ops).w \in Nat /\ Head(ops).r \in Nat /\ Tail(ops) \in Seq(I2cOps)
<1>1. Head(ops) \in I2cOps /\ Tail(ops) \in Seq(I2cOps)
  OBVIOUS
<1> QED
  BY <1>1 DEF I2cOps

LEMMA PartIs ==
  ASSUME NEW j, NEW o, PartOk(j, o)
  PROVE  /\ Head(j.steps) \in {"w", "r"}
         /\ Len(j.steps) = 2 => j.steps = <<"w", "r">> /\ Head(j.steps) = "w" /\ Tail(j.steps) = <<"r">>
         /\ Len(j.steps) # 2 /\ Head(j.steps) = "w" => o.r = 0
<1>1. CASE j.steps = <<"w">> /\ o.r = 0
  <2>1. Len(j.steps) = 1 /\ Head(j.steps) = "w"
    BY <1>1
  <2> QED
    BY <1>1, <2>1
<1>2. CASE j.steps = <<"r">>
  <2>1. Len(j.steps) = 1 /\ Head(j.steps) = "r"
    BY <1>2
  <2> QED
    BY <1>2, <2>1
<1>3. CASE j.steps = <<"w", "r">>
  <2>1. Len(j.steps) = 2 /\ Head(j.steps) = "w" /\ Tail(j.steps) = <<"r">>
    BY <1>3
  <2> QED
    BY <1>3, <2>1
<1> QED
  BY <1>1, <1>2, <1>3 DEF PartOk

LEMMA EspExchangeStep == ASSUME I2cInv, NEW c \in EspCtrls, EspExchange(c) PROVE I2cInv'
<1>1. PICK j0, e0 : EspNow(c, j0, e0)
  BY EspNowIs
<1>2. PICK o, st : o = Head(j0.ops) /\ st = EspParts(o)
  OBVIOUS
<1>3. /\ j0.pc = "op" /\ j0.ops # <<>> /\ i2cEng' = i2cEng /\ i2cCalls' = i2cCalls
      /\ i2cJob' = [i2cJob EXCEPT ![c].pc = "begin", ![c].steps = st, ![c].acked = <<>>, ![c].got = <<>>]
  BY <1>1, <1>2 DEF EspExchange, I2cAt, OpOf, EspNow, I2cNow
<1>4. o.w \in Nat /\ o.r \in Nat
  BY <1>1, <1>2, <1>3, HeadOp DEF EspNow, I2cNow
<1>5. PICK j : j = [j0 EXCEPT !.pc = "begin", !.steps = st, !.acked = <<>>, !.got = <<>>]
  OBVIOUS
<1>6. st \in Seq({"w", "r"})
  <2>1. <<"w">> \in Seq({"w", "r"})
    OBVIOUS
  <2>2. <<"r">> \in Seq({"w", "r"})
    OBVIOUS
  <2>3. <<"w", "r">> \in Seq({"w", "r"})
    OBVIOUS
  <2> QED
    BY <1>2, <2>1, <2>2, <2>3 DEF EspParts
<1>7. /\ j \in I2cJobs /\ j.pc = "begin" /\ j.ops = j0.ops /\ j.steps = st /\ j.got = <<>> /\ j.acked = <<>>
      /\ j.call = j0.call
  <2>1. <<>> \in Seq(I2cBytes) /\ "begin" \in I2cPcs /\ j0 \in I2cJobs
    BY <1>1 DEF I2cPcs, EspNow, I2cNow
  <2> QED
    BY <1>5, <1>6, <2>1 DEF I2cJobs
<1>8. PartOk(j, o)
  BY <1>2, <1>7 DEF EspParts, PartOk
<1>9. BeginOk(j, o)
  <2>1. CASE Head(st) = "w"
    BY <1>7, <2>1 DEF BeginOk
  <2>2. CASE Head(st) # "w"
    <3>1. o.w = 0
      BY <1>2, <1>4, <2>2 DEF EspParts
    <3>2. RunOf(Writes(j.call, 0), j.call, "w", 0) /\ Len(Writes(j.call, 0)) = 0
      BY <1>1, <1>7, RunWhole DEF EspNow, I2cNow
    <3>3. Writes(j.call, 0) = <<>>
      BY <3>2, EmptySeq DEF RunOf
    <3> QED
      BY <1>7, <3>1, <3>3 DEF BeginOk
  <2> QED
    BY <2>1, <2>2
<1>10. EspOk(j, e0)
  BY <1>1, <1>2, <1>3, <1>7, <1>8, <1>9 DEF EspNow, EspOk
<1>11. i2cJob' = [i2cJob EXCEPT ![c] = j] /\ i2cEng' = [i2cEng EXCEPT ![c] = e0] /\ e0 \in I2cEngs
  BY <1>1, <1>3, <1>5 DEF EspNow, I2cNow
<1> QED
  BY <1>3, <1>7, <1>10, <1>11, EspGoes

LEMMA EspStartStep == ASSUME I2cInv, NEW c \in EspCtrls, EspStart(c) PROVE I2cInv'
<1>1. PICK j0, e0 : EspNow(c, j0, e0)
  BY EspNowIs
<1>2. PICK o, dir : o = Head(j0.ops) /\ dir = Head(j0.steps)
  OBVIOUS
<1>3. PICK n : n = IF dir = "w" THEN o.w ELSE o.r
  OBVIOUS
<1>4. /\ j0.pc = "begin" /\ i2cCalls' = i2cCalls
      /\ \/ I2cEnds(c, "invalid") /\ i2cEng' = i2cEng
         \/ /\ i2cEng' = [i2cEng EXCEPT ![c] =
                 [Quiet EXCEPT !.run = TRUE, !.cmds = CommandList(dir, n),
                               !.tx = IF dir = "w" THEN Writes(j0.call, n) ELSE <<>>]]
            /\ i2cJob' = [i2cJob EXCEPT ![c].pc = "wait"]
  BY <1>1, <1>2, <1>3 DEF EspStart, I2cAt, OpOf, EspNow, I2cNow
<1>5. j0.ops # <<>> /\ PartOk(j0, o) /\ BeginOk(j0, o) /\ ~e0.run
  BY <1>1, <1>2, <1>4 DEF EspNow, EspOk
<1>6. o.w \in Nat /\ o.r \in Nat /\ dir \in {"w", "r"} /\ n \in Nat /\ j0.call \in Nat
  BY <1>1, <1>2, <1>3, <1>5, HeadOp, PartIs DEF EspNow, I2cNow
<1>7. CASE I2cEnds(c, "invalid") /\ i2cEng' = i2cEng
  <2>1. i2cEng' = [i2cEng EXCEPT ![c] = e0] /\ e0 \in I2cEngs /\ "invalid" \in I2cEnded /\ c \in EspCtrls \cup PicoCtrls
    BY <1>1, <1>7 DEF EspNow, I2cNow, I2cEnded
  <2> QED
    BY <1>1, <1>4, <1>5, <1>7, <2>1, I2cOver DEF EspNow
<1>8. CASE /\ i2cEng' = [i2cEng EXCEPT ![c] =
                 [Quiet EXCEPT !.run = TRUE, !.cmds = CommandList(dir, n),
                               !.tx = IF dir = "w" THEN Writes(j0.call, n) ELSE <<>>]]
           /\ i2cJob' = [i2cJob EXCEPT ![c].pc = "wait"]
  <2>1. PICK cs, tx : cs = CommandList(dir, n) /\ tx = IF dir = "w" THEN Writes(j0.call, n) ELSE <<>>
    OBVIOUS
  <2>2. cs \in Seq(I2cCmds) /\ OpeningList(cs, dir, n)
    BY <1>6, <2>1, CommandsAre
  <2>3. tx \in Seq(I2cBytes) /\ (dir = "w" => RunOf(tx, j0.call, "w", 0) /\ Len(tx) = n)
    <3>1. <<>> \in Seq(I2cBytes)
      OBVIOUS
    <3>2. Writes(j0.call, n) \in Seq(I2cBytes) /\ RunOf(Writes(j0.call, n), j0.call, "w", 0) /\ Len(Writes(j0.call, n)) = n
      BY <1>6, RunWhole DEF RunOf
    <3> QED
      BY <2>1, <3>1, <3>2
  <2>4. PICK e : e = [Quiet EXCEPT !.run = TRUE, !.cmds = cs, !.tx = tx]
    OBVIOUS
  <2>5. e \in I2cEngs /\ e.run /\ e.cmds = cs /\ e.tx = tx /\ e.rx = <<>> /\ e.flags = {}
    <3>1. e = [run |-> TRUE, cmds |-> cs, tx |-> tx, rx |-> <<>>, flags |-> {}]
      BY <2>4 DEF Quiet
    <3>2. <<>> \in Seq(I2cBytes) /\ {} \in SUBSET I2cFlags
      OBVIOUS
    <3> QED
      BY <2>2, <2>3, <3>1, <3>2 DEF I2cEngs, I2cCmds
  <2>6. PICK j : j = [j0 EXCEPT !.pc = "wait"]
    OBVIOUS
  <2>7. /\ j \in I2cJobs /\ j.pc = "wait" /\ j.ops = j0.ops /\ j.steps = j0.steps /\ j.got = j0.got
        /\ j.acked = j0.acked /\ j.call = j0.call
    BY <1>1, <2>6 DEF EspNow, I2cNow, I2cJobs, I2cPcs
  <2>8. i2cJob' = [i2cJob EXCEPT ![c] = j] /\ i2cEng' = [i2cEng EXCEPT ![c] = e]
    BY <1>1, <1>8, <2>1, <2>4, <2>6 DEF EspNow, I2cNow
  <2>9. Left(j, e, o) = n
    <3>1. Len(e.rx) = 0
      BY <2>5
    <3> QED
      BY <1>2, <1>3, <1>6, <2>3, <2>5, <2>7, <3>1 DEF Left
  <2>10. dir = "w" => WritingOk(j, e, o)
    <3>1. SUFFICES ASSUME dir = "w" PROVE WritingOk(j, e, o)
      OBVIOUS
    <3>2. j.acked = <<>> /\ Len(j.acked) = 0
      BY <1>2, <1>5, <2>7, <3>1 DEF BeginOk
    <3> QED
      BY <1>3, <1>6, <2>3, <2>5, <2>7, <3>1, <3>2, RunNone DEF WritingOk
  <2>11. dir = "r" => ReadingOk(j, e, o)
    <3>1. Len(e.rx) = 0
      BY <2>5
    <3> QED
      BY <1>2, <1>5, <1>6, <2>5, <2>7, <3>1, RunNone DEF ReadingOk, BeginOk
  <2>12. EspWaitOk(j, e, o)
    BY <1>2, <1>5, <2>2, <2>5, <2>7, <2>9, <2>10, <2>11 DEF EspWaitOk, BeginOk
  <2>13. PartOk(j, o)
    BY <1>5, <2>7 DEF PartOk
  <2>14. EspOk(j, e)
    BY <1>2, <1>5, <2>7, <2>12, <2>13 DEF EspOk
  <2> QED
    BY <1>4, <2>5, <2>7, <2>8, <2>14, EspGoes
<1> QED
  BY <1>4, <1>7, <1>8

LEMMA QuietIs == Quiet \in I2cEngs /\ ~Quiet.run
<1>1. <<>> \in Seq(I2cBytes) /\ <<>> \in Seq({"address", "w", "r", "stop"} \cup I2cBytes) /\ {} \in SUBSET I2cFlags
  OBVIOUS
<1> QED
  BY <1>1 DEF Quiet, I2cEngs

(* A call gives up, and the controller is reset.                           *)
LEMMA I2cGivesUp ==
  ASSUME I2cInv, NEW c \in EspCtrls \cup PicoCtrls, NEW how \in {"no device", "timeout", "busy"},
         I2cEnds(c, how), i2cEng' = [i2cEng EXCEPT ![c] = Recovered(@)], UNCHANGED i2cCalls
  PROVE  I2cInv'
<1>0. c \in Ctrls
  BY DEF Ctrls
<1>1. PICK j0, e0 : I2cNow(c, j0, e0)
  BY <1>0, I2cNowIs
<1>2. PICK e : e = Quiet
  OBVIOUS
<1>3. i2cEng' = [i2cEng EXCEPT ![c] = e] /\ e \in I2cEngs /\ ~e.run /\ how \in I2cEnded /\ how # "ok"
  BY <1>0, <1>1, <1>2, QuietIs DEF Recovered, I2cNow, I2cEnded
<1> QED
  BY <1>1, <1>3, I2cOver

LEMMA EspWaitStep == ASSUME I2cInv, NEW c \in EspCtrls, EspWait(c) PROVE I2cInv'
<1>1. PICK j0, e0 : EspNow(c, j0, e0)
  BY EspNowIs
<1>2. /\ j0.pc = "wait" /\ i2cCalls' = i2cCalls
      /\ \/ \E how \in {"no device", "timeout", "busy"} :
              I2cEnds(c, how) /\ i2cEng' = [i2cEng EXCEPT ![c] = Recovered(@)]
         \/ /\ e0.flags \cap I2cErrors = {} /\ "complete" \in e0.flags
            /\ i2cEng' = [i2cEng EXCEPT ![c].flags = {}]
            /\ i2cJob' = [i2cJob EXCEPT ![c].pc = "read"]
  BY <1>1 DEF EspWait, I2cAt, EspNow, I2cNow
<1>3. CASE \E how \in {"no device", "timeout", "busy"} :
             I2cEnds(c, how) /\ i2cEng' = [i2cEng EXCEPT ![c] = Recovered(@)]
  BY <1>2, <1>3, I2cGivesUp
<1>4. CASE /\ e0.flags \cap I2cErrors = {} /\ "complete" \in e0.flags
           /\ i2cEng' = [i2cEng EXCEPT ![c].flags = {}]
           /\ i2cJob' = [i2cJob EXCEPT ![c].pc = "read"]
  <2>1. PICK o : o = Head(j0.ops)
    OBVIOUS
  <2>2. j0.ops # <<>> /\ PartOk(j0, o) /\ EspWaitOk(j0, e0, o)
    BY <1>1, <1>2, <1>4, <2>1 DEF EspNow, EspOk
  <2>3. o.w \in Nat /\ o.r \in Nat /\ Head(j0.steps) \in {"w", "r"} /\ j0.call \in Nat
    BY <1>1, <2>1, <2>2, HeadOp, PartIs DEF EspNow, I2cNow
  <2>4. PICK e : e = [e0 EXCEPT !.flags = {}]
    OBVIOUS
  <2>5. e \in I2cEngs /\ e.run = e0.run /\ e.rx = e0.rx
    <3>1. {} \in SUBSET I2cFlags
      OBVIOUS
    <3> QED
      BY <1>1, <2>4, <3>1 DEF EspNow, I2cNow, I2cEngs
  <2>6. PICK j : j = [j0 EXCEPT !.pc = "read"]
    OBVIOUS
  <2>7. /\ j \in I2cJobs /\ j.pc = "read" /\ j.ops = j0.ops /\ j.steps = j0.steps /\ j.got = j0.got
        /\ j.acked = j0.acked /\ j.call = j0.call
    BY <1>1, <2>6 DEF EspNow, I2cNow, I2cJobs, I2cPcs
  <2>8. i2cJob' = [i2cJob EXCEPT ![c] = j] /\ i2cEng' = [i2cEng EXCEPT ![c] = e]
    BY <1>1, <1>4, <2>4, <2>6 DEF EspNow, I2cNow
  <2>9. ~e0.run /\ Left(j0, e0, o) = 0 /\ j0.got = <<>>
    BY <1>4, <2>2 DEF EspWaitOk
  <2>10. j0.acked = Writes(j0.call, o.w)
    <3>1. CASE Head(j0.steps) = "w"
      <4>1. RunOf(j0.acked, j0.call, "w", 0) /\ Len(j0.acked) + Len(e0.tx) = o.w /\ Len(e0.tx) = 0
        BY <2>2, <2>9, <3>1 DEF EspWaitOk, WritingOk, Left
      <4>2. Len(j0.acked) = o.w
        BY <1>1, <4>1 DEF EspNow, I2cNow
      <4> QED
        BY <2>3, <4>1, <4>2, RunWhole, RunSame
    <3>2. CASE Head(j0.steps) = "r"
      BY <2>2, <3>2 DEF EspWaitOk, ReadingOk
    <3> QED
      BY <2>3, <3>1, <3>2
  <2>11. Head(j0.steps) = "r" => e0.rx = Reads(j0.call, o.r)
    <3>1. SUFFICES ASSUME Head(j0.steps) = "r" PROVE e0.rx = Reads(j0.call, o.r)
      OBVIOUS
    <3>2. RunOf(e0.rx, j0.call, "r", 0) /\ o.r - Len(e0.rx) = 0
      BY <2>2, <2>9, <3>1 DEF EspWaitOk, ReadingOk, Left
    <3>3. Len(e0.rx) = o.r
      BY <1>1, <2>3, <3>2 DEF EspNow, I2cNow
    <3> QED
      BY <2>3, <3>2, <3>3, RunWhole, RunSame
  <2>12. ReadOk(j, e, o)
    BY <2>5, <2>7, <2>9, <2>10, <2>11 DEF ReadOk
  <2>13. PartOk(j, o)
    BY <2>2, <2>7 DEF PartOk
  <2>14. EspOk(j, e)
    BY <2>1, <2>2, <2>5, <2>7, <2>9, <2>12, <2>13 DEF EspOk
  <2> QED
    BY <1>2, <2>5, <2>7, <2>8, <2>14, EspGoes
<1> QED
  BY <1>2, <1>3, <1>4

LEMMA EspDrainStep == ASSUME I2cInv, NEW c \in EspCtrls, EspDrain(c) PROVE I2cInv'
<1>1. PICK j0, e0 : EspNow(c, j0, e0)
  BY EspNowIs
<1>2. PICK o : o = Head(j0.ops)
  OBVIOUS
<1>3. PICK taken : taken = IF Head(j0.steps) = "r" THEN e0.rx ELSE <<>>
  OBVIOUS
<1>4. PICK rx : rx = IF taken = <<>> THEN e0.rx ELSE <<>>
  OBVIOUS
<1>5. PICK got, want, sent : got = j0.got \o taken /\ want = Reads(j0.call, o.r) /\ sent = Writes(j0.call, o.w)
  OBVIOUS
<1>6. PICK k : k = [j0 EXCEPT !.got = got, !.want = want, !.sent = sent]
  OBVIOUS
<1>7. /\ j0.pc = "read" /\ i2cCalls' = i2cCalls
      /\ i2cEng' = [i2cEng EXCEPT ![c].rx = rx]
      /\ Len(j0.steps) = 2 => i2cJob' = [i2cJob EXCEPT ![c] = [k EXCEPT !.pc = "begin", !.steps = Tail(@)]]
      /\ Len(j0.steps) # 2 => OpDone(c, k)
  <2>1. j0 = i2cJob[c] /\ e0 = i2cEng[c] /\ c \in DOMAIN i2cEng /\ j0.got \in Seq(I2cBytes)
    BY <1>1 DEF EspNow, I2cNow
  <2>2. k = [j0 EXCEPT !.got = @ \o taken, !.want = Reads(j0.call, OpOf(c).r), !.sent = Writes(j0.call, OpOf(c).w)]
    BY <1>1, <1>2, <1>5, <1>6, <2>1 DEF OpOf, EspNow, I2cNow, I2cJobs
  <2>3. i2cEng' = [i2cEng EXCEPT ![c].rx = IF taken = <<>> THEN @ ELSE <<>>]
    BY <1>3, <2>1 DEF EspDrain
  <2>4. i2cEng' = [i2cEng EXCEPT ![c].rx = rx]
    BY <1>4, <2>1, <2>3
  <2> QED
    BY <1>3, <2>1, <2>2, <2>4 DEF EspDrain, I2cAt
<1>8. j0.ops # <<>> /\ PartOk(j0, o) /\ ReadOk(j0, e0, o) /\ ~e0.run
  BY <1>1, <1>2, <1>7 DEF EspNow, EspOk
<1>9. /\ o.w \in Nat /\ o.r \in Nat /\ Tail(j0.ops) \in Seq(I2cOps) /\ Head(j0.steps) \in {"w", "r"} /\ j0.call \in Nat
      /\ Len(j0.steps) = 2 => j0.steps = <<"w", "r">> /\ Head(j0.steps) = "w" /\ Tail(j0.steps) = <<"r">>
      /\ Len(j0.steps) # 2 /\ Head(j0.steps) = "w" => o.r = 0
  BY <1>1, <1>2, <1>8, HeadOp, PartIs DEF EspNow, I2cNow
<1>10. taken \in Seq(I2cBytes) /\ rx \in Seq(I2cBytes)
  <2>1. <<>> \in Seq(I2cBytes) /\ e0.rx \in Seq(I2cBytes)
    BY <1>1 DEF EspNow, I2cNow
  <2> QED
    BY <1>3, <1>4, <2>1
<1>11. got = taken
  BY <1>5, <1>8, <1>10 DEF ReadOk
<1>12. /\ want \in Seq(I2cBytes) /\ sent \in Seq(I2cBytes) /\ got \in Seq(I2cBytes)
       /\ RunOf(want, j0.call, "r", 0) /\ Len(want) = o.r
  BY <1>5, <1>9, <1>10, <1>11, RunWhole DEF RunOf
<1>13. /\ k \in I2cJobs /\ k.got = got /\ k.want = want /\ k.sent = sent /\ k.acked = j0.acked
       /\ k.ops = j0.ops /\ k.steps = j0.steps /\ k.call = j0.call
  BY <1>1, <1>6, <1>12 DEF EspNow, I2cNow, I2cJobs
<1>14. PICK e : e = [e0 EXCEPT !.rx = rx]
  OBVIOUS
<1>15. e \in I2cEngs /\ e.run = e0.run
  BY <1>1, <1>10, <1>14 DEF EspNow, I2cNow, I2cEngs
<1>16. i2cEng' = [i2cEng EXCEPT ![c] = e]
  BY <1>1, <1>7, <1>14 DEF EspNow, I2cNow
<1>17. CASE Len(j0.steps) = 2
  <2>1. PICK w : w = <<"r">> /\ w = Tail(j0.steps)
    BY <1>9, <1>17
  <2>2. w \in Seq({"w", "r"}) /\ Head(w) = "r"
    BY <2>1
  <2>3. PICK j : j = [k EXCEPT !.pc = "begin", !.steps = w]
    OBVIOUS
  <2>4. j \in I2cJobs /\ j.pc = "begin" /\ j.steps = w /\ j.ops = j0.ops /\ j.acked = j0.acked /\ j.got = got /\ j.call = j0.call
    BY <1>13, <2>2, <2>3 DEF I2cJobs, I2cPcs
  <2>5. i2cJob' = [i2cJob EXCEPT ![c] = j]
    BY <1>7, <1>13, <1>17, <2>1, <2>3
  <2>6. got = <<>>
    BY <1>3, <1>9, <1>11, <1>17
  <2>7. PartOk(j, o) /\ BeginOk(j, o)
    BY <1>8, <2>1, <2>2, <2>4, <2>6 DEF PartOk, BeginOk, ReadOk
  <2>8. EspOk(j, e)
    BY <1>2, <1>8, <1>15, <2>4, <2>7 DEF EspOk
  <2> QED
    BY <1>7, <1>15, <1>16, <2>4, <2>5, <2>8, EspGoes
<1>18. CASE Len(j0.steps) # 2
  <2>1. PICK t : t = Tail(j0.ops)
    OBVIOUS
  <2>2. PICK j : j = [k EXCEPT !.pc = "op", !.ops = t, !.steps = <<>>, !.pushed = 0]
    OBVIOUS
  <2>3. j \in I2cJobs /\ j.pc = "op" /\ j.acked = j0.acked /\ j.got = got /\ j.want = want /\ j.sent = sent
    <3>1. <<>> \in Seq({"w", "r"}) /\ "op" \in I2cPcs
      BY DEF I2cPcs
    <3> QED
      BY <1>9, <1>13, <2>1, <2>2, <3>1 DEF I2cJobs
  <2>4. i2cJob' = [i2cJob EXCEPT ![c] = j]
    BY <1>7, <1>13, <1>18, <2>1, <2>2 DEF OpDone
  <2>5. got = want
    <3>1. CASE Head(j0.steps) = "r"
      BY <1>3, <1>5, <1>8, <1>11, <3>1 DEF ReadOk
    <3>2. CASE Head(j0.steps) = "w"
      <4>1. got = <<>> /\ Len(want) = 0
        BY <1>3, <1>9, <1>11, <1>12, <1>18, <3>2
      <4> QED
        BY <1>12, <4>1, EmptySeq
    <3> QED
      BY <1>9, <3>1, <3>2
  <2>6. j0.acked = sent
    BY <1>5, <1>8 DEF ReadOk
  <2>7. EspOk(j, e)
    BY <1>8, <1>15, <2>3, <2>5, <2>6 DEF EspOk, EspMoved
  <2> QED
    BY <1>7, <1>15, <1>16, <2>3, <2>4, <2>7, EspGoes
<1> QED
  BY <1>17, <1>18

(* A list that met an error is over, whatever it did.                      *)
LEMMA EspFaulted ==
  ASSUME NEW j0, NEW e0, EspOk(j0, e0), NEW j, NEW e, j0.pc = "wait", j.pc = "wait", j.ops = j0.ops, j.steps = j0.steps,
         e.flags \cap I2cErrors # {}
  PROVE  EspOk(j, e)
BY DEF EspOk, PartOk

(* What is left, in an error-free list, for its next command.              *)
LEMMA EspLeft ==
  ASSUME NEW c, NEW j, NEW e, EspNow(c, j, e), e.run, e.cmds # <<>>, e.flags \cap I2cErrors = {},
         NEW o, o = Head(j.ops), NEW dir, dir = Head(j.steps), NEW n, n = Left(j, e, o)
  PROVE  /\ j.pc = "wait" /\ j.ops # <<>> /\ PartOk(j, o) /\ EspWaitOk(j, e, o) /\ dir \in {"w", "r"}
         /\ "complete" \notin e.flags /\ o.w \in Nat /\ o.r \in Nat /\ n \in Nat
         /\ Tail(e.cmds) \in Seq(I2cCmds)
         /\ Head(e.cmds) = "stop" => n = 0
         /\ Head(e.cmds) = "address" => Rest(Tail(e.cmds), dir, n)
         /\ Head(e.cmds) \in {"w", "r"} => n > 0 /\ Head(e.cmds) = dir /\ Rest(Tail(e.cmds), dir, n - 1)
<1>1. j.pc = "wait"
  BY DEF EspNow, EspOk
<1>2. j.ops # <<>> /\ PartOk(j, o) /\ EspWaitOk(j, e, o)
  BY <1>1 DEF EspNow, EspOk
<1>3. o.w \in Nat /\ o.r \in Nat /\ dir \in {"w", "r"}
  BY <1>2, HeadOp, PartIs DEF EspNow, I2cNow
<1>4. "complete" \notin e.flags
  BY <1>2 DEF EspWaitOk
<1>5. Len(e.tx) \in Nat /\ Len(e.rx) \in Nat /\ e.cmds \in Seq(I2cCmds)
  BY DEF EspNow, I2cNow, I2cEngs, I2cCmds
<1>6. n \in Nat
  <2>1. CASE dir = "w"
    BY <1>5, <2>1 DEF Left
  <2>2. CASE dir = "r"
    <3>1. Len(e.rx) <= o.r
      BY <1>2, <2>2 DEF EspWaitOk, ReadingOk
    <3> QED
      BY <1>3, <1>5, <2>2, <3>1 DEF Left
  <2> QED
    BY <1>3, <2>1, <2>2
<1>7. Rest(e.cmds, dir, n) \/ OpeningList(e.cmds, dir, n)
  BY <1>2, <1>4 DEF EspWaitOk
<1>8. CASE Rest(e.cmds, dir, n)
  <2>1. /\ Tail(e.cmds) \in Seq(I2cCmds) /\ (n = 0 => Head(e.cmds) = "stop")
        /\ n > 0 => Head(e.cmds) = dir /\ Rest(Tail(e.cmds), dir, n - 1)
    BY <1>5, <1>6, <1>8, RestTail
  <2>2. n = 0 \/ n > 0
    BY <1>6
  <2> QED
    BY <1>1, <1>2, <1>3, <1>4, <1>6, <2>1, <2>2
<1>9. CASE OpeningList(e.cmds, dir, n)
  <2>1. Tail(e.cmds) \in Seq(I2cCmds)
    BY <1>5
  <2>2. Head(e.cmds) = "address" /\ Rest(Tail(e.cmds), dir, n)
    BY <1>9 DEF OpeningList
  <2> QED
    BY <1>1, <1>2, <1>3, <1>4, <1>6, <2>1, <2>2
<1> QED
  BY <1>7, <1>8, <1>9

(* One command of the list, done.                                          *)
I2cBecomes(c, e, j) ==
  i2cEng' = [i2cEng EXCEPT ![c] = e] /\ i2cJob' = [i2cJob EXCEPT ![c] = j] /\ i2cCalls' = i2cCalls

LEMMA EspBecame ==
  ASSUME I2cInv, NEW c \in EspCtrls, NEW j \in I2cJobs, NEW e \in I2cEngs, I2cBecomes(c, e, j), EspOk(j, e)
  PROVE  I2cInv'
BY EspGoes DEF I2cBecomes

LEMMA EspTails ==
  ASSUME NEW e0 \in I2cEngs, e0.cmds # <<>>
  PROVE  /\ Tail(e0.cmds) \in Seq({"address", "w", "r", "stop"} \cup I2cBytes)
         /\ <<"stop">> \in Seq({"address", "w", "r", "stop"} \cup I2cBytes)
         /\ e0.tx # <<>> => Tail(e0.tx) \in Seq(I2cBytes) /\ Head(e0.tx) \in I2cBytes
<1>1. e0.cmds \in Seq({"address", "w", "r", "stop"} \cup I2cBytes) /\ e0.tx \in Seq(I2cBytes)
  BY DEF I2cEngs
<1>2. Tail(e0.cmds) \in Seq({"address", "w", "r", "stop"} \cup I2cBytes)
  BY <1>1
<1>3. e0.tx # <<>> => Tail(e0.tx) \in Seq(I2cBytes) /\ Head(e0.tx) \in I2cBytes
  BY <1>1
<1>4. <<"stop">> \in Seq({"address", "w", "r", "stop"} \cup I2cBytes)
  OBVIOUS
<1> QED
  BY <1>2, <1>3, <1>4

LEMMA EspErrs ==
  ASSUME I2cInv, NEW c \in EspCtrls, NEW j0, NEW e0, EspNow(c, j0, e0), j0.pc = "wait", NEW e \in I2cEngs,
         I2cBecomes(c, e, j0), e.flags \cap I2cErrors # {}
  PROVE  I2cInv'
<1>1. EspOk(j0, e) /\ j0 \in I2cJobs
  BY EspFaulted DEF EspNow, I2cNow
<1> QED
  BY <1>1, EspBecame

LEMMA EspStopStep ==
  ASSUME I2cInv, NEW c \in EspCtrls, NEW j0, NEW e0, EspNow(c, j0, e0), e0.run, e0.cmds # <<>>, Head(e0.cmds) = "stop",
         I2cBecomes(c, [e0 EXCEPT !.cmds = Tail(@), !.run = FALSE, !.flags = @ \cup {"complete"}], j0)
  PROVE  I2cInv'
<1>1. PICK cs, fl, no : cs = Tail(e0.cmds) /\ fl = e0.flags \cup {"complete"} /\ no = FALSE
  OBVIOUS
<1>2. PICK e : e = [e0 EXCEPT !.cmds = cs, !.run = no, !.flags = fl]
  OBVIOUS
<1>3. I2cBecomes(c, e, j0) /\ j0.pc = "wait" /\ j0 \in I2cJobs /\ e0 \in I2cEngs
  BY <1>1, <1>2 DEF EspNow, I2cNow, EspOk
<1>4. e \in I2cEngs /\ ~e.run /\ e.flags = fl /\ e.tx = e0.tx /\ e.rx = e0.rx
  <2>1. fl \in SUBSET I2cFlags /\ no \in BOOLEAN
    BY <1>1 DEF EspNow, I2cNow, I2cFlags
  <2> QED
    BY <1>1, <1>2, <1>3, <2>1, EspTails DEF I2cEngs
<1>5. CASE e0.flags \cap I2cErrors # {}
  <2>1. fl \cap I2cErrors # {}
    BY <1>1, <1>5
  <2> QED
    BY <1>3, <1>4, <2>1, EspErrs
<1>6. CASE e0.flags \cap I2cErrors = {}
  <2>1. PICK o, dir, n : o = Head(j0.ops) /\ dir = Head(j0.steps) /\ n = Left(j0, e0, o)
    OBVIOUS
  <2>2. j0.ops # <<>> /\ PartOk(j0, o) /\ EspWaitOk(j0, e0, o) /\ n = 0
    BY <1>6, <2>1, EspLeft
  <2>3. EspWaitOk(j0, e, o)
    BY <1>1, <1>4, <2>1, <2>2 DEF EspWaitOk, WritingOk, ReadingOk, Left
  <2>4. EspOk(j0, e)
    BY <1>3, <2>1, <2>2, <2>3 DEF EspOk
  <2> QED
    BY <1>3, <1>4, <2>4, EspBecame
<1> QED
  BY <1>5, <1>6

LEMMA EspAddressStep ==
  ASSUME I2cInv, NEW c \in EspCtrls, NEW j0, NEW e0, EspNow(c, j0, e0), e0.run, e0.cmds # <<>>, Head(e0.cmds) = "address",
         I2cBecomes(c, [e0 EXCEPT !.cmds = Tail(@)], j0)
  PROVE  I2cInv'
<1>1. PICK cs : cs = Tail(e0.cmds)
  OBVIOUS
<1>2. PICK e : e = [e0 EXCEPT !.cmds = cs]
  OBVIOUS
<1>3. I2cBecomes(c, e, j0) /\ j0.pc = "wait" /\ j0 \in I2cJobs /\ e0 \in I2cEngs
  BY <1>1, <1>2 DEF EspNow, I2cNow, EspOk
<1>4. e \in I2cEngs /\ e.run = e0.run /\ e.flags = e0.flags /\ e.tx = e0.tx /\ e.rx = e0.rx /\ e.cmds = cs
  BY <1>1, <1>2, <1>3, EspTails DEF I2cEngs
<1>5. CASE e0.flags \cap I2cErrors # {}
  BY <1>3, <1>4, <1>5, EspErrs
<1>6. CASE e0.flags \cap I2cErrors = {}
  <2>1. PICK o, dir, n : o = Head(j0.ops) /\ dir = Head(j0.steps) /\ n = Left(j0, e0, o)
    OBVIOUS
  <2>2. j0.ops # <<>> /\ PartOk(j0, o) /\ EspWaitOk(j0, e0, o) /\ Rest(cs, dir, n) /\ "complete" \notin e0.flags
    BY <1>1, <1>6, <2>1, EspLeft
  <2>3. EspWaitOk(j0, e, o)
    BY <1>1, <1>4, <2>1, <2>2 DEF EspWaitOk, WritingOk, ReadingOk, Left
  <2>4. EspOk(j0, e)
    BY <1>3, <2>1, <2>2, <2>3 DEF EspOk
  <2> QED
    BY <1>3, <1>4, <2>4, EspBecame
<1> QED
  BY <1>5, <1>6

LEMMA EspByteOutStep ==
  ASSUME I2cInv, NEW c \in EspCtrls, NEW j0, NEW e0, EspNow(c, j0, e0), e0.run, e0.cmds # <<>>, Head(e0.cmds) = "w",
         e0.tx # <<>>,
         I2cBecomes(c, [e0 EXCEPT !.cmds = Tail(@), !.tx = Tail(@)], [j0 EXCEPT !.acked = Append(@, Head(e0.tx))])
  PROVE  I2cInv'
<1>1. PICK cs, tx, b, ac : cs = Tail(e0.cmds) /\ tx = Tail(e0.tx) /\ b = Head(e0.tx) /\ ac = Append(j0.acked, b)
  OBVIOUS
<1>2. PICK e, j : e = [e0 EXCEPT !.cmds = cs, !.tx = tx] /\ j = [j0 EXCEPT !.acked = ac]
  OBVIOUS
<1>3. j0.pc = "wait" /\ j0 \in I2cJobs /\ e0 \in I2cEngs /\ j0.acked \in Seq(I2cBytes) /\ j0.call \in Nat /\ Len(j0.acked) \in Nat
  BY DEF EspNow, I2cNow, EspOk
<1>4. I2cBecomes(c, e, j)
  <2>1. e = [e0 EXCEPT !.cmds = Tail(@), !.tx = Tail(@)]
    BY <1>1, <1>2, <1>3 DEF I2cEngs
  <2>2. j = [j0 EXCEPT !.acked = Append(@, Head(e0.tx))]
    BY <1>1, <1>2, <1>3 DEF I2cJobs
  <2> QED
    BY <2>1, <2>2
<1>5. /\ e \in I2cEngs /\ e.run = e0.run /\ e.flags = e0.flags /\ e.tx = tx /\ e.rx = e0.rx /\ e.cmds = cs
      /\ b \in I2cBytes
  BY <1>1, <1>2, <1>3, EspTails DEF I2cEngs
<1>6. /\ j \in I2cJobs /\ j.pc = "wait" /\ j.ops = j0.ops /\ j.steps = j0.steps /\ j.acked = ac /\ j.got = j0.got
      /\ j.call = j0.call
  <2>1. ac \in Seq(I2cBytes)
    BY <1>1, <1>3, <1>5
  <2> QED
    BY <1>2, <1>3, <2>1 DEF I2cJobs
<1>7. CASE e0.flags \cap I2cErrors # {}
  <2>1. EspOk(j, e)
    BY <1>3, <1>5, <1>6, <1>7, EspFaulted DEF EspNow
  <2> QED
    BY <1>4, <1>5, <1>6, <2>1, EspBecame
<1>8. CASE e0.flags \cap I2cErrors = {}
  <2>1. PICK o, dir, n : o = Head(j0.ops) /\ dir = Head(j0.steps) /\ n = Left(j0, e0, o)
    OBVIOUS
  <2>2. /\ j0.ops # <<>> /\ PartOk(j0, o) /\ EspWaitOk(j0, e0, o) /\ "complete" \notin e0.flags
        /\ n > 0 /\ dir = "w" /\ Rest(cs, dir, n - 1)
    BY <1>1, <1>8, <2>1, EspLeft
  <2>3. n = Len(e0.tx) /\ WritingOk(j0, e0, o)
    BY <2>1, <2>2 DEF Left, EspWaitOk
  <2>4. /\ b = WireByte(j0.call, "w", Len(j0.acked) + 1) /\ RunOf(tx, j0.call, "w", Len(j0.acked) + 1)
        /\ Len(tx) = Len(e0.tx) - 1 /\ Len(e0.tx) \in Nat
    <3>1. PICK k, t : k = Len(j0.acked) /\ t = e0.tx
      OBVIOUS
    <3>2. k \in Nat /\ RunOf(t, j0.call, "w", k) /\ t # <<>>
      BY <1>3, <2>3, <3>1 DEF WritingOk
    <3>3. /\ Head(t) = WireByte(j0.call, "w", k + 1) /\ RunOf(Tail(t), j0.call, "w", k + 1)
          /\ Len(Tail(t)) = Len(t) - 1 /\ Len(t) \in Nat \ {0}
      BY <3>2, RunTail
    <3> QED
      BY <1>1, <3>1, <3>3
  <2>5. b = WireByte(j0.call, "w", 0 + Len(j0.acked) + 1)
    BY <1>3, <2>4
  <2>6. RunOf(ac, j0.call, "w", 0) /\ Len(ac) = Len(j0.acked) + 1
    <3>1. "w" \in {"w", "r"} /\ 0 \in Nat /\ RunOf(j0.acked, j0.call, "w", 0)
      BY <2>3 DEF WritingOk
    <3>2. PICK a : a = j0.acked
      OBVIOUS
    <3>3. RunOf(a, j0.call, "w", 0) /\ b = WireByte(j0.call, "w", 0 + Len(a) + 1)
      BY <2>5, <3>1, <3>2
    <3>4. RunOf(Append(a, b), j0.call, "w", 0) /\ Len(Append(a, b)) = Len(a) + 1
      BY <1>3, <3>1, <3>3, RunAppend
    <3> QED
      BY <1>1, <3>2, <3>4
  <2>7. Len(ac) + Len(tx) = o.w
    <3>1. Len(j0.acked) + Len(e0.tx) = o.w
      BY <2>3 DEF WritingOk
    <3>2. PICK x, y, p, q : x = Len(ac) /\ y = Len(tx) /\ p = Len(j0.acked) /\ q = Len(e0.tx)
      OBVIOUS
    <3>3. x = p + 1 /\ y = q - 1 /\ p + q = o.w /\ p \in Nat /\ q \in Nat
      BY <1>3, <2>4, <2>6, <3>1, <3>2
    <3>4. x + y = o.w
      BY <3>3
    <3> QED
      BY <3>2, <3>4
  <2>8. WritingOk(j, e, o)
    BY <1>5, <1>6, <2>4, <2>6, <2>7 DEF WritingOk
  <2>9. Left(j, e, o) = n - 1
    BY <1>5, <1>6, <2>1, <2>2, <2>3, <2>4 DEF Left
  <2>10. EspWaitOk(j, e, o)
    BY <1>5, <1>6, <2>1, <2>2, <2>8, <2>9 DEF EspWaitOk
  <2>11. EspOk(j, e)
    BY <1>6, <2>1, <2>2, <2>10 DEF EspOk, PartOk
  <2> QED
    BY <1>4, <1>5, <1>6, <2>11, EspBecame
<1> QED
  BY <1>7, <1>8

LEMMA EspByteInStep ==
  ASSUME I2cInv, NEW c \in EspCtrls, NEW j0, NEW e0, EspNow(c, j0, e0), e0.run, e0.cmds # <<>>, Head(e0.cmds) = "r",
         I2cBecomes(c, [e0 EXCEPT !.cmds = Tail(@), !.rx = Append(@, WireByte(j0.call, "r", Len(e0.rx) + 1))], j0)
  PROVE  I2cInv'
<1>1. PICK cs, b, rx : cs = Tail(e0.cmds) /\ b = WireByte(j0.call, "r", Len(e0.rx) + 1) /\ rx = Append(e0.rx, b)
  OBVIOUS
<1>2. PICK e : e = [e0 EXCEPT !.cmds = cs, !.rx = rx]
  OBVIOUS
<1>3. j0.pc = "wait" /\ j0 \in I2cJobs /\ e0 \in I2cEngs /\ e0.rx \in Seq(I2cBytes) /\ j0.call \in Nat /\ Len(e0.rx) \in Nat
  BY DEF EspNow, I2cNow, EspOk
<1>4. I2cBecomes(c, e, j0)
  <2>1. e = [e0 EXCEPT !.cmds = Tail(@), !.rx = Append(@, b)]
    BY <1>1, <1>2, <1>3 DEF I2cEngs
  <2> QED
    BY <1>1, <2>1
<1>5. e \in I2cEngs /\ e.run = e0.run /\ e.flags = e0.flags /\ e.tx = e0.tx /\ e.rx = rx /\ e.cmds = cs
  <2>1. b \in I2cBytes
    BY <1>1, <1>3 DEF WireByte, I2cBytes
  <2>2. rx \in Seq(I2cBytes)
    BY <1>1, <1>3, <2>1
  <2> QED
    BY <1>1, <1>2, <1>3, <2>2, EspTails DEF I2cEngs
<1>7. CASE e0.flags \cap I2cErrors # {}
  BY <1>3, <1>4, <1>5, <1>7, EspErrs
<1>8. CASE e0.flags \cap I2cErrors = {}
  <2>1. PICK o, dir, n : o = Head(j0.ops) /\ dir = Head(j0.steps) /\ n = Left(j0, e0, o)
    OBVIOUS
  <2>2. /\ j0.ops # <<>> /\ PartOk(j0, o) /\ EspWaitOk(j0, e0, o) /\ "complete" \notin e0.flags
        /\ n > 0 /\ dir = "r" /\ Rest(cs, dir, n - 1) /\ o.r \in Nat
    BY <1>1, <1>8, <2>1, EspLeft
  <2>3. n = o.r - Len(e0.rx) /\ ReadingOk(j0, e0, o)
    BY <2>1, <2>2 DEF Left, EspWaitOk
  <2>4. RunOf(rx, j0.call, "r", 0) /\ Len(rx) = Len(e0.rx) + 1
    <3>1. "r" \in {"w", "r"} /\ 0 \in Nat /\ RunOf(e0.rx, j0.call, "r", 0) /\ b = WireByte(j0.call, "r", 0 + Len(e0.rx) + 1)
      BY <1>1, <1>3, <2>3 DEF ReadingOk
    <3> QED
      BY <1>1, <1>3, <3>1, RunAppend
  <2>5. ReadingOk(j0, e, o)
    BY <1>3, <1>5, <2>2, <2>3, <2>4 DEF ReadingOk
  <2>6. Left(j0, e, o) = n - 1
    BY <1>3, <1>5, <2>1, <2>2, <2>3, <2>4 DEF Left
  <2>7. EspWaitOk(j0, e, o)
    BY <1>5, <2>1, <2>2, <2>5, <2>6 DEF EspWaitOk
  <2>8. EspOk(j0, e)
    BY <1>3, <2>1, <2>2, <2>7 DEF EspOk
  <2> QED
    BY <1>3, <1>4, <1>5, <2>8, EspBecame
<1> QED
  BY <1>7, <1>8

(* A byte, or the address, is not acknowledged.                            *)
LEMMA EspNakStep ==
  ASSUME I2cInv, NEW c \in EspCtrls, NEW j0, NEW e0, EspNow(c, j0, e0), e0.run, e0.cmds # <<>>,
         NEW tx \in {e0.tx, Tail(e0.tx)}, tx = e0.tx \/ e0.tx # <<>>,
         I2cBecomes(c, [e0 EXCEPT !.cmds = <<"stop">>, !.flags = @ \cup {"ack"}, !.tx = tx], j0)
  PROVE  I2cInv'
<1>1. PICK cs, fl : cs = <<"stop">> /\ fl = e0.flags \cup {"ack"}
  OBVIOUS
<1>2. PICK e : e = [e0 EXCEPT !.cmds = cs, !.flags = fl, !.tx = tx]
  OBVIOUS
<1>3. j0.pc = "wait" /\ e0 \in I2cEngs /\ I2cBecomes(c, e, j0) /\ e0.tx \in Seq(I2cBytes) /\ e0.flags \in SUBSET I2cFlags
  BY <1>1, <1>2 DEF EspNow, I2cNow, EspOk
<1>4. tx \in Seq(I2cBytes) /\ cs \in Seq({"address", "w", "r", "stop"} \cup I2cBytes)
  BY <1>1, <1>3, EspTails
<1>5. fl \in SUBSET I2cFlags /\ fl \cap I2cErrors # {}
  BY <1>1, <1>3 DEF I2cFlags, I2cErrors
<1>6. e \in I2cEngs /\ e.flags = fl
  BY <1>2, <1>3, <1>4, <1>5 DEF I2cEngs
<1> QED
  BY <1>3, <1>5, <1>6, EspErrs

LEMMA EspLostStep ==
  ASSUME I2cInv, NEW c \in EspCtrls, NEW j0, NEW e0, EspNow(c, j0, e0), e0.run, NEW f \in {"time", "arb"},
         I2cBecomes(c, [e0 EXCEPT !.run = FALSE, !.flags = @ \cup {f}], j0)
  PROVE  I2cInv'
<1>1. PICK no, fl : no = FALSE /\ fl = e0.flags \cup {f}
  OBVIOUS
<1>2. PICK e : e = [e0 EXCEPT !.run = no, !.flags = fl]
  OBVIOUS
<1>3. j0.pc = "wait" /\ e0 \in I2cEngs /\ I2cBecomes(c, e, j0) /\ e0.flags \in SUBSET I2cFlags
  BY <1>1, <1>2 DEF EspNow, I2cNow, EspOk
<1>5. fl \in SUBSET I2cFlags /\ fl \cap I2cErrors # {} /\ no \in BOOLEAN
  BY <1>1, <1>3 DEF I2cFlags, I2cErrors
<1>6. e \in I2cEngs /\ e.flags = fl
  BY <1>2, <1>3, <1>5 DEF I2cEngs
<1> QED
  BY <1>3, <1>5, <1>6, EspErrs

LEMMA EspShiftStep == ASSUME I2cInv, NEW c \in EspCtrls, EspShift(c) PROVE I2cInv'
<1>1. PICK j0, e0 : EspNow(c, j0, e0)
  BY EspNowIs
<1>2. j0 = i2cJob[c] /\ e0 = i2cEng[c] /\ e0 \in I2cEngs
  BY <1>1 DEF EspNow, I2cNow
<1>3. e0.run /\ e0.cmds # <<>> /\ i2cCalls' = i2cCalls
  BY <1>2 DEF EspShift
<1>4. \/ /\ Head(e0.cmds) = "stop"
         /\ I2cBecomes(c, [[e0 EXCEPT !.cmds = Tail(@)] EXCEPT !.run = FALSE, !.flags = @ \cup {"complete"}], j0)
      \/ /\ Head(e0.cmds) = "address"
         /\ \E f \in {[e0 EXCEPT !.cmds = Tail(@)], [e0 EXCEPT !.cmds = <<"stop">>, !.flags = @ \cup {"ack"}]} :
              I2cBecomes(c, f, j0)
      \/ /\ Head(e0.cmds) = "w" /\ e0.tx # <<>>
         /\ \/ I2cBecomes(c, [[e0 EXCEPT !.cmds = Tail(@)] EXCEPT !.tx = Tail(@)],
                          [j0 EXCEPT !.acked = Append(@, Head(e0.tx))])
            \/ I2cBecomes(c, [[e0 EXCEPT !.cmds = <<"stop">>, !.flags = @ \cup {"ack"}] EXCEPT !.tx = Tail(@)], j0)
      \/ /\ Head(e0.cmds) = "r"
         /\ I2cBecomes(c, [[e0 EXCEPT !.cmds = Tail(@)] EXCEPT !.rx = Append(@, WireByte(j0.call, "r", Len(e0.rx) + 1))], j0)
      \/ \E f \in {"time", "arb"} : I2cBecomes(c, [e0 EXCEPT !.run = FALSE, !.flags = @ \cup {f}], j0)
  BY <1>2, <1>3, Zenon DEF EspShift, I2cBecomes
<1>5. /\ [[e0 EXCEPT !.cmds = Tail(@)] EXCEPT !.run = FALSE, !.flags = @ \cup {"complete"}]
           = [e0 EXCEPT !.cmds = Tail(@), !.run = FALSE, !.flags = @ \cup {"complete"}]
      /\ [[e0 EXCEPT !.cmds = Tail(@)] EXCEPT !.tx = Tail(@)] = [e0 EXCEPT !.cmds = Tail(@), !.tx = Tail(@)]
      /\ [[e0 EXCEPT !.cmds = Tail(@)] EXCEPT !.rx = Append(@, WireByte(j0.call, "r", Len(e0.rx) + 1))]
           = [e0 EXCEPT !.cmds = Tail(@), !.rx = Append(@, WireByte(j0.call, "r", Len(e0.rx) + 1))]
  BY <1>2 DEF I2cEngs
<1>6. [e0 EXCEPT !.cmds = <<"stop">>, !.flags = @ \cup {"ack"}]
        = [e0 EXCEPT !.cmds = <<"stop">>, !.flags = @ \cup {"ack"}, !.tx = e0.tx]
  BY <1>2 DEF I2cEngs
<1>7. [[e0 EXCEPT !.cmds = <<"stop">>, !.flags = @ \cup {"ack"}] EXCEPT !.tx = Tail(@)]
        = [e0 EXCEPT !.cmds = <<"stop">>, !.flags = @ \cup {"ack"}, !.tx = Tail(e0.tx)]
  BY <1>2 DEF I2cEngs
<1>8. CASE /\ Head(e0.cmds) = "stop"
           /\ I2cBecomes(c, [[e0 EXCEPT !.cmds = Tail(@)] EXCEPT !.run = FALSE, !.flags = @ \cup {"complete"}], j0)
  BY <1>1, <1>3, <1>5, <1>8, EspStopStep
<1>9. CASE Head(e0.cmds) = "address" /\ I2cBecomes(c, [e0 EXCEPT !.cmds = Tail(@)], j0)
  BY <1>1, <1>3, <1>9, EspAddressStep
<1>10. CASE I2cBecomes(c, [e0 EXCEPT !.cmds = <<"stop">>, !.flags = @ \cup {"ack"}], j0)
  BY <1>1, <1>3, <1>6, <1>10, EspNakStep
<1>11. CASE /\ Head(e0.cmds) = "w" /\ e0.tx # <<>>
            /\ I2cBecomes(c, [[e0 EXCEPT !.cmds = Tail(@)] EXCEPT !.tx = Tail(@)], [j0 EXCEPT !.acked = Append(@, Head(e0.tx))])
  BY <1>1, <1>3, <1>5, <1>11, EspByteOutStep
<1>12. CASE /\ e0.tx # <<>>
            /\ I2cBecomes(c, [[e0 EXCEPT !.cmds = <<"stop">>, !.flags = @ \cup {"ack"}] EXCEPT !.tx = Tail(@)], j0)
  BY <1>1, <1>3, <1>7, <1>12, EspNakStep
<1>13. CASE /\ Head(e0.cmds) = "r"
            /\ I2cBecomes(c, [[e0 EXCEPT !.cmds = Tail(@)] EXCEPT !.rx = Append(@, WireByte(j0.call, "r", Len(e0.rx) + 1))], j0)
  BY <1>1, <1>3, <1>5, <1>13, EspByteInStep
<1>14. CASE \E f \in {"time", "arb"} : I2cBecomes(c, [e0 EXCEPT !.run = FALSE, !.flags = @ \cup {f}], j0)
  BY <1>1, <1>3, <1>14, EspLostStep
<1> QED
  BY <1>4, <1>8, <1>9, <1>10, <1>11, <1>12, <1>13, <1>14, Zenon

(***************************************************************************)
(* The RP2040's controllers, as masters.                                   *)
(***************************************************************************)
PicoNow(c, j, e) == I2cNow(c, j, e) /\ PicoOk(j, e) /\ c \in Ctrls
LEMMA PicoNowIs == ASSUME I2cInv, NEW c \in PicoCtrls PROVE \E j, e : PicoNow(c, j, e)
<1>0. c \in Ctrls
  BY DEF Ctrls
<1>1. PICK j, e : I2cNow(c, j, e)
  BY <1>0, I2cNowIs
<1> QED
  BY <1>0, <1>1, PicoOnly DEF I2cNow, PicoNow

LEMMA PicoGoes ==
  ASSUME I2cInv, NEW c \in PicoCtrls, NEW j \in I2cJobs, NEW e \in I2cEngs,
         i2cJob' = [i2cJob EXCEPT ![c] = j], i2cEng' = [i2cEng EXCEPT ![c] = e],
         UNCHANGED i2cCalls, PicoOk(j, e)
  PROVE  I2cInv'
<1>1. c \in Ctrls /\ CtrlOk(c, j, e, i2cCalls[c])
  BY PicoOnly DEF Ctrls
<1> QED
  BY <1>1, I2cGoes

LEMMA PicoTransactStep == ASSUME I2cInv, NEW c \in PicoCtrls, PicoTransact(c) PROVE I2cInv'
<1>1. PICK j0, e0 : PicoNow(c, j0, e0)
  BY PicoNowIs
<1>2. PICK o, want, sent : o = Head(j0.ops) /\ want = Reads(j0.call, o.r) /\ sent = Writes(j0.call, o.w)
  OBVIOUS
<1>3. /\ j0.pc = "op" /\ j0.ops # <<>> /\ i2cCalls' = i2cCalls
      /\ \/ I2cEnds(c, "invalid") /\ i2cEng' = i2cEng
         \/ /\ i2cEng' = [i2cEng EXCEPT ![c] = [Quiet EXCEPT !.run = TRUE]]
            /\ i2cJob' = [i2cJob EXCEPT ![c].pc = "check", ![c].acked = <<>>, ![c].got = <<>>,
                                        ![c].sent = sent, ![c].want = want]
  BY <1>1, <1>2 DEF PicoTransact, I2cAt, OpOf, PicoNow, I2cNow
<1>4. o.w \in Nat /\ o.r \in Nat /\ j0.call \in Nat /\ j0.pushed = 0 /\ ~e0.run
  BY <1>1, <1>2, <1>3, HeadOp DEF PicoNow, I2cNow, PicoOk
<1>5. CASE I2cEnds(c, "invalid") /\ i2cEng' = i2cEng
  <2>1. i2cEng' = [i2cEng EXCEPT ![c] = e0] /\ e0 \in I2cEngs /\ "invalid" \in I2cEnded /\ c \in EspCtrls \cup PicoCtrls
    BY <1>1, <1>5 DEF PicoNow, I2cNow, I2cEnded
  <2> QED
    BY <1>1, <1>3, <1>4, <1>5, <2>1, I2cOver DEF PicoNow
<1>6. CASE /\ i2cEng' = [i2cEng EXCEPT ![c] = [Quiet EXCEPT !.run = TRUE]]
           /\ i2cJob' = [i2cJob EXCEPT ![c].pc = "check", ![c].acked = <<>>, ![c].got = <<>>,
                                       ![c].sent = sent, ![c].want = want]
  <2>1. PICK e : e = [Quiet EXCEPT !.run = TRUE]
    OBVIOUS
  <2>2. e \in I2cEngs /\ e.flags = {} /\ e.tx = <<>> /\ e.rx = <<>>
    <3>1. e = [run |-> TRUE, cmds |-> <<>>, tx |-> <<>>, rx |-> <<>>, flags |-> {}]
      BY <2>1 DEF Quiet
    <3>2. <<>> \in Seq(I2cBytes) /\ <<>> \in Seq({"address", "w", "r", "stop"} \cup I2cBytes) /\ {} \in SUBSET I2cFlags
      OBVIOUS
    <3> QED
      BY <3>1, <3>2 DEF I2cEngs
  <2>3. /\ RunOf(sent, j0.call, "w", 0) /\ Len(sent) = o.w /\ RunOf(want, j0.call, "r", 0) /\ Len(want) = o.r
    BY <1>2, <1>4, RunWhole
  <2>4. PICK j : j = [j0 EXCEPT !.pc = "check", !.acked = <<>>, !.got = <<>>, !.sent = sent, !.want = want]
    OBVIOUS
  <2>5. /\ j \in I2cJobs /\ j.pc = "check" /\ j.acked = <<>> /\ j.got = <<>> /\ j.sent = sent /\ j.want = want
        /\ j.call = j0.call /\ j.pushed = 0 /\ j.ops = j0.ops
    <3>1. <<>> \in Seq(I2cBytes) /\ sent \in Seq(I2cBytes) /\ want \in Seq(I2cBytes) /\ "check" \in I2cPcs
      BY <2>3 DEF RunOf, I2cPcs
    <3> QED
      BY <1>1, <1>4, <2>4, <3>1 DEF PicoNow, I2cNow, I2cJobs
  <2>6. i2cJob' = [i2cJob EXCEPT ![c] = j] /\ i2cEng' = [i2cEng EXCEPT ![c] = e]
    BY <1>1, <1>6, <2>1, <2>4 DEF PicoNow, I2cNow
  <2>7. Len(j.acked) = 0 /\ Len(j.got) = 0 /\ Len(e.rx) = 0 /\ Len(e.tx) = 0
    BY <2>2, <2>5
  <2>8. BytesOk(j, e)
    BY <1>4, <2>2, <2>3, <2>5, <2>7, RunNone DEF BytesOk
  <2>9. PushedOk(j, e)
    BY <1>4, <2>2, <2>3, <2>5, <2>7 DEF PushedOk, Done
  <2>10. PicoOk(j, e)
    BY <1>3, <2>2, <2>5, <2>8, <2>9 DEF PicoOk
  <2> QED
    BY <1>3, <2>2, <2>5, <2>6, <2>10, PicoGoes
<1> QED
  BY <1>3, <1>5, <1>6

(* The driver looks again, at the same bytes.                              *)
LEMMA PicoAgain ==
  ASSUME I2cInv, NEW c \in PicoCtrls, NEW j0, NEW e0, PicoNow(c, j0, e0), j0.pc \in {"check", "look"},
         NEW loc \in {"check", "look"}, i2cJob' = [i2cJob EXCEPT ![c].pc = loc], UNCHANGED <<i2cEng, i2cCalls>>
  PROVE  I2cInv'
<1>1. PICK j : j = [j0 EXCEPT !.pc = loc]
  OBVIOUS
<1>2. /\ j \in I2cJobs /\ j.pc = loc /\ j.acked = j0.acked /\ j.got = j0.got /\ j.sent = j0.sent /\ j.want = j0.want
      /\ j.call = j0.call /\ j.pushed = j0.pushed /\ j.ops = j0.ops
  BY <1>1 DEF PicoNow, I2cNow, I2cJobs, I2cPcs
<1>3. i2cJob' = [i2cJob EXCEPT ![c] = j] /\ i2cEng' = [i2cEng EXCEPT ![c] = e0] /\ e0 \in I2cEngs
  BY <1>1 DEF PicoNow, I2cNow
<1>4. BytesOk(j0, e0) /\ PushedOk(j0, e0)
  BY DEF PicoNow, PicoOk
<1>5. BytesOk(j, e0)
  BY <1>2, <1>4 DEF BytesOk
<1>6. PushedOk(j, e0)
  BY <1>2, <1>4 DEF PushedOk, Done, WireAt
<1>7. PicoOk(j, e0)
  BY <1>2, <1>5, <1>6 DEF PicoNow, PicoOk
<1> QED
  BY <1>2, <1>3, <1>7, PicoGoes

LEMMA PicoCheckStep == ASSUME I2cInv, NEW c \in PicoCtrls, PicoCheck(c) PROVE I2cInv'
<1>1. PICK j0, e0 : PicoNow(c, j0, e0)
  BY PicoNowIs
<1>2. /\ j0.pc = "check" /\ i2cCalls' = i2cCalls
      /\ \/ \E how \in {"no device", "busy"} : I2cEnds(c, how) /\ i2cEng' = [i2cEng EXCEPT ![c] = Recovered(@)]
         \/ i2cJob' = [i2cJob EXCEPT ![c].pc = "look"] /\ i2cEng' = i2cEng
  BY <1>1 DEF PicoCheck, I2cAt, PicoNow, I2cNow
<1>3. CASE \E how \in {"no device", "busy"} : I2cEnds(c, how) /\ i2cEng' = [i2cEng EXCEPT ![c] = Recovered(@)]
  BY <1>2, <1>3, I2cGivesUp
<1>4. CASE i2cJob' = [i2cJob EXCEPT ![c].pc = "look"] /\ i2cEng' = i2cEng
  BY <1>1, <1>2, <1>4, PicoAgain
<1> QED
  BY <1>2, <1>3, <1>4

LEMMA PicoTimeoutStep == ASSUME I2cInv, NEW c \in PicoCtrls, PicoTimeout(c) PROVE I2cInv'
<1>1. I2cEnds(c, "timeout") /\ i2cEng' = [i2cEng EXCEPT ![c] = Recovered(@)] /\ i2cCalls' = i2cCalls
  BY DEF PicoTimeout
<1>2. "timeout" \in {"no device", "timeout", "busy"} /\ c \in EspCtrls \cup PicoCtrls
  OBVIOUS
<1> QED
  BY <1>1, <1>2, I2cGivesUp

LEMMA WireIs ==
  ASSUME NEW j, RunOf(j.sent, j.call, "w", 0), RunOf(j.want, j.call, "r", 0), NEW k \in 1 .. Len(j.sent) + Len(j.want)
  PROVE  Wire(j)[k] = WireAt(j, k) /\ Len(j.sent) \in Nat /\ Len(j.want) \in Nat
<1>1. PICK s, t : s = j.sent /\ t = j.want
  OBVIOUS
<1>2. s \in Seq(I2cBytes) /\ t \in Seq(I2cBytes) /\ Len(s) \in Nat /\ Len(t) \in Nat
  BY <1>1 DEF RunOf
<1>3. /\ \A i \in 1 .. Len(s) : (s \o t)[i] = s[i]
      /\ \A i \in 1 .. Len(t) : (s \o t)[Len(s) + i] = t[i]
  BY <1>2, CatIs
<1>4. CASE k <= Len(s)
  <2>1. k \in 1 .. Len(s) /\ 0 + k = k
    BY <1>1, <1>2, <1>4
  <2>2. s[k] = WireByte(j.call, "w", 0 + k)
    BY <1>1, <2>1 DEF RunOf
  <2> QED
    BY <1>1, <1>2, <1>3, <1>4, <2>1, <2>2 DEF Wire, WireAt
<1>5. CASE k > Len(s)
  <2>1. PICK i, m, n : m = Len(s) /\ n = Len(t) /\ i = k - m
    OBVIOUS
  <2>2. i \in 1 .. Len(t) /\ Len(s) + i = k /\ 0 + i = i /\ ~(k <= Len(s)) /\ i = k - Len(s)
    <3>1. m \in Nat /\ n \in Nat /\ k \in 1 .. m + n /\ k > m
      BY <1>1, <1>2, <1>5, <2>1
    <3>2. i \in 1 .. n /\ m + i = k /\ 0 + i = i /\ ~(k <= m) /\ i = k - m
      BY <2>1, <3>1
    <3> QED
      BY <2>1, <3>2
  <2>3. t[i] = WireByte(j.call, "r", 0 + i)
    BY <1>1, <2>2 DEF RunOf
  <2> QED
    BY <1>1, <1>2, <1>3, <2>1, <2>2, <2>3 DEF Wire, WireAt
<1> QED
  BY <1>1, <1>2, <1>4, <1>5

(* The counts of an exchange in progress.                                  *)
Counts(j, e, s, w, a, g, x, t, p) ==
  /\ s = Len(j.sent) /\ w = Len(j.want) /\ a = Len(j.acked) /\ g = Len(j.got) /\ x = Len(e.rx) /\ t = Len(e.tx)
  /\ p = j.pushed
Counted(s, w, a, g, x, t, p) ==
  a <= s /\ (g + x > 0 => a = s) /\ p <= s + w /\ p <= s + g + 1 /\ a + g + x + t <= p
Tally(j, e, s, w, a, g, x, t, p) ==
  /\ s \in Nat /\ w \in Nat /\ a \in Nat /\ g \in Nat /\ x \in Nat /\ t \in Nat /\ p \in Nat
  /\ Counts(j, e, s, w, a, g, x, t, p) /\ Counted(s, w, a, g, x, t, p)
  /\ "abort" \notin e.flags => a + g + x + t = p
  /\ "abort" \in e.flags => e.tx = <<>>
  /\ \A i \in 1 .. t : e.tx[i] = WireAt(j, a + g + x + i)
LEMMA PicoCounts ==
  ASSUME NEW c, NEW j, NEW e, PicoNow(c, j, e), j.pc \in {"check", "look"}
  PROVE  \E s, w, a, g, x, t, p : Tally(j, e, s, w, a, g, x, t, p)
<1>1. PICK s, w, a, g, x, t, p : Counts(j, e, s, w, a, g, x, t, p)
  BY DEF Counts
<1>2. s \in Nat /\ w \in Nat /\ a \in Nat /\ g \in Nat /\ x \in Nat /\ t \in Nat /\ p \in Nat
  <2>1. /\ j.sent \in Seq(I2cBytes) /\ j.want \in Seq(I2cBytes) /\ j.acked \in Seq(I2cBytes) /\ j.got \in Seq(I2cBytes)
        /\ e.rx \in Seq(I2cBytes) /\ e.tx \in Seq(I2cBytes) /\ j.pushed \in Nat
    BY DEF PicoNow, I2cNow
  <2>2. /\ Len(j.sent) \in Nat /\ Len(j.want) \in Nat /\ Len(j.acked) \in Nat /\ Len(j.got) \in Nat
        /\ Len(e.rx) \in Nat /\ Len(e.tx) \in Nat
    BY <2>1
  <2> QED
    BY <1>1, <2>1, <2>2 DEF Counts
<1>3. BytesOk(j, e) /\ PushedOk(j, e)
  BY DEF PicoNow, PicoOk
<1>4. a <= s /\ (g + x > 0 => a = s)
  BY <1>1, <1>3 DEF BytesOk, Counts
<1>5. Done(j, e) = a + g + x
  BY <1>1 DEF Counts, Done
<1>6. /\ p <= s + w /\ p <= s + g + 1 /\ a + g + x + t <= p /\ ("abort" \notin e.flags => a + g + x + t = p)
      /\ \A i \in 1 .. t : e.tx[i] = WireAt(j, a + g + x + i)
      /\ ("abort" \in e.flags => e.tx = <<>>)
  BY <1>1, <1>3, <1>5, Zenon DEF PushedOk, Counts
<1>7. Counted(s, w, a, g, x, t, p)
  BY <1>4, <1>6 DEF Counted
<1>8. Tally(j, e, s, w, a, g, x, t, p)
  BY <1>1, <1>2, <1>6, <1>7, Zenon DEF Tally
<1> QED
  BY <1>8

LEMMA PicoCounted ==
  ASSUME NEW j, NEW e, NEW s, NEW w, NEW a, NEW g, NEW x, NEW t, NEW p, Tally(j, e, s, w, a, g, x, t, p),
         RunOf(j.sent, j.call, "w", 0), RunOf(j.want, j.call, "r", 0), RunOf(j.acked, j.call, "w", 0),
         RunOf(j.got, j.call, "r", 0), RunOf(e.rx, j.call, "r", g)
  PROVE  BytesOk(j, e) /\ PushedOk(j, e)
<1>1. Done(j, e) = a + g + x
  BY DEF Counts, Done, Tally
<1>2. BytesOk(j, e)
  BY Zenon DEF BytesOk, Counts, Counted, Tally
<1>3. PushedOk(j, e)
  BY <1>1, Zenon DEF PushedOk, Counts, Counted, Tally
<1> QED
  BY <1>2, <1>3

LEMMA PicoPush ==
  ASSUME I2cInv, NEW c \in PicoCtrls, NEW j0, NEW e0, PicoNow(c, j0, e0), j0.pc = "look", Awaits(j0) = "room",
         i2cEng' = [i2cEng EXCEPT ![c].tx = IF "abort" \in e0.flags THEN <<>> ELSE Append(@, Wire(j0)[j0.pushed + 1])],
         i2cJob' = [i2cJob EXCEPT ![c] = [[j0 EXCEPT !.pc = "check"] EXCEPT !.pushed = @ + 1]],
         UNCHANGED i2cCalls
  PROVE  I2cInv'
<1>1. PICK p, b : p = j0.pushed + 1 /\ b = Wire(j0)[p]
  OBVIOUS
<1>2. PICK tx : tx = IF "abort" \in e0.flags THEN <<>> ELSE Append(e0.tx, b)
  OBVIOUS
<1>3. BytesOk(j0, e0) /\ PushedOk(j0, e0) /\ j0 \in I2cJobs /\ e0 \in I2cEngs /\ j0.pushed \in Nat /\ e0.tx \in Seq(I2cBytes)
  BY DEF PicoNow, PicoOk, I2cNow
<1>0. PICK s, w, a, g, x, t, q : Tally(j0, e0, s, w, a, g, x, t, q)
  BY PicoCounts
<1>4. /\ s \in Nat /\ w \in Nat /\ a \in Nat /\ g \in Nat /\ x \in Nat /\ t \in Nat /\ q \in Nat
      /\ Counts(j0, e0, s, w, a, g, x, t, q) /\ Counted(s, w, a, g, x, t, q)
      /\ "abort" \notin e0.flags => a + g + x + t = q
      /\ \A i \in 1 .. t : e0.tx[i] = WireAt(j0, a + g + x + i)
  BY <1>0 DEF Tally
<1>5. q <= s + g /\ q < s + w /\ p = q + 1
  <2>1. ~(q > s + g) /\ q < s + w /\ p = q + 1
    BY <1>1, <1>4, Zenon DEF Awaits, Counts
  <2> QED
    BY <1>4, <2>1
<1>6. b = WireAt(j0, p) /\ b \in I2cBytes
  <2>1. p \in 1 .. Len(j0.sent) + Len(j0.want)
    <3>1. p \in 1 .. s + w
      BY <1>4, <1>5
    <3> QED
      BY <1>4, <3>1 DEF Counts
  <2>2. b = WireAt(j0, p)
    BY <1>1, <1>3, <2>1, WireIs DEF BytesOk
  <2>3. p \in Nat /\ (~(p <= s) => p - s \in Nat)
    BY <1>4, <1>5
  <2>4. s = Len(j0.sent) /\ j0.call \in Nat
    BY <1>4 DEF Counts, PicoNow, I2cNow
  <2> QED
    BY <2>2, <2>3, <2>4 DEF WireAt, WireByte, I2cBytes
<1>7. PICK e, j : e = [e0 EXCEPT !.tx = tx] /\ j = [j0 EXCEPT !.pc = "check", !.pushed = p]
  OBVIOUS
<1>8. tx \in Seq(I2cBytes)
  <2>1. <<>> \in Seq(I2cBytes) /\ Append(e0.tx, b) \in Seq(I2cBytes)
    BY <1>3, <1>6
  <2> QED
    BY <1>2, <2>1
<1>9. e \in I2cEngs /\ e.tx = tx /\ e.rx = e0.rx /\ e.flags = e0.flags /\ e.run = e0.run
  BY <1>3, <1>7, <1>8 DEF I2cEngs
<1>10. /\ j \in I2cJobs /\ j.pc = "check" /\ j.acked = j0.acked /\ j.got = j0.got /\ j.sent = j0.sent /\ j.want = j0.want
       /\ j.call = j0.call /\ j.pushed = p /\ j.ops = j0.ops
  <2>1. p \in Nat /\ "check" \in I2cPcs
    BY <1>4, <1>5 DEF I2cPcs
  <2> QED
    BY <1>3, <1>7, <2>1 DEF I2cJobs
<1>11. i2cJob' = [i2cJob EXCEPT ![c] = j] /\ i2cEng' = [i2cEng EXCEPT ![c] = e]
  <2>1. j = [[j0 EXCEPT !.pc = "check"] EXCEPT !.pushed = @ + 1]
    BY <1>1, <1>3, <1>7 DEF I2cJobs
  <2>2. e0 = i2cEng[c] /\ c \in DOMAIN i2cEng
    BY DEF PicoNow, I2cNow
  <2>3. i2cEng' = [i2cEng EXCEPT ![c].tx = tx]
    BY <1>1, <1>2, <2>2
  <2> QED
    BY <1>7, <2>1, <2>2, <2>3
<1>12. PICK u : u = Len(tx)
  OBVIOUS
<1>13. \A k : WireAt(j, k) = WireAt(j0, k)
  BY <1>10 DEF WireAt
<1>14. /\ u \in Nat /\ a + g + x + u <= p /\ ("abort" \notin e.flags => a + g + x + u = p)
       /\ ("abort" \in e.flags => tx = <<>>) /\ \A i \in 1 .. u : tx[i] = WireAt(j0, a + g + x + i)
  <2>1. CASE "abort" \in e0.flags
    <3>1. tx = <<>> /\ u = 0
      BY <1>2, <1>12, <2>1
    <3>2. a + g + x + 0 <= p
      BY <1>4, <1>5 DEF Counted
    <3> QED
      BY <1>9, <2>1, <3>1, <3>2
  <2>2. CASE "abort" \notin e0.flags
    <3>1. t = Len(e0.tx)
      BY <1>4 DEF Counts
    <3>2. Len(tx) = Len(e0.tx) + 1 /\ tx[Len(e0.tx) + 1] = b /\ \A i \in 1 .. Len(e0.tx) : tx[i] = e0.tx[i]
      BY <1>2, <1>3, <1>6, <2>2
    <3>3. u = t + 1 /\ tx[t + 1] = b /\ \A i \in 1 .. t : tx[i] = e0.tx[i]
      BY <1>12, <3>1, <3>2
    <3>6. u = t + 1 /\ a + g + x + t = q /\ p = q + 1
      BY <1>4, <1>5, <2>2, <3>3
    <3>4. a + g + x + u = p /\ u \in Nat /\ a + g + x + u <= p
      <4>1. a \in Nat /\ g \in Nat /\ x \in Nat /\ t \in Nat /\ q \in Nat
        BY <1>4
      <4> QED
        BY <3>6, <4>1
    <3>5. ASSUME NEW i \in 1 .. u PROVE tx[i] = WireAt(j0, a + g + x + i)
      <4>1. CASE i = t + 1
        <5>1. a + g + x + i = p
          BY <3>3, <3>4, <4>1
        <5> QED
          BY <1>6, <3>3, <4>1, <5>1
      <4>2. CASE i # t + 1
        <5>1. i \in 1 .. t
          BY <1>4, <3>3, <4>2
        <5> QED
          BY <1>4, <3>3, <5>1
      <4> QED
        BY <4>1, <4>2
    <3> QED
      BY <1>9, <2>2, <3>4, <3>5
  <2> QED
    BY <2>1, <2>2
<1>15. p \in Nat /\ Counts(j, e, s, w, a, g, x, u, p) /\ Counted(s, w, a, g, x, u, p)
  <2>1. p \in Nat /\ p <= s + w /\ p <= s + g + 1
    BY <1>4, <1>5
  <2>2. Counts(j, e, s, w, a, g, x, u, p)
    BY <1>4, <1>9, <1>10, <1>12 DEF Counts
  <2> QED
    BY <1>4, <1>14, <2>1, <2>2 DEF Counted
<1>16. BytesOk(j, e) /\ PushedOk(j, e)
  <2>1. g = Len(j0.got)
    BY <1>4 DEF Counts
  <2>2. /\ RunOf(j.sent, j.call, "w", 0) /\ RunOf(j.want, j.call, "r", 0) /\ RunOf(j.acked, j.call, "w", 0)
        /\ RunOf(j.got, j.call, "r", 0) /\ RunOf(e.rx, j.call, "r", g)
    BY <1>3, <1>9, <1>10, <2>1 DEF BytesOk
  <2>3. \A i \in 1 .. u : e.tx[i] = WireAt(j, a + g + x + i)
    BY <1>9, <1>13, <1>14
  <2>4. e.tx = tx /\ e.flags = e0.flags
    BY <1>9
  <2>5. Tally(j, e, s, w, a, g, x, u, p)
    BY <1>4, <1>14, <1>15, <2>3, <2>4, Zenon DEF Tally
  <2> QED
    BY <2>2, <2>5, PicoCounted
<1>17. PicoOk(j, e)
  BY <1>9, <1>10, <1>16 DEF PicoNow, PicoOk
<1> QED
  BY <1>9, <1>10, <1>11, <1>17, PicoGoes

LEMMA PicoTake ==
  ASSUME I2cInv, NEW c \in PicoCtrls, NEW j0, NEW e0, PicoNow(c, j0, e0), j0.pc = "look", e0.rx # <<>>,
         i2cEng' = [i2cEng EXCEPT ![c].rx = Tail(@)],
         i2cJob' = [i2cJob EXCEPT ![c] = [[j0 EXCEPT !.pc = "check"] EXCEPT !.got = Append(@, Head(e0.rx))]],
         UNCHANGED i2cCalls
  PROVE  I2cInv'
<1>1. PICK rx, b, got : rx = Tail(e0.rx) /\ b = Head(e0.rx) /\ got = Append(j0.got, b)
  OBVIOUS
<1>2. BytesOk(j0, e0) /\ PushedOk(j0, e0) /\ j0 \in I2cJobs /\ e0 \in I2cEngs /\ j0.pushed \in Nat /\ j0.call \in Nat
  BY DEF PicoNow, PicoOk, I2cNow
<1>3. /\ Len(j0.sent) \in Nat /\ Len(j0.want) \in Nat /\ Len(j0.got) \in Nat /\ Len(j0.acked) \in Nat
      /\ Len(e0.rx) \in Nat /\ Len(e0.tx) \in Nat
  BY SMTT(30) DEF PicoNow, I2cNow
<1>4. PICK g, x : g = Len(j0.got) /\ x = e0.rx
  OBVIOUS
<1>5. /\ Head(x) = WireByte(j0.call, "r", g + 1) /\ RunOf(Tail(x), j0.call, "r", g + 1)
      /\ Len(Tail(x)) = Len(x) - 1 /\ Len(x) \in Nat \ {0}
  <2>1. g \in Nat /\ RunOf(x, j0.call, "r", g) /\ x # <<>>
    BY <1>2, <1>3, <1>4 DEF BytesOk
  <2> QED
    BY <2>1, RunTail
<1>6. b = WireByte(j0.call, "r", g + 1) /\ RunOf(rx, j0.call, "r", g + 1) /\ Len(rx) = Len(e0.rx) - 1 /\ Len(e0.rx) > 0
  BY <1>1, <1>4, <1>5
<1>7. RunOf(got, j0.call, "r", 0) /\ Len(got) = g + 1
  <2>1. PICK a : a = j0.got
    OBVIOUS
  <2>2. RunOf(a, j0.call, "r", 0) /\ b = WireByte(j0.call, "r", 0 + Len(a) + 1) /\ "r" \in {"w", "r"} /\ 0 \in Nat
    BY <1>2, <1>3, <1>4, <1>6, <2>1 DEF BytesOk
  <2>3. RunOf(Append(a, b), j0.call, "r", 0) /\ Len(Append(a, b)) = Len(a) + 1
    BY <1>2, <2>2, RunAppend
  <2> QED
    BY <1>1, <1>4, <2>1, <2>3
<1>8. PICK e, j : e = [e0 EXCEPT !.rx = rx] /\ j = [j0 EXCEPT !.pc = "check", !.got = got]
  OBVIOUS
<1>9. e \in I2cEngs /\ e.tx = e0.tx /\ e.rx = rx /\ e.flags = e0.flags /\ e.run = e0.run
  BY <1>2, <1>6, <1>8 DEF I2cEngs, RunOf
<1>10. /\ j \in I2cJobs /\ j.pc = "check" /\ j.acked = j0.acked /\ j.got = got /\ j.sent = j0.sent /\ j.want = j0.want
       /\ j.call = j0.call /\ j.pushed = j0.pushed /\ j.ops = j0.ops
  BY <1>2, <1>7, <1>8 DEF I2cJobs, I2cPcs, RunOf
<1>11. i2cJob' = [i2cJob EXCEPT ![c] = j] /\ i2cEng' = [i2cEng EXCEPT ![c] = e]
  <2>1. j = [[j0 EXCEPT !.pc = "check"] EXCEPT !.got = Append(@, Head(e0.rx))]
    BY <1>1, <1>2, <1>8 DEF I2cJobs
  <2>2. e0 = i2cEng[c] /\ c \in DOMAIN i2cEng
    BY DEF PicoNow, I2cNow
  <2>3. i2cEng' = [i2cEng EXCEPT ![c].rx = rx]
    BY <1>1, <2>2
  <2> QED
    BY <1>8, <2>1, <2>2, <2>3
<1>0. PICK s, w, a, h, x0, t, p : Tally(j0, e0, s, w, a, h, x0, t, p)
  BY PicoCounts
<1>12. /\ s \in Nat /\ w \in Nat /\ a \in Nat /\ h \in Nat /\ x0 \in Nat /\ t \in Nat /\ p \in Nat
       /\ Counts(j0, e0, s, w, a, h, x0, t, p) /\ Counted(s, w, a, h, x0, t, p)
       /\ "abort" \notin e0.flags => a + h + x0 + t = p
       /\ \A i \in 1 .. t : e0.tx[i] = WireAt(j0, a + h + x0 + i)
  BY <1>0 DEF Tally
<1>13. PICK n, r : n = h + 1 /\ r = x0 - 1
  OBVIOUS
<1>14. h = g /\ Len(got) = n /\ Len(rx) = r /\ x0 > 0
  <2>1. h = g /\ x0 = Len(e0.rx)
    BY <1>4, <1>12 DEF Counts
  <2> QED
    BY <1>6, <1>7, <1>13, <2>1
<1>15. n \in Nat /\ r \in Nat /\ a + n + r = a + h + x0
  <2>1. a \in Nat /\ h \in Nat /\ x0 \in Nat /\ x0 > 0 /\ n = h + 1 /\ r = x0 - 1
    BY <1>12, <1>13, <1>14
  <2> QED
    BY <2>1
<1>16. Counts(j, e, s, w, a, n, r, t, p) /\ Counted(s, w, a, n, r, t, p)
  <2>1. Counts(j, e, s, w, a, n, r, t, p)
    BY <1>9, <1>10, <1>12, <1>14 DEF Counts
  <2>2. h + x0 > 0 /\ p <= s + n + 1 /\ a + n + r + t <= p
    <3>1. /\ s \in Nat /\ a \in Nat /\ h \in Nat /\ x0 \in Nat /\ t \in Nat /\ p \in Nat
          /\ p <= s + h + 1 /\ a + h + x0 + t <= p
      BY <1>12 DEF Counted
    <3>2. n = h + 1 /\ r = x0 - 1 /\ x0 > 0
      BY <1>13, <1>14
    <3> QED
      BY SMTT(30), <3>1, <3>2
  <2> QED
    BY <1>12, <2>1, <2>2 DEF Counted
<1>17. \A k : WireAt(j, k) = WireAt(j0, k)
  BY <1>10 DEF WireAt
<1>18. BytesOk(j, e) /\ PushedOk(j, e)
  <2>1. n = g + 1
    BY <1>13, <1>14
  <2>2. /\ RunOf(j.sent, j.call, "w", 0) /\ RunOf(j.want, j.call, "r", 0) /\ RunOf(j.acked, j.call, "w", 0)
        /\ RunOf(j.got, j.call, "r", 0) /\ RunOf(e.rx, j.call, "r", n)
    BY <1>2, <1>6, <1>7, <1>9, <1>10, <2>1 DEF BytesOk
  <2>3. ASSUME NEW i \in 1 .. t PROVE e.tx[i] = WireAt(j, a + n + r + i)
    BY <1>9, <1>12, <1>15, <1>17
  <2>4. "abort" \notin e.flags => a + n + r + t = p
    BY <1>9, <1>12, <1>15
  <2>5. "abort" \in e.flags => e.tx = <<>>
    BY <1>2, <1>9 DEF PushedOk
  <2> QED
    <3>1. Tally(j, e, s, w, a, n, r, t, p)
      BY <1>12, <1>15, <1>16, <2>3, <2>4, <2>5, Zenon DEF Tally
    <3> QED
      BY <2>2, <3>1, PicoCounted
<1>19. PicoOk(j, e)
  BY <1>9, <1>10, <1>18 DEF PicoNow, PicoOk
<1> QED
  BY <1>9, <1>10, <1>11, <1>19, PicoGoes

(* STOP_DET after the last command: the op is over.                        *)
LEMMA PicoStop ==
  ASSUME I2cInv, NEW c \in PicoCtrls, NEW j0, NEW e0, PicoNow(c, j0, e0), j0.pc = "look", Awaits(j0) = "stop",
         "stop" \in e0.flags, i2cEng' = [i2cEng EXCEPT ![c].flags = @ \ {"stop"}], OpDone(c, j0), UNCHANGED i2cCalls
  PROVE  I2cInv'
<1>1. PICK s, w, a, g, x, t, p : Tally(j0, e0, s, w, a, g, x, t, p)
  BY PicoCounts
<1>2. /\ s \in Nat /\ w \in Nat /\ a \in Nat /\ g \in Nat /\ x \in Nat /\ t \in Nat /\ p \in Nat
      /\ Counts(j0, e0, s, w, a, g, x, t, p) /\ Counted(s, w, a, g, x, t, p)
  BY <1>1 DEF Tally
<1>3. ~(p > s + g) /\ ~(p < s + w)
  <2>1. "stop" # "byte" /\ "stop" # "room"
    OBVIOUS
  <2> QED
    BY <1>2, <2>1, Zenon DEF Awaits, Counts
<1>4. g = w /\ (w > 0 => a = s)
  BY <1>2, <1>3 DEF Counted
<1>5. BytesOk(j0, e0) /\ j0 \in I2cJobs /\ e0 \in I2cEngs /\ ~e0.run /\ j0.ops # <<>> /\ j0.ops \in Seq(I2cOps)
  BY DEF PicoNow, PicoOk, I2cNow
<1>6. j0.got = j0.want
  <2>1. Len(j0.got) = Len(j0.want)
    BY <1>2, <1>4 DEF Counts
  <2> QED
    BY <1>5, <2>1, RunSame DEF BytesOk
<1>7. j0.want # <<>> => j0.acked = j0.sent
  <2> SUFFICES ASSUME j0.want # <<>> PROVE j0.acked = j0.sent
    OBVIOUS
  <2>1. j0.want \in Seq(I2cBytes)
    BY DEF PicoNow, I2cNow
  <2>2. w # 0
    BY <1>2, <2>1, EmptySeq DEF Counts
  <2>3. a = s
    BY <1>2, <1>4, <2>2
  <2>4. Len(j0.acked) = Len(j0.sent)
    BY <1>2, <2>3 DEF Counts
  <2> QED
    BY <1>5, <2>4, RunSame DEF BytesOk
<1>8. PICK ops, none, fl : ops = Tail(j0.ops) /\ none = <<>> /\ fl = e0.flags \ {"stop"}
  OBVIOUS
<1>9. PICK e, j : e = [e0 EXCEPT !.flags = fl] /\ j = [j0 EXCEPT !.pc = "op", !.ops = ops, !.steps = none, !.pushed = 0]
  OBVIOUS
<1>10. e \in I2cEngs /\ e.run = e0.run
  <2>1. fl \in SUBSET I2cFlags
    BY <1>5, <1>8 DEF I2cEngs
  <2> QED
    BY <1>5, <1>9, <2>1 DEF I2cEngs
<1>11. j \in I2cJobs /\ j.pc = "op" /\ j.got = j0.got /\ j.want = j0.want /\ j.acked = j0.acked /\ j.sent = j0.sent /\ j.pushed = 0
  <2>1. ops \in Seq(I2cOps) /\ none \in Seq({"w", "r"}) /\ "op" \in I2cPcs
    BY <1>5, <1>8 DEF I2cPcs
  <2> QED
    BY <1>5, <1>9, <2>1 DEF I2cJobs
<1>12. i2cJob' = [i2cJob EXCEPT ![c] = j] /\ i2cEng' = [i2cEng EXCEPT ![c] = e]
  <2>1. j = [j0 EXCEPT !.pc = "op", !.ops = Tail(@), !.steps = <<>>, !.pushed = 0]
    BY <1>5, <1>8, <1>9 DEF I2cJobs
  <2>2. e0 = i2cEng[c] /\ c \in DOMAIN i2cEng
    BY DEF PicoNow, I2cNow
  <2>3. i2cEng' = [i2cEng EXCEPT ![c].flags = fl]
    BY <1>8, <2>2
  <2> QED
    BY <1>9, <2>1, <2>2, <2>3 DEF OpDone
<1>13. PicoOk(j, e)
  BY <1>5, <1>6, <1>7, <1>10, <1>11 DEF PicoOk
<1> QED
  BY <1>10, <1>11, <1>12, <1>13, PicoGoes

LEMMA PicoLookStep == ASSUME I2cInv, NEW c \in PicoCtrls, PicoLook(c) PROVE I2cInv'
<1>1. PICK j0, e0 : PicoNow(c, j0, e0)
  BY PicoNowIs
<1>2. j0 = i2cJob[c] /\ e0 = i2cEng[c] /\ j0 \in I2cJobs
  BY <1>1 DEF PicoNow, I2cNow
<1>3. j0.pc = "look" /\ i2cCalls' = i2cCalls
  BY <1>2 DEF PicoLook, I2cAt
<1>4. \/ /\ Awaits(j0) = "room"
         /\ i2cEng' = [i2cEng EXCEPT ![c].tx = IF "abort" \in e0.flags THEN <<>> ELSE Append(@, Wire(j0)[j0.pushed + 1])]
         /\ i2cJob' = [i2cJob EXCEPT ![c] = [[j0 EXCEPT !.pc = "check"] EXCEPT !.pushed = @ + 1]]
      \/ /\ e0.rx # <<>>
         /\ i2cEng' = [i2cEng EXCEPT ![c].rx = Tail(@)]
         /\ i2cJob' = [i2cJob EXCEPT ![c] = [[j0 EXCEPT !.pc = "check"] EXCEPT !.got = Append(@, Head(e0.rx))]]
      \/ /\ Awaits(j0) = "stop" /\ "stop" \in e0.flags
         /\ i2cEng' = [i2cEng EXCEPT ![c].flags = @ \ {"stop"}] /\ OpDone(c, j0)
      \/ i2cJob' = [i2cJob EXCEPT ![c] = [j0 EXCEPT !.pc = "check"]] /\ i2cEng' = i2cEng
  BY <1>2, Zenon DEF PicoLook
<1>5. CASE /\ Awaits(j0) = "room"
           /\ i2cEng' = [i2cEng EXCEPT ![c].tx = IF "abort" \in e0.flags THEN <<>> ELSE Append(@, Wire(j0)[j0.pushed + 1])]
           /\ i2cJob' = [i2cJob EXCEPT ![c] = [[j0 EXCEPT !.pc = "check"] EXCEPT !.pushed = @ + 1]]
  BY <1>1, <1>3, <1>5, PicoPush
<1>6. CASE /\ e0.rx # <<>>
           /\ i2cEng' = [i2cEng EXCEPT ![c].rx = Tail(@)]
           /\ i2cJob' = [i2cJob EXCEPT ![c] = [[j0 EXCEPT !.pc = "check"] EXCEPT !.got = Append(@, Head(e0.rx))]]
  BY <1>1, <1>3, <1>6, PicoTake
<1>7. CASE /\ Awaits(j0) = "stop" /\ "stop" \in e0.flags
           /\ i2cEng' = [i2cEng EXCEPT ![c].flags = @ \ {"stop"}] /\ OpDone(c, j0)
  BY <1>1, <1>3, <1>7, PicoStop
<1>8. CASE i2cJob' = [i2cJob EXCEPT ![c] = [j0 EXCEPT !.pc = "check"]] /\ i2cEng' = i2cEng
  <2>1. i2cJob' = [i2cJob EXCEPT ![c].pc = "check"]
    BY <1>2, <1>8
  <2> QED
    BY <1>1, <1>3, <2>1, <1>8, PicoAgain
<1> QED
  BY <1>4, <1>5, <1>6, <1>7, <1>8

(* The hardware moves: bytes sent, bytes received, flags.                  *)
PicoParts(j, e, j0, e0, acked, tx, rx, run, fl) ==
  j = [j0 EXCEPT !.acked = acked] /\ e = [e0 EXCEPT !.tx = tx, !.rx = rx, !.run = run, !.flags = fl]
PicoFlags(run, fl) == run \in BOOLEAN /\ fl \in SUBSET I2cFlags /\ ("stop" \in fl => ~run)
PicoTally(j0, fl, acked, tx, rx, s, w, a, g, x, t, p) ==
  /\ g = Len(j0.got) /\ s = Len(j0.sent) /\ w = Len(j0.want) /\ a = Len(acked) /\ x = Len(rx) /\ t = Len(tx)
  /\ p = j0.pushed /\ Counted(s, w, a, g, x, t, p)
  /\ "abort" \notin fl => a + g + x + t = p
  /\ "abort" \in fl => tx = <<>>
  /\ \A i \in 1 .. t : tx[i] = WireAt(j0, a + g + x + i)
LEMMA PicoMoves ==
  ASSUME I2cInv, NEW c \in PicoCtrls, NEW j0, NEW e0, PicoNow(c, j0, e0), j0.pc \in {"check", "look"},
         NEW acked, NEW tx, NEW rx, NEW run, NEW fl, NEW j, NEW e, PicoParts(j, e, j0, e0, acked, tx, rx, run, fl),
         NEW s, NEW w, NEW a, NEW g, NEW x, NEW t, NEW p, PicoTally(j0, fl, acked, tx, rx, s, w, a, g, x, t, p),
         tx \in Seq(I2cBytes), RunOf(acked, j0.call, "w", 0), RunOf(rx, j0.call, "r", g), PicoFlags(run, fl),
         I2cBecomes(c, e, j)
  PROVE  I2cInv'
<1>1. /\ BytesOk(j0, e0) /\ j0 \in I2cJobs /\ e0 \in I2cEngs /\ j0.ops # <<>> /\ j0.pushed \in Nat
      /\ j0.got \in Seq(I2cBytes) /\ j0.want \in Seq(I2cBytes) /\ j0.sent \in Seq(I2cBytes)
  BY DEF PicoNow, PicoOk, I2cNow
<1>2. acked \in Seq(I2cBytes) /\ rx \in Seq(I2cBytes)
  BY DEF RunOf
<1>3. e \in I2cEngs /\ e.tx = tx /\ e.rx = rx /\ e.run = run /\ e.flags = fl
  BY <1>1, <1>2 DEF I2cEngs, PicoParts, PicoFlags
<1>4. /\ j \in I2cJobs /\ j.pc = j0.pc /\ j.ops = j0.ops /\ j.acked = acked /\ j.got = j0.got /\ j.sent = j0.sent
      /\ j.want = j0.want /\ j.call = j0.call /\ j.pushed = j0.pushed
  BY <1>1, <1>2 DEF I2cJobs, PicoParts
<1>5. \A k : WireAt(j, k) = WireAt(j0, k)
  BY <1>4 DEF WireAt
<1>6. s \in Nat /\ w \in Nat /\ a \in Nat /\ g \in Nat /\ x \in Nat /\ t \in Nat /\ p \in Nat
  BY <1>1, <1>2 DEF PicoTally
<1>7. Counts(j, e, s, w, a, g, x, t, p)
  BY <1>3, <1>4, Zenon DEF Counts, PicoTally
<1>8. \A i \in 1 .. t : e.tx[i] = WireAt(j, a + g + x + i)
  BY <1>3, <1>5 DEF PicoTally
<1>9. Tally(j, e, s, w, a, g, x, t, p)
  BY <1>3, <1>6, <1>7, <1>8, Zenon DEF Tally, PicoTally
<1>10. /\ RunOf(j.sent, j.call, "w", 0) /\ RunOf(j.want, j.call, "r", 0) /\ RunOf(j.acked, j.call, "w", 0)
       /\ RunOf(j.got, j.call, "r", 0) /\ RunOf(e.rx, j.call, "r", g)
  BY <1>1, <1>3, <1>4 DEF BytesOk
<1>11. BytesOk(j, e) /\ PushedOk(j, e)
  BY <1>9, <1>10, PicoCounted
<1>12. PicoOk(j, e)
  BY <1>1, <1>3, <1>4, <1>11 DEF PicoOk, PicoFlags
<1> QED
  BY <1>3, <1>4, <1>12, PicoGoes DEF I2cBecomes

(* What a running engine with a command at hand has done so far.           *)
LEMMA PicoAtWork ==
  ASSUME NEW c, NEW j0, NEW e0, PicoNow(c, j0, e0), e0.run
  PROVE  /\ j0.pc \in {"check", "look"} /\ "stop" \notin e0.flags /\ BytesOk(j0, e0)
         /\ e0.tx # <<>> => "abort" \notin e0.flags
<1>1. j0.pc \in {"check", "look"} /\ "stop" \notin e0.flags /\ BytesOk(j0, e0) /\ PushedOk(j0, e0)
  BY DEF PicoNow, PicoOk
<1> QED
  BY <1>1 DEF PushedOk

(* The commands that follow the first.                                     *)
CommandsAfter(j, tx, d, t) ==
  tx \in Seq(I2cBytes) /\ d \in Nat /\ t = Len(tx) /\ \A i \in 1 .. t : tx[i] = WireAt(j, d + i)
LEMMA PicoNextCommand ==
  ASSUME NEW j, NEW tx, NEW d, NEW t, CommandsAfter(j, tx, d, t), tx # <<>>
  PROVE  /\ Tail(tx) \in Seq(I2cBytes) /\ Len(Tail(tx)) = t - 1 /\ t \in Nat \ {0}
         /\ Head(tx) = WireAt(j, d + 1)
         /\ \A i \in 1 .. t - 1 : Tail(tx)[i] = WireAt(j, (d + 1) + i)
<1>0. tx \in Seq(I2cBytes) /\ d \in Nat /\ t = Len(tx) /\ \A i \in 1 .. t : tx[i] = WireAt(j, d + i)
  BY DEF CommandsAfter
<1>1. PICK y : y = Tail(tx)
  OBVIOUS
<1>2. t \in Nat \ {0}
  BY <1>0, EmptySeq
<1>3. y \in Seq(I2cBytes) /\ Len(y) = t - 1 /\ \A i \in 1 .. t - 1 : y[i] = tx[i + 1]
  BY <1>0, <1>1, <1>2
<1>4. Head(tx) = tx[1] /\ 1 \in 1 .. t /\ tx[1] = WireAt(j, d + 1)
  BY <1>0, <1>2
<1>5. ASSUME NEW i \in 1 .. t - 1 PROVE y[i] = WireAt(j, (d + 1) + i)
  <2>1. i + 1 \in 1 .. t /\ d + (i + 1) = (d + 1) + i
    BY <1>0, <1>2
  <2>2. tx[i + 1] = WireAt(j, d + (i + 1))
    BY <1>0, <2>1
  <2> QED
    BY <1>3, <2>1, <2>2
<1> QED
  BY <1>1, <1>2, <1>3, <1>4, <1>5

LEMMA PicoByteOut ==
  ASSUME I2cInv, NEW c \in PicoCtrls, NEW j0, NEW e0, PicoNow(c, j0, e0), e0.run, e0.tx # <<>>,
         NEW run, NEW fl, PicoFlags(run, fl), "abort" \in fl => "abort" \in e0.flags,
         NEW b, b = Head(e0.tx), b[2] = "w", NEW j, NEW e,
         PicoParts(j, e, j0, e0, Append(j0.acked, b), Tail(e0.tx), e0.rx, run, fl), I2cBecomes(c, e, j)
  PROVE  I2cInv'
<1>1. j0.pc \in {"check", "look"} /\ BytesOk(j0, e0) /\ "abort" \notin e0.flags
  BY PicoAtWork
<1>2. PICK s, w, a, g, x, t, p : Tally(j0, e0, s, w, a, g, x, t, p)
  BY <1>1, PicoCounts
<1>3. /\ s \in Nat /\ w \in Nat /\ a \in Nat /\ g \in Nat /\ x \in Nat /\ t \in Nat /\ p \in Nat
      /\ Counts(j0, e0, s, w, a, g, x, t, p) /\ Counted(s, w, a, g, x, t, p)
      /\ a + g + x + t = p
      /\ \A i \in 1 .. t : e0.tx[i] = WireAt(j0, a + g + x + i)
  BY <1>1, <1>2 DEF Tally
<1>4. PICK d, tx, rx, acked : d = a + g + x /\ tx = Tail(e0.tx) /\ rx = e0.rx /\ acked = Append(j0.acked, b)
  OBVIOUS
<1>5. e0.tx \in Seq(I2cBytes) /\ d \in Nat /\ t = Len(e0.tx) /\ \A i \in 1 .. t : e0.tx[i] = WireAt(j0, d + i)
  <2>1. e0.tx \in Seq(I2cBytes) /\ t = Len(e0.tx)
    BY <1>3 DEF Counts, PicoNow, I2cNow
  <2>2. a \in Nat /\ g \in Nat /\ x \in Nat
    BY <1>3
  <2>3. d \in Nat
    BY <1>4, <2>2
  <2> QED
    BY <1>3, <1>4, <2>1, <2>3
<1>6. /\ tx \in Seq(I2cBytes) /\ Len(tx) = t - 1 /\ t \in Nat \ {0} /\ b = WireAt(j0, d + 1)
      /\ \A i \in 1 .. t - 1 : tx[i] = WireAt(j0, (d + 1) + i)
  <2>1. PICK y : y = e0.tx
    OBVIOUS
  <2>2. CommandsAfter(j0, y, d, t) /\ y # <<>>
    BY <1>5, <2>1 DEF CommandsAfter
  <2>3. tx = Tail(y) /\ b = Head(y)
    BY <1>4, <2>1
  <2>4. /\ Tail(y) \in Seq(I2cBytes) /\ Len(Tail(y)) = t - 1 /\ t \in Nat \ {0} /\ Head(y) = WireAt(j0, d + 1)
        /\ \A i \in 1 .. t - 1 : Tail(y)[i] = WireAt(j0, (d + 1) + i)
    BY <2>2, PicoNextCommand
  <2> QED
    BY <2>3, <2>4
<1>7. d + 1 <= s /\ b = WireByte(j0.call, "w", d + 1)
  <2>1. s = Len(j0.sent)
    BY <1>3 DEF Counts
  <2>2. ASSUME ~(d + 1 <= s) PROVE FALSE
    <3>1. b = WireByte(j0.call, "r", (d + 1) - s)
      BY <1>6, <2>1, <2>2 DEF WireAt
    <3> QED
      BY <3>1 DEF WireByte
  <2> QED
    BY <1>6, <2>1, <2>2 DEF WireAt
<1>8. g = 0 /\ x = 0 /\ d = a /\ a + 1 <= s
  <2>1. a \in Nat /\ g \in Nat /\ x \in Nat /\ s \in Nat /\ w \in Nat /\ t \in Nat /\ p \in Nat
    BY <1>3
  <2>2. a <= s /\ (g + x > 0 => a = s) /\ d = a + g + x
    BY <1>3, <1>4 DEF Counted
  <2> QED
    BY <1>7, <2>1, <2>2
<1>9. RunOf(acked, j0.call, "w", 0) /\ Len(acked) = a + 1
  <2>1. PICK z : z = j0.acked
    OBVIOUS
  <2>2. Len(z) = a /\ RunOf(z, j0.call, "w", 0) /\ j0.call \in Nat
    BY <1>1, <1>3, <2>1 DEF Counts, BytesOk, PicoNow, I2cNow
  <2>3. b = WireByte(j0.call, "w", 0 + Len(z) + 1) /\ "w" \in {"w", "r"} /\ 0 \in Nat
    BY <1>3, <1>7, <1>8, <2>2
  <2>4. RunOf(Append(z, b), j0.call, "w", 0) /\ Len(Append(z, b)) = Len(z) + 1
    BY <2>2, <2>3, RunAppend
  <2> QED
    BY <1>4, <2>1, <2>2, <2>4
<1>10. PICK a1, t1 : a1 = a + 1 /\ t1 = t - 1
  OBVIOUS
<1>11. Counted(s, w, a1, g, x, t1, p) /\ a1 + g + x + t1 = p /\ t1 \in Nat /\ a1 \in Nat /\ a1 + g + x = d + 1
  <2>1. /\ a \in Nat /\ g \in Nat /\ x \in Nat /\ s \in Nat /\ w \in Nat /\ t \in Nat /\ p \in Nat
        /\ a + g + x + t = p /\ p <= s + w /\ p <= s + g + 1
    BY <1>3 DEF Counted
  <2>2. g = 0 /\ x = 0 /\ d = a /\ a + 1 <= s /\ t # 0 /\ a1 = a + 1 /\ t1 = t - 1
    BY <1>6, <1>8, <1>10
  <2>3. a1 + g + x + t1 = p /\ t1 \in Nat /\ a1 \in Nat /\ a1 + g + x = d + 1 /\ a1 <= s /\ ~(g + x > 0) /\ p <= p
    BY <2>1, <2>2
  <2> QED
    BY <2>1, <2>3 DEF Counted
<1>12. \A i \in 1 .. t1 : tx[i] = WireAt(j0, a1 + g + x + i)
  BY <1>6, <1>10, <1>11
<1>13. PicoParts(j, e, j0, e0, acked, tx, rx, run, fl)
  BY <1>4
<1>15. /\ g = Len(j0.got) /\ s = Len(j0.sent) /\ w = Len(j0.want) /\ a1 = Len(acked) /\ x = Len(rx) /\ t1 = Len(tx) /\ p = j0.pushed
       /\ RunOf(rx, j0.call, "r", g)
  BY <1>1, <1>3, <1>4, <1>6, <1>9, <1>10 DEF Counts, BytesOk
<1>16. "abort" \notin fl
  BY <1>1
<1> QED
  <2>1. PicoTally(j0, fl, acked, tx, rx, s, w, a1, g, x, t1, p)
    BY <1>11, <1>12, <1>15, <1>16, Zenon DEF PicoTally
  <2> QED
    BY <1>1, <1>6, <1>9, <1>13, <1>15, <2>1, PicoMoves

LEMMA PicoByteIn ==
  ASSUME I2cInv, NEW c \in PicoCtrls, NEW j0, NEW e0, PicoNow(c, j0, e0), e0.run, e0.tx # <<>>,
         NEW run, NEW fl, PicoFlags(run, fl), "abort" \in fl => "abort" \in e0.flags,
         NEW b, b = Head(e0.tx), b[2] = "r", NEW j, NEW e,
         PicoParts(j, e, j0, e0, j0.acked, Tail(e0.tx), Append(e0.rx, b), run, fl), I2cBecomes(c, e, j)
  PROVE  I2cInv'
<1>1. j0.pc \in {"check", "look"} /\ BytesOk(j0, e0) /\ "abort" \notin e0.flags
  BY PicoAtWork
<1>2. PICK s, w, a, g, x, t, p : Tally(j0, e0, s, w, a, g, x, t, p)
  BY <1>1, PicoCounts
<1>3. /\ s \in Nat /\ w \in Nat /\ a \in Nat /\ g \in Nat /\ x \in Nat /\ t \in Nat /\ p \in Nat
      /\ Counts(j0, e0, s, w, a, g, x, t, p) /\ Counted(s, w, a, g, x, t, p)
      /\ a + g + x + t = p
      /\ \A i \in 1 .. t : e0.tx[i] = WireAt(j0, a + g + x + i)
  BY <1>1, <1>2 DEF Tally
<1>4. PICK d, tx, rx, acked : d = a + g + x /\ tx = Tail(e0.tx) /\ rx = Append(e0.rx, b) /\ acked = j0.acked
  OBVIOUS
<1>5. e0.tx \in Seq(I2cBytes) /\ d \in Nat /\ t = Len(e0.tx) /\ \A i \in 1 .. t : e0.tx[i] = WireAt(j0, d + i)
  <2>1. e0.tx \in Seq(I2cBytes) /\ t = Len(e0.tx)
    BY <1>3 DEF Counts, PicoNow, I2cNow
  <2>2. a \in Nat /\ g \in Nat /\ x \in Nat
    BY <1>3
  <2>3. d \in Nat
    BY <1>4, <2>2
  <2> QED
    BY <1>3, <1>4, <2>1, <2>3
<1>6. /\ tx \in Seq(I2cBytes) /\ Len(tx) = t - 1 /\ t \in Nat \ {0} /\ b = WireAt(j0, d + 1)
      /\ \A i \in 1 .. t - 1 : tx[i] = WireAt(j0, (d + 1) + i)
  <2>1. PICK y : y = e0.tx
    OBVIOUS
  <2>2. CommandsAfter(j0, y, d, t) /\ y # <<>>
    BY <1>5, <2>1 DEF CommandsAfter
  <2>3. tx = Tail(y) /\ b = Head(y)
    BY <1>4, <2>1
  <2>4. /\ Tail(y) \in Seq(I2cBytes) /\ Len(Tail(y)) = t - 1 /\ t \in Nat \ {0} /\ Head(y) = WireAt(j0, d + 1)
        /\ \A i \in 1 .. t - 1 : Tail(y)[i] = WireAt(j0, (d + 1) + i)
    BY <2>2, PicoNextCommand
  <2> QED
    BY <2>3, <2>4
<1>7. ~(d + 1 <= s) /\ b = WireByte(j0.call, "r", (d + 1) - s)
  <2>1. s = Len(j0.sent)
    BY <1>3 DEF Counts
  <2>2. ASSUME d + 1 <= s PROVE FALSE
    <3>1. b = WireByte(j0.call, "w", d + 1)
      BY <1>6, <2>1, <2>2 DEF WireAt
    <3> QED
      BY <3>1 DEF WireByte
  <2> QED
    BY <1>6, <2>1, <2>2 DEF WireAt
<1>8. a = s /\ (d + 1) - s = g + x + 1
  <2>1. a \in Nat /\ g \in Nat /\ x \in Nat /\ s \in Nat /\ w \in Nat /\ t \in Nat /\ p \in Nat
    BY <1>3
  <2>2. a <= s /\ (g + x > 0 => a = s) /\ d = a + g + x
    BY <1>3, <1>4 DEF Counted
  <2> QED
    BY <1>7, <2>1, <2>2
<1>9. RunOf(rx, j0.call, "r", g) /\ Len(rx) = x + 1
  <2>1. PICK z : z = e0.rx
    OBVIOUS
  <2>2. Len(z) = x /\ RunOf(z, j0.call, "r", g) /\ j0.call \in Nat
    BY <1>1, <1>3, <2>1 DEF Counts, BytesOk, PicoNow, I2cNow
  <2>3. b = WireByte(j0.call, "r", g + Len(z) + 1) /\ "r" \in {"w", "r"}
    BY <1>7, <1>8, <2>2
  <2>4. RunOf(Append(z, b), j0.call, "r", g) /\ Len(Append(z, b)) = Len(z) + 1
    <3>1. g \in Nat
      BY <1>3
    <3> QED
      BY <2>2, <2>3, <3>1, RunAppend
  <2> QED
    BY <1>4, <2>1, <2>2, <2>4
<1>10. PICK x1, t1 : x1 = x + 1 /\ t1 = t - 1
  OBVIOUS
<1>11. Counted(s, w, a, g, x1, t1, p) /\ a + g + x1 + t1 = p /\ t1 \in Nat /\ x1 \in Nat /\ a + g + x1 = d + 1
  <2>1. /\ a \in Nat /\ g \in Nat /\ x \in Nat /\ s \in Nat /\ w \in Nat /\ t \in Nat /\ p \in Nat
        /\ a + g + x + t = p /\ p <= s + w /\ p <= s + g + 1
    BY <1>3 DEF Counted
  <2>2. d = a + g + x /\ a = s /\ t # 0 /\ x1 = x + 1 /\ t1 = t - 1
    BY <1>4, <1>6, <1>8, <1>10
  <2>3. a + g + x1 + t1 = p /\ t1 \in Nat /\ x1 \in Nat /\ a + g + x1 = d + 1 /\ a <= s /\ p <= p
    BY <2>1, <2>2
  <2> QED
    BY <2>1, <2>2, <2>3 DEF Counted
<1>12. \A i \in 1 .. t1 : tx[i] = WireAt(j0, a + g + x1 + i)
  BY <1>6, <1>10, <1>11
<1>13. PicoParts(j, e, j0, e0, acked, tx, rx, run, fl)
  BY <1>4
<1>15. /\ g = Len(j0.got) /\ s = Len(j0.sent) /\ w = Len(j0.want) /\ a = Len(acked) /\ x1 = Len(rx) /\ t1 = Len(tx) /\ p = j0.pushed
       /\ RunOf(acked, j0.call, "w", 0)
  BY <1>1, <1>3, <1>4, <1>6, <1>9, <1>10 DEF Counts, BytesOk
<1>16. "abort" \notin fl
  BY <1>1
<1> QED
  <2>1. PicoTally(j0, fl, acked, tx, rx, s, w, a, g, x1, t1, p)
    BY <1>11, <1>12, <1>15, <1>16, Zenon DEF PicoTally
  <2> QED
    BY <1>1, <1>6, <1>9, <1>13, <1>15, <2>1, PicoMoves

(* An abort: the FIFO is flushed; and the STOP that follows.               *)
LEMMA PicoAbort ==
  ASSUME I2cInv, NEW c \in PicoCtrls, NEW j0, NEW e0, PicoNow(c, j0, e0), e0.run,
         NEW tx, NEW run, NEW fl, PicoFlags(run, fl), "abort" \in fl, tx = <<>>, NEW j, NEW e,
         PicoParts(j, e, j0, e0, j0.acked, tx, e0.rx, run, fl), I2cBecomes(c, e, j)
  PROVE  I2cInv'
<1>1. j0.pc \in {"check", "look"} /\ BytesOk(j0, e0)
  BY PicoAtWork
<1>2. PICK s, w, a, g, x, t, p : Tally(j0, e0, s, w, a, g, x, t, p)
  BY <1>1, PicoCounts
<1>3. /\ s \in Nat /\ w \in Nat /\ a \in Nat /\ g \in Nat /\ x \in Nat /\ t \in Nat /\ p \in Nat
      /\ Counts(j0, e0, s, w, a, g, x, t, p) /\ Counted(s, w, a, g, x, t, p)
  BY <1>2 DEF Tally
<1>4. PICK rx, acked : rx = e0.rx /\ acked = j0.acked
  OBVIOUS
<1>5. Len(tx) = 0 /\ tx \in Seq(I2cBytes) /\ Counted(s, w, a, g, x, 0, p) /\ (\A i \in 1 .. 0 : tx[i] = WireAt(j0, a + g + x + i))
  BY <1>3 DEF Counted
<1>6. PicoParts(j, e, j0, e0, acked, tx, rx, run, fl)
  BY <1>4
<1>8. /\ g = Len(j0.got) /\ s = Len(j0.sent) /\ w = Len(j0.want) /\ a = Len(acked) /\ x = Len(rx) /\ p = j0.pushed
      /\ RunOf(acked, j0.call, "w", 0) /\ RunOf(rx, j0.call, "r", g)
  BY <1>1, <1>3, <1>4 DEF Counts, BytesOk
<1>9. PICK t1 : t1 = 0
  OBVIOUS
<1>10. Len(tx) = t1 /\ Counted(s, w, a, g, x, t1, p) /\ (\A i \in 1 .. t1 : tx[i] = WireAt(j0, a + g + x + i))
  BY <1>5, <1>9
<1> QED
  <2>1. PicoTally(j0, fl, acked, tx, rx, s, w, a, g, x, t1, p)
    BY <1>8, <1>10, Zenon DEF PicoTally
  <2> QED
    BY <1>1, <1>5, <1>6, <1>8, <2>1, PicoMoves

LEMMA PicoShiftStep == ASSUME I2cInv, NEW c \in PicoCtrls, PicoShift(c) PROVE I2cInv'
<1>1. PICK j0, e0 : PicoNow(c, j0, e0)
  BY PicoNowIs
<1>2. j0 = i2cJob[c] /\ e0 = i2cEng[c] /\ e0 \in I2cEngs /\ j0 \in I2cJobs /\ e0.flags \in SUBSET I2cFlags /\ c \in Ctrls
  BY <1>1 DEF PicoNow, I2cNow
<1>3. PICK b, last : b = Head(e0.tx) /\ last = (b = Wire(j0)[Len(Wire(j0))])
  OBVIOUS
<1>4. PICK run, fl : run = ~last /\ fl = IF last THEN e0.flags \cup {"stop"} ELSE e0.flags
  OBVIOUS
<1>5. PICK f : f = [e0 EXCEPT !.tx = Tail(@), !.run = run, !.flags = fl]
  OBVIOUS
<1>6. /\ e0.run /\ i2cCalls' = i2cCalls
      /\ \/ /\ e0.tx # <<>> /\ b[2] = "w" /\ i2cEng' = [i2cEng EXCEPT ![c] = f]
            /\ i2cJob' = [i2cJob EXCEPT ![c].acked = Append(@, b)]
         \/ /\ e0.tx # <<>> /\ b[2] = "r" /\ i2cEng' = [i2cEng EXCEPT ![c] = [f EXCEPT !.rx = Append(@, b)]]
            /\ i2cJob' = i2cJob
         \/ /\ i2cEng' = [i2cEng EXCEPT ![c] = [e0 EXCEPT !.tx = <<>>, !.flags = @ \cup {"abort"}]]
            /\ i2cJob' = i2cJob
         \/ /\ "abort" \in e0.flags
            /\ i2cEng' = [i2cEng EXCEPT ![c].run = FALSE, ![c].flags = @ \cup {"stop"}]
            /\ i2cJob' = i2cJob
  <2>1. f = [e0 EXCEPT !.tx = Tail(@), !.run = ~(b = Wire(j0)[Len(Wire(j0))]),
                       !.flags = IF b = Wire(j0)[Len(Wire(j0))] THEN @ \cup {"stop"} ELSE @]
    BY <1>3, <1>4, <1>5
  <2> QED
    BY <1>2, <1>3, <2>1, Zenon DEF PicoShift
<1>7. "stop" \notin e0.flags
  BY <1>1, <1>6, PicoAtWork
<1>8. run \in BOOLEAN /\ fl \in SUBSET I2cFlags /\ ("stop" \in fl => ~run) /\ ("abort" \in fl => "abort" \in e0.flags)
  <2>1. CASE last = TRUE
    BY <1>2, <1>4, <2>1 DEF I2cFlags
  <2>2. CASE last = FALSE
    BY <1>2, <1>4, <1>7, <2>2
  <2> QED
    BY <1>3, <2>1, <2>2
<1>9. CASE /\ e0.tx # <<>> /\ b[2] = "w" /\ i2cEng' = [i2cEng EXCEPT ![c] = f]
           /\ i2cJob' = [i2cJob EXCEPT ![c].acked = Append(@, b)]
  <2>1. f = [e0 EXCEPT !.tx = Tail(e0.tx), !.rx = e0.rx, !.run = run, !.flags = fl]
    BY <1>2, <1>5 DEF I2cEngs
  <2>2. i2cJob' = [i2cJob EXCEPT ![c] = [j0 EXCEPT !.acked = Append(j0.acked, b)]]
    BY <1>2, <1>9
  <2> QED
    <3>1. PICK j : j = [j0 EXCEPT !.acked = Append(j0.acked, b)]
      OBVIOUS
    <3>2. PicoParts(j, f, j0, e0, Append(j0.acked, b), Tail(e0.tx), e0.rx, run, fl) /\ I2cBecomes(c, f, j) /\ PicoFlags(run, fl)
      BY <1>6, <1>8, <1>9, <2>1, <2>2, <3>1 DEF PicoParts, I2cBecomes, PicoFlags
    <3> QED
      BY <1>1, <1>3, <1>6, <1>8, <1>9, <3>2, PicoByteOut
<1>10. CASE /\ e0.tx # <<>> /\ b[2] = "r" /\ i2cEng' = [i2cEng EXCEPT ![c] = [f EXCEPT !.rx = Append(@, b)]]
            /\ i2cJob' = i2cJob
  <2>1. [f EXCEPT !.rx = Append(@, b)] = [e0 EXCEPT !.tx = Tail(e0.tx), !.rx = Append(e0.rx, b), !.run = run, !.flags = fl]
    BY <1>2, <1>5 DEF I2cEngs
  <2> QED
    <3>1. PICK e : e = [f EXCEPT !.rx = Append(@, b)]
      OBVIOUS
    <3>2. j0 = [j0 EXCEPT !.acked = j0.acked] /\ i2cJob' = [i2cJob EXCEPT ![c] = j0]
      BY <1>1, <1>2, <1>10 DEF I2cJobs, PicoNow, I2cNow
    <3>3. PicoParts(j0, e, j0, e0, j0.acked, Tail(e0.tx), Append(e0.rx, b), run, fl) /\ I2cBecomes(c, e, j0) /\ PicoFlags(run, fl)
      BY <1>6, <1>8, <1>10, <2>1, <3>1, <3>2 DEF PicoParts, I2cBecomes, PicoFlags
    <3> QED
      BY <1>1, <1>3, <1>6, <1>8, <1>10, <3>3, PicoByteIn
<1>11. CASE /\ i2cEng' = [i2cEng EXCEPT ![c] = [e0 EXCEPT !.tx = <<>>, !.flags = @ \cup {"abort"}]]
            /\ i2cJob' = i2cJob
  <2>1. PICK on, fa, tx : on = TRUE /\ fa = e0.flags \cup {"abort"} /\ tx = <<>>
    OBVIOUS
  <2>2. [e0 EXCEPT !.tx = <<>>, !.flags = @ \cup {"abort"}] = [e0 EXCEPT !.tx = tx, !.rx = e0.rx, !.run = on, !.flags = fa]
    BY <1>2, <1>6, <2>1 DEF I2cEngs
  <2>3. on \in BOOLEAN /\ fa \in SUBSET I2cFlags /\ "stop" \notin fa /\ "abort" \in fa
    BY <1>2, <1>7, <2>1 DEF I2cFlags
  <2> QED
    <3>1. PICK e : e = [e0 EXCEPT !.tx = tx, !.rx = e0.rx, !.run = on, !.flags = fa]
      OBVIOUS
    <3>2. j0 = [j0 EXCEPT !.acked = j0.acked] /\ i2cJob' = [i2cJob EXCEPT ![c] = j0]
      BY <1>1, <1>2, <1>11 DEF I2cJobs, PicoNow, I2cNow
    <3>3. PicoParts(j0, e, j0, e0, j0.acked, tx, e0.rx, on, fa) /\ I2cBecomes(c, e, j0) /\ PicoFlags(on, fa)
      BY <1>6, <1>11, <2>2, <2>3, <3>1, <3>2 DEF PicoParts, I2cBecomes, PicoFlags
    <3> QED
      BY <1>1, <1>6, <2>1, <2>3, <3>3, PicoAbort
<1>12. CASE /\ "abort" \in e0.flags
            /\ i2cEng' = [i2cEng EXCEPT ![c].run = FALSE, ![c].flags = @ \cup {"stop"}]
            /\ i2cJob' = i2cJob
  <2>1. PICK no, fa, tx : no = FALSE /\ fa = e0.flags \cup {"stop"} /\ tx = <<>>
    OBVIOUS
  <2>2. e0.tx = <<>>
    BY <1>1, <1>6, <1>12, PicoAtWork
  <2>3. i2cEng' = [i2cEng EXCEPT ![c] = [e0 EXCEPT !.tx = tx, !.rx = e0.rx, !.run = no, !.flags = fa]]
    <3>1. [e0 EXCEPT !.tx = tx, !.rx = e0.rx, !.run = no, !.flags = fa] = [e0 EXCEPT !.run = no, !.flags = fa]
      BY <1>2, <2>1, <2>2 DEF I2cEngs
    <3>2. i2cEng' = [i2cEng EXCEPT ![c] = [e0 EXCEPT !.run = no, !.flags = fa]]
      BY <1>2, <1>12, <2>1
    <3> QED
      BY <3>1, <3>2
  <2>4. no \in BOOLEAN /\ ~no /\ fa \in SUBSET I2cFlags /\ "abort" \in fa
    BY <1>2, <1>12, <2>1 DEF I2cFlags
  <2> QED
    <3>1. PICK e : e = [e0 EXCEPT !.tx = tx, !.rx = e0.rx, !.run = no, !.flags = fa]
      OBVIOUS
    <3>2. j0 = [j0 EXCEPT !.acked = j0.acked] /\ i2cJob' = [i2cJob EXCEPT ![c] = j0]
      BY <1>1, <1>2, <1>12 DEF I2cJobs, PicoNow, I2cNow
    <3>3. PicoParts(j0, e, j0, e0, j0.acked, tx, e0.rx, no, fa) /\ I2cBecomes(c, e, j0) /\ PicoFlags(no, fa)
      BY <1>6, <1>12, <2>3, <2>4, <3>1, <3>2 DEF PicoParts, I2cBecomes, PicoFlags
    <3> QED
      BY <1>1, <1>6, <2>1, <2>4, <3>3, PicoAbort
<1> QED
  BY <1>6, <1>9, <1>10, <1>11, <1>12

(***************************************************************************)
(* The RP2040's controllers, as slaves.                                    *)
(***************************************************************************)
LEMMA GivenBack ==
  ASSUME NEW s \in Seq(I2cBytes), NEW t \in Seq(I2cBytes), NEW e, NEW n, GivenOk(s \o t, e, n)
  PROVE  GivenOk(t, e, n)
<1>1. PICK g, m, k : g = s \o t /\ m = Len(s) /\ k = Len(t)
  OBVIOUS
<1>2. /\ g \in Seq(I2cBytes) /\ Len(g) = m + k /\ m \in Nat /\ k \in Nat
      /\ \A i \in 1 .. k : g[m + i] = t[i]
  BY <1>1, CatIs
<1>3. InOrder(t)
  <2>1. ASSUME NEW i \in 1 .. k - 1
        PROVE  t[i + 1] = WireByte(t[i][1], "w", t[i][3] + 1) \/ (t[i + 1][1] > t[i][1] /\ t[i + 1][3] = 1)
    <3>1. PICK l : l = m + i
      OBVIOUS
    <3>2. l \in 1 .. Len(g) - 1 /\ l + 1 = m + (i + 1) /\ i \in 1 .. k /\ i + 1 \in 1 .. k
      <4>1. m \in Nat /\ k \in Nat /\ Len(g) = m + k
        BY <1>2
      <4>2. l \in 1 .. (m + k) - 1 /\ l + 1 = m + (i + 1) /\ i \in 1 .. k /\ i + 1 \in 1 .. k
        BY <3>1, <4>1
      <4> QED
        BY <4>1, <4>2
    <3>3. g[l] = t[i] /\ g[l + 1] = t[i + 1]
      BY <1>2, <3>1, <3>2
    <3>4. g[l + 1] = WireByte(g[l][1], "w", g[l][3] + 1) \/ (g[l + 1][1] > g[l][1] /\ g[l + 1][3] = 1)
      BY <1>1, <3>2 DEF GivenOk, InOrder
    <3> QED
      BY <3>3, <3>4
  <2> QED
    BY <1>1, <2>1 DEF InOrder
<1>4. \A i \in 1 .. Len(t) : t[i][1] <= n
  <2> TAKE i \in 1 .. Len(t)
  <2>1. m + i \in 1 .. Len(g) /\ g[m + i] = t[i]
    BY <1>1, <1>2
  <2> QED
    BY <1>1, <2>1 DEF GivenOk
<1>5. ASSUME t # <<>>, e.run
      PROVE  \/ t[Len(t)][1] = n /\ t[Len(t)][3] = Len(e.cmds)
             \/ t[Len(t)][1] < n /\ e.cmds = <<>>
  <2>1. k # 0
    BY <1>1, <1>5, EmptySeq
  <2>2. k \in 1 .. k /\ Len(g) # 0
    BY <1>2, <2>1
  <2>3. g # <<>> /\ g[Len(g)] = t[Len(t)]
    BY <1>1, <1>2, <2>2
  <2> QED
    BY <1>1, <1>5, <2>3 DEF GivenOk
<1> QED
  BY <1>3, <1>4, <1>5 DEF GivenOk

LEMMA GivenFront ==
  ASSUME NEW s \in Seq(I2cBytes), NEW t \in Seq(I2cBytes), NEW e0, NEW e, NEW n, GivenOk(s \o t, e0, n), ~e.run
  PROVE  GivenOk(s, e, n)
<1>1. PICK g, m, k : g = s \o t /\ m = Len(s) /\ k = Len(t)
  OBVIOUS
<1>2. /\ g \in Seq(I2cBytes) /\ Len(g) = m + k /\ m \in Nat /\ k \in Nat
      /\ \A i \in 1 .. m : g[i] = s[i]
  BY <1>1, CatIs
<1>3. InOrder(s)
  <2>1. ASSUME NEW i \in 1 .. m - 1
        PROVE  s[i + 1] = WireByte(s[i][1], "w", s[i][3] + 1) \/ (s[i + 1][1] > s[i][1] /\ s[i + 1][3] = 1)
    <3>2. i \in 1 .. Len(g) - 1 /\ i \in 1 .. m /\ i + 1 \in 1 .. m
      BY <1>2
    <3>3. g[i] = s[i] /\ g[i + 1] = s[i + 1]
      BY <1>2, <3>2
    <3>4. g[i + 1] = WireByte(g[i][1], "w", g[i][3] + 1) \/ (g[i + 1][1] > g[i][1] /\ g[i + 1][3] = 1)
      BY <1>1, <3>2 DEF GivenOk, InOrder
    <3> QED
      BY <3>3, <3>4
  <2> QED
    BY <1>1, <2>1 DEF InOrder
<1>4. \A i \in 1 .. Len(s) : s[i][1] <= n
  <2> TAKE i \in 1 .. Len(s)
  <2>1. i \in 1 .. Len(g) /\ g[i] = s[i]
    BY <1>1, <1>2
  <2> QED
    BY <1>1, <2>1 DEF GivenOk
<1> QED
  BY <1>3, <1>4 DEF GivenOk

(* The master's next byte.                                                 *)
LEMMA GivenNext ==
  ASSUME NEW g \in Seq(I2cBytes), NEW e0, NEW e, NEW n \in Nat, GivenOk(g, e0, n), e0.run,
         NEW b, NEW m \in Nat, m = Len(e0.cmds), e0.cmds = <<>> => m = 0, b = WireByte(n, "w", m + 1), Len(e.cmds) = m + 1
  PROVE  GivenOk(Append(g, b), e, n) /\ b \in I2cBytes
<1>1. b \in I2cBytes /\ b[1] = n /\ b[3] = m + 1
  BY DEF WireByte, I2cBytes
<1>2. PICK h, k : h = Append(g, b) /\ k = Len(g)
  OBVIOUS
<1>3. h \in Seq(I2cBytes) /\ Len(h) = k + 1 /\ k \in Nat /\ h[k + 1] = b /\ \A i \in 1 .. k : h[i] = g[i]
  BY <1>1, <1>2
<1>4. ASSUME NEW i \in 1 .. k
      PROVE  h[i + 1] = WireByte(h[i][1], "w", h[i][3] + 1) \/ (h[i + 1][1] > h[i][1] /\ h[i + 1][3] = 1)
  <2>1. CASE i = k
    <3>1. g # <<>> /\ h[i] = g[k] /\ h[i + 1] = b
      BY <1>2, <1>3, <2>1
    <3>2. (g[k][1] = n /\ g[k][3] = m) \/ (g[k][1] < n /\ m = 0)
      BY <1>2, <3>1 DEF GivenOk
    <3>3. CASE g[k][1] = n /\ g[k][3] = m
      BY <3>1, <3>3
    <3>4. CASE g[k][1] < n /\ m = 0
      <4>1. b[3] = 1
        BY <1>1, <3>4
      <4>2. PICK u : u = g[k]
        OBVIOUS
      <4>3. u \in I2cBytes
        BY <1>2, <1>3, <4>2
      <4>4. u[1] \in Nat /\ u[1] < n
        BY <3>4, <4>2, <4>3 DEF I2cBytes
      <4>5. n > u[1]
        BY <4>4
      <4> QED
        BY <1>1, <3>1, <4>1, <4>2, <4>5
    <3> QED
      BY <3>2, <3>3, <3>4
  <2>2. CASE i # k
    <3>1. i \in 1 .. k - 1 /\ i + 1 \in 1 .. k
      BY <1>3, <2>2
    <3>2. h[i] = g[i] /\ h[i + 1] = g[i + 1]
      BY <1>3, <3>1
    <3> QED
      BY <1>2, <3>1, <3>2 DEF GivenOk, InOrder
  <2> QED
    BY <2>1, <2>2
<1>5. InOrder(h)
  <2>1. Len(h) - 1 = k
    BY <1>3
  <2> QED
    BY <1>4, <2>1 DEF InOrder
<1>6. \A i \in 1 .. Len(h) : h[i][1] <= n
  <2> TAKE i \in 1 .. Len(h)
  <2>1. CASE i = k + 1
    <3>1. n <= n
      OBVIOUS
    <3> QED
      BY <1>1, <1>3, <2>1, <3>1
  <2>2. CASE i # k + 1
    <3>1. i \in 1 .. k
      BY <1>3, <2>2
    <3> QED
      BY <1>2, <1>3, <3>1 DEF GivenOk
  <2> QED
    BY <2>1, <2>2
<1>7. h[Len(h)][1] = n /\ h[Len(h)][3] = Len(e.cmds)
  BY <1>1, <1>3
<1> QED
  BY <1>1, <1>2, <1>5, <1>6, <1>7 DEF GivenOk

SlaveNow(c, j, e) == I2cNow(c, j, e) /\ GivenOk(j.got \o e.rx, e, i2cCalls[c]) /\ c \in Ctrls
LEMMA SlaveNowIs == ASSUME I2cInv, NEW c \in PicoSlaves PROVE \E j, e : SlaveNow(c, j, e)
<1>0. c \in Ctrls
  BY DEF Ctrls
<1>1. PICK j, e : I2cNow(c, j, e)
  BY <1>0, I2cNowIs
<1> QED
  BY <1>0, <1>1, SlaveOnly DEF I2cNow, SlaveNow

LEMMA SlaveGoes ==
  ASSUME I2cInv, NEW c \in PicoSlaves, NEW j \in I2cJobs, NEW e \in I2cEngs, I2cBecomes(c, e, j),
         NEW g, g = j.got \o e.rx, GivenOk(g, e, i2cCalls[c])
  PROVE  I2cInv'
<1>1. c \in Ctrls /\ CtrlOk(c, j, e, i2cCalls[c])
  BY SlaveOnly DEF Ctrls
<1> QED
  BY <1>1, I2cGoes DEF I2cBecomes

LEMMA ServeOnceStep == ASSUME I2cInv, NEW c \in PicoSlaves, ServeOnce(c) PROVE I2cInv'
<1>1. PICK j0, e0 : SlaveNow(c, j0, e0)
  BY SlaveNowIs
<1>2. PICK j, rx : j = [IdleI2c EXCEPT !.pc = "serve"] /\ rx = e0.rx
  OBVIOUS
<1>3. j \in I2cJobs /\ j.got = <<>>
  <2>1. j = [pc |-> "serve", call |-> 0, ops |-> <<>>, steps |-> <<>>, pushed |-> 0, want |-> <<>>, sent |-> <<>>,
             acked |-> <<>>, got |-> <<>>, raw |-> {}, outcome |-> "none"]
    BY <1>2 DEF IdleI2c
  <2>2. <<>> \in Seq(I2cBytes) /\ <<>> \in Seq({"w", "r"}) /\ <<>> \in Seq(I2cOps) /\ {} \in SUBSET I2cFlags
    OBVIOUS
  <2> QED
    BY <2>1, <2>2 DEF I2cJobs, I2cPcs, I2cEnded
<1>4. I2cBecomes(c, e0, j) /\ e0 \in I2cEngs /\ rx \in Seq(I2cBytes) /\ j0.got \in Seq(I2cBytes)
  BY <1>1, <1>2 DEF ServeOnce, I2cBecomes, SlaveNow, I2cNow
<1>5. GivenOk(rx, e0, i2cCalls[c])
  <2>1. PICK s : s = j0.got
    OBVIOUS
  <2>2. GivenOk(s \o rx, e0, i2cCalls[c]) /\ s \in Seq(I2cBytes)
    BY <1>1, <1>2, <1>4, <2>1 DEF SlaveNow
  <2> QED
    BY <1>4, <2>2, GivenBack
<1>6. rx = j.got \o e0.rx
  <2>1. PICK w : w = <<>> \o rx
    OBVIOUS
  <2>2. w \in Seq(I2cBytes) /\ Len(w) = Len(rx) /\ \A i \in 1 .. Len(rx) : w[i] = rx[i]
    BY <1>4, <2>1
  <2>3. w = rx
    BY <1>4, <2>2, SeqEqual
  <2> QED
    BY <1>2, <1>3, <2>1, <2>3
<1> QED
  BY <1>3, <1>4, <1>5, <1>6, SlaveGoes

LEMMA ServeRawStep == ASSUME I2cInv, NEW c \in PicoSlaves, ServeRaw(c) PROVE I2cInv'
<1>1. PICK j0, e0 : SlaveNow(c, j0, e0)
  BY SlaveNowIs
<1>2. PICK j, fl : j = [j0 EXCEPT !.pc = "drain", !.raw = fl] /\ fl = e0.flags
  OBVIOUS
<1>3. j \in I2cJobs /\ j.got = j0.got
  <2>1. j0 \in I2cJobs /\ fl \in SUBSET I2cFlags /\ "drain" \in I2cPcs
    BY <1>1, <1>2 DEF SlaveNow, I2cNow, I2cPcs
  <2> QED
    BY <1>2, <2>1 DEF I2cJobs
<1>4. I2cBecomes(c, e0, j) /\ e0 \in I2cEngs
  BY <1>1, <1>2 DEF ServeRaw, I2cBecomes, SlaveNow, I2cNow
<1>5. GivenOk(j0.got \o e0.rx, e0, i2cCalls[c]) /\ j0.got \o e0.rx = j.got \o e0.rx
  BY <1>1, <1>3 DEF SlaveNow
<1> QED
  BY <1>3, <1>4, <1>5, SlaveGoes

(* What was given stays so when neither the transaction nor its place      *)
(* changes.                                                                *)
LEMMA GivenKept ==
  ASSUME NEW g, NEW e0, NEW e, NEW n, GivenOk(g, e0, n), e.run => e0.run /\ e.cmds = e0.cmds PROVE GivenOk(g, e, n)
BY DEF GivenOk

LEMMA ServeActStep == ASSUME I2cInv, NEW c \in PicoSlaves, ServeAct(c) PROVE I2cInv'
<1>1. PICK j0, e0 : SlaveNow(c, j0, e0)
  BY SlaveNowIs
<1>2. j0 = i2cJob[c] /\ e0 = i2cEng[c] /\ j0 \in I2cJobs /\ e0 \in I2cEngs /\ j0.got \in Seq(I2cBytes) /\ e0.rx \in Seq(I2cBytes)
  BY <1>1 DEF SlaveNow, I2cNow
<1>3. PICK g, fl, loc, how, none, noraw :
        /\ g = j0.got \o e0.rx /\ fl = e0.flags \ (j0.raw \cap {"stop", "rdreq"})
        /\ loc = (IF "stop" \in j0.raw THEN "idle" ELSE "serve") /\ none = <<>> /\ noraw = {}
        /\ how = (IF "stop" \notin j0.raw THEN j0.outcome ELSE IF Len(g) > SERVE_LEN THEN "invalid" ELSE "ok")
  OBVIOUS
<1>4. PICK e, j : e = [e0 EXCEPT !.rx = none, !.flags = fl] /\ j = [j0 EXCEPT !.got = g, !.raw = noraw, !.pc = loc, !.outcome = how]
  OBVIOUS
<1>5. I2cBecomes(c, e, j)
  <2>1. e = [e0 EXCEPT !.rx = <<>>, !.flags = @ \ (j0.raw \cap {"stop", "rdreq"})]
    BY <1>2, <1>3, <1>4 DEF I2cEngs
  <2>2. j = [j0 EXCEPT !.got = j0.got \o e0.rx, !.raw = {}, !.pc = IF "stop" \in j0.raw THEN "idle" ELSE "serve",
             !.outcome = IF "stop" \notin j0.raw THEN @ ELSE IF Len(j0.got \o e0.rx) > SERVE_LEN THEN "invalid" ELSE "ok"]
    BY <1>2, <1>3, <1>4, Zenon DEF I2cJobs
  <2> QED
    BY <1>2, <2>1, <2>2, Zenon DEF ServeAct, I2cBecomes
<1>6. e \in I2cEngs /\ e.run = e0.run /\ e.cmds = e0.cmds /\ e.rx = <<>>
  <2>1. fl \in SUBSET I2cFlags /\ none \in Seq(I2cBytes)
    BY <1>2, <1>3 DEF I2cEngs
  <2> QED
    BY <1>2, <1>3, <1>4, <2>1 DEF I2cEngs
<1>7. g \in Seq(I2cBytes)
  BY <1>2, <1>3, CatIs
<1>8. j \in I2cJobs /\ j.got = g
  <2>1. loc \in I2cPcs /\ noraw \in SUBSET I2cFlags
    BY <1>3 DEF I2cPcs
  <2>2. j0.outcome \in I2cEnded /\ "invalid" \in I2cEnded /\ "ok" \in I2cEnded
    BY <1>2 DEF I2cJobs, I2cEnded
  <2>3. how \in I2cEnded
    BY <1>3, <2>2, Zenon
  <2> QED
    BY <1>2, <1>4, <1>7, <2>1, <2>3 DEF I2cJobs
<1>9. g = j.got \o e.rx
  BY <1>6, <1>7, <1>8
<1>10. GivenOk(g, e, i2cCalls[c])
  <2>1. GivenOk(g, e0, i2cCalls[c])
    BY <1>1, <1>3 DEF SlaveNow
  <2> QED
    BY <1>6, <2>1, GivenKept
<1> QED
  BY <1>5, <1>6, <1>8, <1>9, <1>10, SlaveGoes

LEMMA ServeTimeoutStep == ASSUME I2cInv, NEW c \in PicoSlaves, ServeTimeout(c) PROVE I2cInv'
<1>1. PICK j0, e0 : SlaveNow(c, j0, e0)
  BY SlaveNowIs
<1>2. j0 = i2cJob[c] /\ e0 = i2cEng[c] /\ j0 \in I2cJobs /\ j0.got \in Seq(I2cBytes) /\ e0.rx \in Seq(I2cBytes)
  BY <1>1 DEF SlaveNow, I2cNow
<1>3. PICK e, none : e = Quiet /\ none = <<>>
  OBVIOUS
<1>4. e \in I2cEngs /\ ~e.run /\ e.rx = <<>>
  BY <1>3, QuietIs DEF Quiet
<1>5. PICK j : j = [j0 EXCEPT !.pc = "idle", !.outcome = "timeout", !.ops = none, !.steps = none, !.pushed = 0]
  OBVIOUS
<1>6. j \in I2cJobs /\ j.got = j0.got
  <2>1. none \in Seq(I2cOps) /\ none \in Seq({"w", "r"}) /\ "idle" \in I2cPcs /\ "timeout" \in I2cEnded /\ 0 \in Nat
    BY <1>3 DEF I2cPcs, I2cEnded
  <2> QED
    BY <1>2, <1>5, <2>1 DEF I2cJobs
<1>7. I2cBecomes(c, e, j)
  BY <1>1, <1>2, <1>3, <1>5 DEF ServeTimeout, I2cEnds, I2cBecomes, SlaveNow, I2cNow
<1>8. GivenOk(j0.got, e, i2cCalls[c])
  <2>1. PICK s, t : s = j0.got /\ t = e0.rx
    OBVIOUS
  <2>2. GivenOk(s \o t, e0, i2cCalls[c]) /\ s \in Seq(I2cBytes) /\ t \in Seq(I2cBytes)
    BY <1>1, <1>2, <2>1 DEF SlaveNow
  <2>3. GivenOk(s, e, i2cCalls[c])
    BY <1>4, <2>2, GivenFront
  <2> QED
    BY <2>1, <2>3
<1>9. j0.got = j.got \o e.rx
  BY <1>2, <1>4, <1>6
<1> QED
  BY <1>4, <1>6, <1>7, <1>8, <1>9, SlaveGoes

LEMMA MasterSendsStep == ASSUME I2cInv, NEW c \in PicoSlaves, MasterSends(c) PROVE I2cInv'
<1>1. PICK j0, e0 : SlaveNow(c, j0, e0)
  BY SlaveNowIs
<1>2. /\ j0 = i2cJob[c] /\ e0 = i2cEng[c] /\ j0 \in I2cJobs /\ e0 \in I2cEngs /\ j0.got \in Seq(I2cBytes)
      /\ e0.rx \in Seq(I2cBytes) /\ e0.flags \in SUBSET I2cFlags /\ c \in Ctrls /\ i2cCalls[c] \in Nat
      /\ i2cEng \in [Ctrls -> I2cEngs] /\ i2cJob \in [Ctrls -> I2cJobs] /\ i2cCalls \in [Ctrls -> Nat]
  BY <1>1 DEF SlaveNow, I2cNow
<1>3. PICK n, g, b : n = i2cCalls[c] /\ g = j0.got \o e0.rx /\ b = WireByte(n, "w", Len(e0.cmds) + 1)
  OBVIOUS
<1>4. GivenOk(g, e0, n) /\ n \in Nat /\ g \in Seq(I2cBytes)
  <2>1. g \in Seq(I2cBytes)
    BY <1>2, <1>3, CatIs
  <2> QED
    BY <1>1, <1>2, <1>3, <2>1 DEF SlaveNow
<1>5. i2cJob' = [i2cJob EXCEPT ![c] = j0]
  BY <1>2 DEF MasterSends
<1>6. \/ /\ i2cEng' = [i2cEng EXCEPT ![c].run = TRUE, ![c].cmds = <<>>]
         /\ i2cCalls' = [i2cCalls EXCEPT ![c] = @ + 1]
      \/ /\ e0.run /\ i2cEng' = [i2cEng EXCEPT ![c].rx = Append(@, b), ![c].cmds = Append(@, b)]
         /\ i2cCalls' = i2cCalls
      \/ i2cEng' = [i2cEng EXCEPT ![c].flags = @ \cup {"rdreq"}] /\ i2cCalls' = i2cCalls
      \/ /\ i2cEng' = [i2cEng EXCEPT ![c].run = FALSE, ![c].cmds = <<>>, ![c].flags = @ \cup {"stop"}]
         /\ i2cCalls' = i2cCalls
  BY <1>2, <1>3, Zenon DEF MasterSends
<1>7. e0.cmds \in Seq({"address", "w", "r", "stop"} \cup I2cBytes)
  BY <1>2 DEF I2cEngs
<1>8. CASE /\ i2cEng' = [i2cEng EXCEPT ![c].run = TRUE, ![c].cmds = <<>>]
           /\ i2cCalls' = [i2cCalls EXCEPT ![c] = @ + 1]
  <2>1. PICK on, none, m : on = TRUE /\ none = <<>> /\ m = n + 1
    OBVIOUS
  <2>2. PICK e : e = [e0 EXCEPT !.run = on, !.cmds = none]
    OBVIOUS
  <2>3. e \in I2cEngs /\ e.rx = e0.rx /\ e.cmds = none
    <3>1. none \in Seq({"address", "w", "r", "stop"} \cup I2cBytes) /\ on \in BOOLEAN
      BY <2>1
    <3> QED
      BY <1>2, <2>2, <3>1 DEF I2cEngs
  <2>4. i2cEng' = [i2cEng EXCEPT ![c] = e] /\ i2cCalls' = [i2cCalls EXCEPT ![c] = m]
    BY <1>2, <1>3, <1>8, <2>1, <2>2
  <2>5. \A i \in 1 .. Len(g) : g[i][1] <= m /\ g[i][1] < m
    <3> TAKE i \in 1 .. Len(g)
    <3>1. PICK u : u = g[i][1]
      OBVIOUS
    <3>2. u \in Nat /\ u <= n
      <4>1. g[i] \in I2cBytes
        BY <1>4
      <4> QED
        BY <1>4, <3>1, <4>1 DEF I2cBytes, GivenOk
    <3>3. u <= m /\ u < m
      BY <1>4, <2>1, <3>2
    <3> QED
      BY <3>1, <3>3
  <2>6. g # <<>> => g[Len(g)][1] < m
    <3>1. g # <<>> => Len(g) \in 1 .. Len(g)
      BY <1>4, EmptySeq
    <3> QED
      BY <2>5, <3>1
  <2>7. GivenOk(g, e, m)
    BY <1>4, <2>1, <2>3, <2>5, <2>6 DEF GivenOk
  <2>8. CtrlOk(c, j0, e, m) /\ m \in Nat
    <3>1. GivenOk(j0.got \o e.rx, e, m)
      BY <1>3, <2>3, <2>7
    <3> QED
      BY <1>4, <2>1, <3>1, SlaveOnly
  <2> QED
    BY <1>2, <1>5, <2>3, <2>4, <2>8, I2cSteps
<1>9. CASE /\ e0.run /\ i2cEng' = [i2cEng EXCEPT ![c].rx = Append(@, b), ![c].cmds = Append(@, b)]
           /\ i2cCalls' = i2cCalls
  <2>1. PICK m, rx, cmds : m = Len(e0.cmds) /\ rx = Append(e0.rx, b) /\ cmds = Append(e0.cmds, b)
    OBVIOUS
  <2>2. PICK e : e = [e0 EXCEPT !.rx = rx, !.cmds = cmds]
    OBVIOUS
  <2>3. m \in Nat /\ b = WireByte(n, "w", m + 1) /\ b \in I2cBytes
    BY <1>3, <1>4, <1>7, <2>1 DEF WireByte, I2cBytes
  <2>4. /\ rx \in Seq(I2cBytes) /\ cmds \in Seq({"address", "w", "r", "stop"} \cup I2cBytes) /\ Len(cmds) = m + 1
        /\ (e0.cmds = <<>> => m = 0)
    BY <1>2, <1>7, <2>1, <2>3
  <2>5. e \in I2cEngs /\ e.rx = rx /\ e.cmds = cmds
    BY <1>2, <2>2, <2>4 DEF I2cEngs
  <2>6. GivenOk(Append(g, b), e, n)
    BY <1>4, <1>9, <2>1, <2>3, <2>4, <2>5, GivenNext
  <2>7. Append(g, b) = j0.got \o e.rx
    <3>1. PICK s, t : s = j0.got /\ t = e0.rx
      OBVIOUS
    <3>2. s \in Seq(I2cBytes) /\ t \in Seq(I2cBytes) /\ b \in I2cBytes
      BY <1>2, <2>3, <3>1
    <3>3. PICK u, v, k, l : u = Append(s \o t, b) /\ v = s \o Append(t, b) /\ k = Len(s) /\ l = Len(t)
      OBVIOUS
    <3>4. k \in Nat /\ l \in Nat
      BY <3>2, <3>3
    <3>5. /\ u \in Seq(I2cBytes) /\ Len(u) = k + l + 1
          /\ \A i \in 1 .. k + l + 1 : u[i] = IF i <= k THEN s[i] ELSE IF i <= k + l THEN t[i - k] ELSE b
      BY <3>2, <3>3
    <3>6. /\ v \in Seq(I2cBytes) /\ Len(v) = k + l + 1
          /\ \A i \in 1 .. k + l + 1 : v[i] = IF i <= k THEN s[i] ELSE IF i <= k + l THEN t[i - k] ELSE b
      BY <3>2, <3>3
    <3>7. u = v
      BY <3>5, <3>6, SeqEqual
    <3> QED
      BY <1>3, <2>1, <2>5, <3>1, <3>3, <3>7
  <2>8. I2cBecomes(c, e, j0)
    BY <1>2, <1>5, <1>9, <2>1, <2>2 DEF I2cBecomes
  <2> QED
    BY <1>2, <1>3, <2>5, <2>6, <2>7, <2>8, SlaveGoes
<1>10. CASE i2cEng' = [i2cEng EXCEPT ![c].flags = @ \cup {"rdreq"}] /\ i2cCalls' = i2cCalls
  <2>1. PICK fl : fl = e0.flags \cup {"rdreq"}
    OBVIOUS
  <2>2. PICK e : e = [e0 EXCEPT !.flags = fl]
    OBVIOUS
  <2>3. e \in I2cEngs /\ e.rx = e0.rx /\ e.run = e0.run /\ e.cmds = e0.cmds
    <3>1. fl \in SUBSET I2cFlags
      BY <1>2, <2>1 DEF I2cFlags
    <3> QED
      BY <1>2, <2>2, <3>1 DEF I2cEngs
  <2>4. I2cBecomes(c, e, j0)
    BY <1>2, <1>5, <1>10, <2>1, <2>2 DEF I2cBecomes
  <2>5. GivenOk(g, e, n)
    BY <1>4, <2>3, GivenKept
  <2>6. g = j0.got \o e.rx
    BY <1>3, <2>3
  <2> QED
    BY <1>2, <1>3, <2>3, <2>4, <2>5, <2>6, SlaveGoes
<1>11. CASE /\ i2cEng' = [i2cEng EXCEPT ![c].run = FALSE, ![c].cmds = <<>>, ![c].flags = @ \cup {"stop"}]
            /\ i2cCalls' = i2cCalls
  <2>1. PICK fl, none, no : fl = e0.flags \cup {"stop"} /\ none = <<>> /\ no = FALSE
    OBVIOUS
  <2>2. PICK e : e = [e0 EXCEPT !.run = no, !.cmds = none, !.flags = fl]
    OBVIOUS
  <2>3. e \in I2cEngs /\ e.rx = e0.rx /\ e.run = no
    <3>1. fl \in SUBSET I2cFlags
      BY <1>2, <2>1 DEF I2cFlags
    <3>2. none \in Seq({"address", "w", "r", "stop"} \cup I2cBytes)
      BY <2>1
    <3>3. no \in BOOLEAN
      BY <2>1
    <3> QED
      BY <1>2, <2>2, <3>1, <3>2, <3>3 DEF I2cEngs
  <2>4. I2cBecomes(c, e, j0)
    BY <1>2, <1>5, <1>11, <2>1, <2>2 DEF I2cBecomes
  <2>5. GivenOk(g, e, n)
    BY <1>4, <2>1, <2>3, GivenKept
  <2>6. g = j0.got \o e.rx
    BY <1>3, <2>3
  <2> QED
    BY <1>2, <1>3, <2>3, <2>4, <2>5, <2>6, SlaveGoes
<1> QED
  BY <1>6, <1>8, <1>9, <1>10, <1>11

LEMMA I2cSame == ASSUME I2cInv, UNCHANGED i2cVars PROVE I2cInv'
BY DEF I2cInv, i2cVars

LEMMA I2cStays == ASSUME I2cInv, [I2cNext]_i2cVars PROVE I2cInv'
<1>1. CASE UNCHANGED i2cVars
  BY <1>1, I2cSame
<1>2. CASE I2cNext
  <2>1. PICK c \in Ctrls : I2cUsing(c)
    BY <1>2 DEF I2cNext
  <2>2. CASE c \in EspCtrls \cup PicoCtrls /\ ((\E todo \in OpLists : I2cTransfer(c, todo)) \/ OpsOver(c) \/ OpRefused(c))
    BY <2>2, I2cTransferStep, OpsOverStep
  <2>3. CASE c \in EspCtrls /\ (EspExchange(c) \/ EspStart(c) \/ EspWait(c) \/ EspDrain(c) \/ EspShift(c))
    BY <2>3, EspExchangeStep, EspStartStep, EspWaitStep, EspDrainStep, EspShiftStep
  <2>4. CASE c \in PicoCtrls /\ (PicoTransact(c) \/ PicoCheck(c) \/ PicoTimeout(c) \/ PicoLook(c) \/ PicoShift(c))
    BY <2>4, PicoTransactStep, PicoCheckStep, PicoTimeoutStep, PicoLookStep, PicoShiftStep
  <2>5. CASE c \in PicoSlaves /\ (ServeOnce(c) \/ ServeRaw(c) \/ ServeAct(c) \/ ServeTimeout(c) \/ MasterSends(c))
    BY <2>5, ServeOnceStep, ServeRawStep, ServeActStep, ServeTimeoutStep, MasterSendsStep
  <2> QED
    BY <2>1, <2>2, <2>3, <2>4, <2>5 DEF I2cUsing
<1> QED
  BY <1>1, <1>2

LEMMA I2cGives == I2cInv => I2cRight
<1> SUFFICES ASSUME I2cInv PROVE I2cRight
  OBVIOUS
<1>1. I2cMoved
  <2> SUFFICES ASSUME NEW c \in EspCtrls \cup PicoCtrls, i2cJob[c].pc = "idle"
               PROVE  /\ ~i2cEng[c].run
                      /\ i2cJob[c].outcome = "ok" =>
                           /\ i2cJob[c].got = i2cJob[c].want
                           /\ c \in EspCtrls \/ i2cJob[c].want # <<>> => i2cJob[c].acked = i2cJob[c].sent
    BY DEF I2cMoved, I2cAt
  <2>1. CtrlOk(c, i2cJob[c], i2cEng[c], i2cCalls[c])
    BY DEF I2cInv, Ctrls
  <2>2. CASE c \in EspCtrls
    BY <2>1, <2>2, EspOnly DEF EspOk, EspMoved
  <2>3. CASE c \in PicoCtrls
    <3>1. c \notin EspCtrls
      BY <2>3, I2cAssumption
    <3> QED
      BY <2>1, <2>3, <3>1, PicoOnly DEF PicoOk
  <2> QED
    BY <2>2, <2>3
<1>2. ServedInOrder
  <2> SUFFICES ASSUME NEW c \in PicoSlaves PROVE InOrder(i2cJob[c].got \o i2cEng[c].rx)
    BY DEF ServedInOrder, InOrder
  <2>1. CtrlOk(c, i2cJob[c], i2cEng[c], i2cCalls[c])
    BY DEF I2cInv, Ctrls
  <2> QED
    BY <2>1, SlaveOnly DEF GivenOk
<1> QED
  BY <1>1, <1>2 DEF I2cRight

(* I2cRight: a transfer of the ESP32's or the RP2040's I2C controller that *)
(* reports success moved the bytes of its op, however the hardware's steps *)
(* fall between the driver's (Esp32I2c::wait_done and drain,               *)
(* Rp2040I2c::transact), no outcome leaves the controller running, and     *)
(* serve_once reports the bytes of the wire in order.                      *)
THEOREM I2cIsRight == I2cSpec => []I2cRight
<1>1. I2cInit => I2cInv
  BY I2cBegins
<1>2. I2cInv /\ [I2cNext]_i2cVars => I2cInv'
  BY I2cStays
<1>3. I2cInv => I2cRight
  BY I2cGives
<1> QED
  BY <1>1, <1>2, <1>3, PTL DEF I2cSpec

(* BusRight: on the SPI and the I2C buses alike, a transfer that reported  *)
(* success moved exactly the bytes it was asked to, and one that failed    *)
(* left the controller usable.                                             *)
THEOREM BusIsRight == BusSpec => []BusRight
BY SpiIsMoved, I2cIsRight, PTL DEF BusSpec, BusRight
=============================================================================
