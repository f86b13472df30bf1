------------------------- MODULE Tasks_proofs -------------------------
(***************************************************************************)
(* Proofs about tasks.  Tasks that come and go, for any number of tasks,   *)
(* cores and heap blocks: a stack belongs to one task until no core needs  *)
(* it.  Tasks that wait in send and recv, for any number of callers and    *)
(* any room in the table of waiters: the lists tell who has been woken.    *)
(***************************************************************************)
EXTENDS TaskLife, ApiQueue, WellFoundedInduction, SequenceTheorems, FiniteSetTheorems, TLAPS

(***************************************************************************)
(* Their stacks.                                                           *)
(***************************************************************************)

(* The stack a task is about to hand to heap::free.                        *)
Pending(u) ==
  Alive(u) /\ job[u] # NoJob /\ job[u].op \in {"forget", "free"} /\ job[u].stack # NoStack

(* A heap block is in one place: free, a live task's stack, or on its way  *)
(* from a cleared slot to heap::free.  A live task on no heap block is a   *)
(* static one on its own pool stack.                                       *)
StacksPlaced ==
  \A t \in Tasks : Alive(t) =>
    stackOf[t] \in Stacks \ free \/ (t \in Static /\ stackOf[t] = PoolStack[t])
StacksUnshared ==
  \A t, u \in Tasks : Alive(t) /\ Alive(u) /\ stackOf[t] = stackOf[u] => t = u
PendingIsNobodys ==
  \A u \in Tasks : Pending(u) =>
    /\ job[u].stack \in Stacks \ free
    /\ \A t \in Tasks : Alive(t) => stackOf[t] # job[u].stack
    /\ \A v \in Tasks : Pending(v) /\ job[v].stack = job[u].stack => v = u

(* Two cores are never on one task, and where deciding and leaving are one *)
(* step a core is on the stack of the task it is on.                       *)
CoresApart ==
  /\ \A c, d \in Cores : current[c] = current[d] => c = d
  /\ ~XTENSA => \A c \in Cores : onStack[c] = stackOf[current[c]]

LifeInv ==
  /\ TypeOK
  /\ StacksPlaced /\ StacksUnshared /\ PendingIsNobodys
  /\ CurrentNotReaped /\ CoresApart

----------------------------------------------------------------------------
(* A non-empty set of naturals has a least element.                        *)
LEMMA LeastNat ==
  ASSUME NEW S \in SUBSET Nat, S # {}
  PROVE  \E x \in S : \A y \in S : x <= y
<1> DEFINE R == {ss \in Nat \X Nat : ss[1] < ss[2]}
<1>0. IsWellFoundedOn(R, Nat)
  BY NatLessThanWellFounded DEF OpToRel
<1> HIDE DEF R
<1>1. PICK x \in S : \A y \in S : ~(<<y, x>> \in R)
  BY <1>0, WFMin, Zenon
<1>2. \A y \in S : ~(y < x)
  BY <1>1, Zenon DEF R
<1> QED
  BY <1>2

(* Jobs by their kind.                                                     *)
LEMMA JobKinds ==
  ASSUME NEW j \in Jobs
  PROVE  /\ j.op \in {"wait", "forget", "free", "dying", "dead"}
         /\ j.op = "wait" => j.obj \in Objects
         /\ j.op \in {"forget", "free"} =>
              /\ j \in [op : {"forget", "free"}, id : Tasks, stack : Stacks \cup {NoStack}]
              /\ j.id \in Tasks /\ j.stack \in Stacks \cup {NoStack}
  BY DEF Jobs

(* Lists stay lists of tasks.                                              *)
LEMMA DropAtType ==
  ASSUME NEW S, NEW s \in Seq(S), NEW i
  PROVE  s # <<>> => DropAt(s, i) \in Seq(S)
<1> SUFFICES ASSUME s # <<>> PROVE DropAt(s, i) \in Seq(S)
  OBVIOUS
<1>1. Len(s) \in Nat \ {0} /\ \A j \in 1 .. Len(s) : s[j] \in S
  BY EmptySeq, LenProperties, ElementOfSeq
<1>2. PICK n \in Nat : n = Len(s) - 1
  BY <1>1
<1>3. \A j \in 1 .. n : j \in 1 .. Len(s) /\ j + 1 \in 1 .. Len(s)
  BY <1>1, <1>2
<1>4. DropAt(s, i) = [j \in 1 .. n |-> IF j < i THEN s[j] ELSE s[j + 1]]
  BY <1>2 DEF DropAt
<1>5. DropAt(s, i) \in [1 .. n -> S]
  BY <1>1, <1>3, <1>4
<1> QED
  BY <1>5, SeqDef

LEMMA RemoveType ==
  ASSUME NEW S, NEW s \in Seq(S), NEW t
  PROVE  Remove(s, t) \in Seq(S)
<1>1. CASE t \in Members(s)
  <2>1. s # <<>>
    BY <1>1 DEF Members
  <2> QED
    BY <1>1, <2>1, DropAtType DEF Remove
<1>2. CASE t \notin Members(s)
  BY <1>2 DEF Remove
<1> QED
  BY <1>1, <1>2

(* What wake_one_receiver wakes is a listed task that was blocked.         *)
LEMMA WokenIsBlocked ==
  ASSUME TypeOK, NEW o \in Objects, StillBlocked("recv", o) # {}
  PROVE  LET i == CHOOSE k \in StillBlocked("recv", o) : \A j \in StillBlocked("recv", o) : k <= j
         IN  /\ list["recv"][o] # <<>> /\ i \in Nat
             /\ list["recv"][o][i] \in Tasks /\ tstate[list["recv"][o][i]] = "BlockedRecv"
<1> DEFINE s == list["recv"][o]
           B == StillBlocked("recv", o)
           i == CHOOSE k \in B : \A j \in B : k <= j
<1>1. s \in Seq(Tasks)
  BY DEF TypeOK, Sides
<1>2. Len(s) \in Nat /\ DOMAIN s = 1 .. Len(s) /\ \A k \in 1 .. Len(s) : s[k] \in Tasks
  BY <1>1, LenProperties, ElementOfSeq
<1>3. B = {k \in DOMAIN s : tstate[s[k]] = "BlockedRecv"}
  BY DEF StillBlocked, BlockedState
<1>4. B \in SUBSET Nat /\ B # {}
  BY <1>2, <1>3
<1> HIDE DEF B
<1>5. i \in B
  BY <1>4, LeastNat
<1> HIDE DEF i
<1>6. i \in DOMAIN s /\ tstate[s[i]] = "BlockedRecv"
  BY <1>3, <1>5
<1>7. s # <<>> /\ i \in Nat /\ s[i] \in Tasks
  BY <1>2, <1>6
<1> QED
  BY <1>6, <1>7 DEF i, B

----------------------------------------------------------------------------
LEMMA InitLifeInv == Init => LifeInv
<1> SUFFICES ASSUME Init PROVE LifeInv
  OBVIOUS
<1>1. \A c \in Cores : IdleTask[c] \in Tasks /\ IdleTask[c] \in Static
  BY TaskLifeAssumption DEF Static, IdleTasks
<1>2. Static \subseteq Tasks /\ \A t \in Static : PoolStack[t] \in PoolStacks
  <2>1. IdleTasks \subseteq Tasks
    BY <1>1 DEF IdleTasks
  <2>2. Residents \subseteq Tasks
    BY TaskLifeAssumption
  <2> QED
    BY <2>1, <2>2 DEF Static, PoolStacks
<1>3. \A t \in Tasks : Alive(t) <=> t \in Static
  BY DEF Init, Alive, Static
<1>4. TypeOK
  <2>1. list \in [Sides -> [Objects -> Seq(Tasks)]]
    BY EmptySeq DEF Init
  <2> QED
    BY <1>1, <1>2, <2>1, TaskLifeAssumption DEF Init, TypeOK, States
<1>5. StacksPlaced /\ StacksUnshared
  BY <1>3, TaskLifeAssumption DEF Init, StacksPlaced, StacksUnshared
<1>6. PendingIsNobodys
  BY DEF Init, PendingIsNobodys, Pending
<1>7. CurrentNotReaped
  BY <1>1, <1>3 DEF Init, CurrentNotReaped
<1>8. CoresApart
  BY <1>1, <1>2, TaskLifeAssumption DEF Init, CoresApart
<1> QED
  BY <1>4, <1>5, <1>6, <1>7, <1>8 DEF LifeInv

(* A step that moves no stack and no core, kills and creates no task.      *)
LEMMA QuietStep ==
  ASSUME LifeInv, TypeOK', UNCHANGED <<machine, stackOf, free, current, onStack>>,
         \A t \in Tasks : Alive(t)' <=> Alive(t),
         \A u \in Tasks : Pending(u)' => Pending(u) /\ job'[u].stack = job[u].stack
  PROVE  LifeInv'
<1>1. StacksPlaced' /\ StacksUnshared'
  BY DEF LifeInv, StacksPlaced, StacksUnshared
<1>2. PendingIsNobodys'
  BY DEF LifeInv, PendingIsNobodys
<1>3. CurrentNotReaped'
  BY DEF LifeInv, CurrentNotReaped, TypeOK
<1>4. CoresApart'
  BY DEF LifeInv, CoresApart, XTENSA
<1> QED
  BY <1>1, <1>2, <1>3, <1>4 DEF LifeInv

(* ... of which x changes its own state, among the living, and its job to  *)
(* one that frees nothing.                                                 *)
LEMMA OwnStep ==
  ASSUME LifeInv, TypeOK', UNCHANGED <<machine, stackOf, free, current, onStack>>,
         NEW x \in Tasks, Alive(x),
         \A t \in Tasks : t # x => tstate'[t] = tstate[t] /\ job'[t] = job[t],
         tstate'[x] # "None",
         job'[x] = NoJob \/ job'[x].op \notin {"forget", "free"}
  PROVE  LifeInv'
<1>1. \A t \in Tasks : Alive(t)' <=> Alive(t)
  BY DEF Alive
<1>2. \A u \in Tasks : Pending(u)' => Pending(u) /\ job'[u].stack = job[u].stack
  BY <1>1 DEF Pending
<1> QED
  BY <1>1, <1>2, QuietStep

LEMMA ListType ==
  ASSUME TypeOK, NEW o \in Objects, NEW v \in Seq(Tasks),
         list' = [list EXCEPT !["recv"][o] = v]
  PROVE  list' \in [Sides -> [Objects -> Seq(Tasks)]]
  BY DEF TypeOK, Sides

LEMMA WaitStep ==
  ASSUME LifeInv, NEW c \in Cores, NEW t \in Tasks, NEW o \in Objects,
         Wait(c, t, o), machine' = machine
  PROVE  LifeInv'
<1>1. TypeOK
  BY DEF LifeInv
<1>2. list' \in [Sides -> [Objects -> Seq(Tasks)]]
  <2>1. list["recv"][o] \in Seq(Tasks)
    BY <1>1 DEF TypeOK, Sides
  <2>2. Append(list["recv"][o], t) \in Seq(Tasks)
    BY <2>1, AppendProperties
  <2>3. list' = [list EXCEPT !["recv"][o] = Append(list["recv"][o], t)]
    BY DEF Wait, Enrol
  <2> QED
    BY <1>1, <2>2, <2>3, ListType
<1>3. /\ tstate' = [tstate EXCEPT ![t] = "BlockedRecv"]
      /\ job' = [job EXCEPT ![t] = [op |-> "wait", obj |-> o]]
      /\ timed' = [timed EXCEPT ![t] = FALSE] /\ table' = table \cup {o}
      /\ UNCHANGED <<stackOf, free, current, onStack>>
      /\ tstate[t] \in Runnable
  BY DEF Wait, Enrol, BlockedState, Does, Free
<1>4. TypeOK'
  <2>1. [op |-> "wait", obj |-> o] \in Jobs
    BY DEF Jobs
  <2> QED
    BY <1>1, <1>2, <1>3, <2>1 DEF TypeOK, States
<1>5. Alive(t)
  BY <1>3 DEF Alive, Runnable
<1> QED
  BY <1>1, <1>3, <1>4, <1>5, OwnStep DEF TypeOK

LEMMA ResumeStep ==
  ASSUME LifeInv, NEW c \in Cores, NEW t \in Tasks, Resume(c, t), machine' = machine
  PROVE  LifeInv'
<1>1. TypeOK
  BY DEF LifeInv
<1>2. /\ tstate[t] \in Runnable /\ job' = [job EXCEPT ![t] = NoJob]
      /\ UNCHANGED <<tstate, timed, table, stackOf, free, current, onStack>>
  BY DEF Resume, Does
<1>3. list' \in [Sides -> [Objects -> Seq(Tasks)]]
  <2>1. PICK o \in Objects : o = job[t].obj
    BY <1>1, JobKinds DEF Resume, TypeOK
  <2>2. list["recv"][o] \in Seq(Tasks)
    BY <1>1 DEF TypeOK, Sides
  <2>3. Remove(list["recv"][o], t) \in Seq(Tasks)
    BY <2>2, RemoveType
  <2>4. list' = [list EXCEPT !["recv"][o] = Remove(list["recv"][o], t)]
    BY <2>1 DEF Resume, Delist
  <2> QED
    BY <1>1, <2>3, <2>4, ListType
<1>4. TypeOK'
  BY <1>1, <1>2, <1>3 DEF TypeOK
<1>5. Alive(t) /\ tstate'[t] # "None"
  BY <1>2 DEF Alive, Runnable
<1> QED
  BY <1>1, <1>2, <1>4, <1>5, OwnStep DEF TypeOK

LEMMA WakeStep ==
  ASSUME LifeInv, NEW o \in Objects, Wake(o), machine' = machine
  PROVE  LifeInv'
<1>1. TypeOK /\ UNCHANGED <<timed, table, stackOf, free, current, onStack, job>>
  BY DEF LifeInv, Wake
<1>2. CASE StillBlocked("recv", o) = {}
  <2>1. UNCHANGED <<tstate, list>>
    BY <1>2 DEF Wake, WakeOne
  <2>2. TypeOK'
    BY <1>1, <2>1 DEF TypeOK
  <2> QED
    BY <1>1, <2>1, <2>2, QuietStep DEF Alive, Pending
<1>3. CASE StillBlocked("recv", o) # {}
  <2> DEFINE k == CHOOSE k \in StillBlocked("recv", o) : \A j \in StillBlocked("recv", o) : k <= j
             s == list["recv"][o]
  <2>1. PICK w \in Tasks : w = s[k] /\ tstate[w] = "BlockedRecv" /\ s # <<>>
    BY <1>1, <1>3, WokenIsBlocked
  <2>2. list' = [list EXCEPT !["recv"][o] = DropAt(s, k)]
    BY <1>3 DEF Wake, WakeOne
  <2>3. tstate' = [tstate EXCEPT ![s[k]] = "Ready"]
    BY <1>3 DEF Wake, WakeOne
  <2> HIDE DEF k
  <2>4. s \in Seq(Tasks)
    BY <1>1 DEF TypeOK, Sides
  <2>5. list' \in [Sides -> [Objects -> Seq(Tasks)]]
    BY <1>1, <2>1, <2>2, <2>4, DropAtType, ListType
  <2>6. tstate' = [tstate EXCEPT ![w] = "Ready"]
    BY <2>1, <2>3
  <2>7. TypeOK'
    BY <1>1, <2>5, <2>6 DEF TypeOK, States
  <2>8. \A t \in Tasks : Alive(t)' <=> Alive(t)
    BY <1>1, <2>1, <2>6 DEF Alive, TypeOK
  <2>9. \A u \in Tasks : Pending(u)' => Pending(u) /\ job'[u].stack = job[u].stack
    BY <1>1, <2>8 DEF Pending
  <2> QED
    BY <1>1, <2>7, <2>8, <2>9, QuietStep
<1> QED
  BY <1>2, <1>3

(* delete_self and flint_task_exit.                                        *)
LEMMA EndStep ==
  ASSUME LifeInv, NEW c \in Cores, NEW t \in Tasks, DeleteSelf(c, t) \/ TaskExit(c, t),
         machine' = machine
  PROVE  LifeInv'
<1>1. TypeOK
  BY DEF LifeInv
<1>2. PICK st \in {"Deleting", "Suspended"}, jb \in [op : {"dying", "dead"}] :
        /\ tstate' = [tstate EXCEPT ![t] = st] /\ job' = [job EXCEPT ![t] = jb]
        /\ UNCHANGED <<timed, table, list, stackOf, free, current, onStack>>
        /\ tstate[t] \in Runnable
  BY DEF DeleteSelf, TaskExit, Does, Free
<1>3. TypeOK'
  BY <1>1, <1>2 DEF TypeOK, States, Jobs
<1>4. Alive(t) /\ tstate'[t] # "None" /\ job'[t].op \notin {"forget", "free"}
  BY <1>1, <1>2 DEF Alive, Runnable, TypeOK
<1> QED
  BY <1>1, <1>2, <1>3, <1>4, OwnStep DEF TypeOK

(* spawn_inner: the block it takes was free, so nobody's.                  *)
LEMMA SpawnStep ==
  ASSUME LifeInv, NEW c \in Cores, NEW t \in Tasks, NEW s \in Stacks, Spawn(c, t, s),
         machine' = machine
  PROVE  LifeInv'
<1>1. TypeOK
  BY DEF LifeInv
<1> DEFINE empty == {i \in Tasks : tstate[i] = "None"}
           first == CHOOSE i \in empty : \A j \in empty : i <= j
<1>2. empty \in SUBSET Nat /\ empty # {}
  BY TaskLifeAssumption DEF Spawn
<1>3. first \in empty
  <2> HIDE DEF empty
  <2> QED
    BY <1>2, LeastNat
<1>4. PICK id \in Tasks : id = first /\ ~Alive(id)
  BY <1>3 DEF Alive
<1>5. /\ free' = free \ {s} /\ s \in free
      /\ stackOf' = [stackOf EXCEPT ![id] = s]
      /\ tstate' = [tstate EXCEPT ![id] = "Ready"]
      /\ job' = [job EXCEPT ![id] = NoJob]
      /\ UNCHANGED <<timed, table, list, current, onStack>>
  BY <1>4 DEF Spawn, Does
<1>6. TypeOK'
  BY <1>1, <1>5 DEF TypeOK, States
<1>7. \A u \in Tasks : /\ Alive(u)' <=> Alive(u) \/ u = id
                       /\ stackOf'[u] = IF u = id THEN s ELSE stackOf[u]
  BY <1>1, <1>5 DEF Alive, TypeOK
<1>8. \A u \in Tasks : Pending(u)' => Pending(u) /\ job'[u].stack = job[u].stack /\ u # id
  BY <1>1, <1>5, <1>7 DEF Pending, TypeOK
<1>9. \A u \in Tasks : Alive(u) => stackOf[u] # s
  BY <1>5, TaskLifeAssumption DEF LifeInv, StacksPlaced, PoolStacks
<1>10. \A u \in Tasks : Pending(u) => job[u].stack # s
  BY <1>5 DEF LifeInv, PendingIsNobodys
<1>11. StacksPlaced'
  BY <1>5, <1>7, <1>9 DEF LifeInv, StacksPlaced
<1>12. StacksUnshared'
  BY <1>7, <1>9 DEF LifeInv, StacksUnshared
<1>13. PendingIsNobodys'
  BY <1>5, <1>7, <1>8, <1>10 DEF LifeInv, PendingIsNobodys
<1>14. \A d \in Cores : /\ current'[d] = current[d] /\ current[d] \in Tasks
                        /\ Alive(current[d]) /\ current[d] # id
  BY <1>1, <1>4, <1>5 DEF LifeInv, CurrentNotReaped, TypeOK
<1>15. CurrentNotReaped'
  BY <1>7, <1>14 DEF CurrentNotReaped
<1>16. CoresApart'
  BY <1>5, <1>7, <1>14 DEF LifeInv, CoresApart, XTENSA
<1> QED
  BY <1>6, <1>11, <1>12, <1>13, <1>15, <1>16 DEF LifeInv

(* The slot of id is cleared by t, which will free its stack.              *)
LEMMA ClearStep ==
  ASSUME LifeInv, NEW t \in Tasks, NEW id \in Tasks, id # t,
         Alive(t), Alive(id), job[t] = NoJob, ~CurrentAnywhere(id),
         tstate' = [tstate EXCEPT ![id] = "None"],
         job' = [job EXCEPT ![t] = [op |-> "forget", id |-> id, stack |-> Reclaimed(id)]],
         UNCHANGED <<machine, timed, table, list, stackOf, free, current, onStack>>
  PROVE  LifeInv'
<1>1. TypeOK
  BY DEF LifeInv
<1>2. PICK st \in Stacks \cup {NoStack} :
        /\ st = Reclaimed(id)
        /\ st # NoStack => st \in Stacks /\ st = stackOf[id]
  BY DEF Reclaimed, HeapStack
<1>3. PICK j \in Jobs : /\ j = [op |-> "forget", id |-> id, stack |-> st]
                        /\ j.op = "forget" /\ j.stack = st
  <2>1. [op |-> "forget", id |-> id, stack |-> st]
          \in [op : {"forget", "free"}, id : Tasks, stack : Stacks \cup {NoStack}]
    OBVIOUS
  <2> QED
    BY <2>1 DEF Jobs
<1>4. job' = [job EXCEPT ![t] = j]
  BY <1>2, <1>3
<1>5. TypeOK'
  BY <1>1, <1>4 DEF TypeOK, States
<1>6. \A u \in Tasks : Alive(u)' <=> Alive(u) /\ u # id
  BY <1>1 DEF Alive, TypeOK
<1>7. \A u \in Tasks : job'[u] = IF u = t THEN j ELSE job[u]
  BY <1>1, <1>4 DEF TypeOK
<1>8. \A u \in Tasks : Pending(u)' =>
        IF u = t THEN job'[u].stack = stackOf[id] /\ stackOf[id] \in Stacks
        ELSE Pending(u) /\ job'[u].stack = job[u].stack
  BY <1>2, <1>3, <1>6, <1>7 DEF Pending
<1>9. StacksPlaced' /\ StacksUnshared'
  BY <1>6 DEF LifeInv, StacksPlaced, StacksUnshared
<1>10. PendingIsNobodys'
  <2> SUFFICES ASSUME NEW u \in Tasks, Pending(u)'
               PROVE  /\ job'[u].stack \in Stacks \ free
                      /\ \A v \in Tasks : Alive(v)' => stackOf[v] # job'[u].stack
                      /\ \A v \in Tasks : Pending(v)' /\ job'[v].stack = job'[u].stack => v = u
    BY DEF PendingIsNobodys
  <2>1. /\ stackOf[id] \in Stacks => stackOf[id] \notin free
        /\ \A v \in Tasks : Alive(v)' => stackOf[v] # stackOf[id]
        /\ \A v \in Tasks : Pending(v) => job[v].stack # stackOf[id]
    BY <1>6, TaskLifeAssumption
       DEF LifeInv, StacksPlaced, StacksUnshared, PendingIsNobodys, PoolStacks
  <2>2. CASE u = t
    BY <1>8, <2>1, <2>2
  <2>3. CASE u # t
    BY <1>6, <1>8, <2>1, <2>3 DEF LifeInv, PendingIsNobodys
  <2> QED
    BY <2>2, <2>3
<1>11. CurrentNotReaped' /\ CoresApart'
  BY <1>1, <1>6 DEF LifeInv, CurrentNotReaped, CoresApart, CurrentAnywhere, TypeOK, XTENSA
<1> QED
  BY <1>5, <1>9, <1>10, <1>11 DEF LifeInv

LEMMA DeleteStep ==
  ASSUME LifeInv, NEW c \in Cores, NEW t \in Tasks, NEW id \in Tasks,
         DeleteTask(c, t, id) \/ ReapPick(c, t, id), machine' = machine
  PROVE  LifeInv'
<1>1. Alive(t) /\ Alive(id) /\ job[t] = NoJob /\ id # t /\ ~CurrentAnywhere(id)
  BY DEF DeleteTask, ReapPick, Free, Runnable, Alive
<1>2. /\ tstate' = [tstate EXCEPT ![id] = "None"]
      /\ job' = [job EXCEPT ![t] = [op |-> "forget", id |-> id, stack |-> Reclaimed(id)]]
      /\ UNCHANGED <<machine, timed, table, list, stackOf, free, current, onStack>>
  BY DEF DeleteTask, ReapPick, Does, Reclaimed
<1> QED
  BY <1>1, <1>2, ClearStep

LEMMA ForgetStep ==
  ASSUME LifeInv, NEW c \in Cores, NEW t \in Tasks, ForgetTask(c, t), machine' = machine
  PROVE  LifeInv'
<1>1. TypeOK /\ Alive(t)
  BY DEF LifeInv, ForgetTask, Executes, CurrentNotReaped
<1>2. /\ UNCHANGED <<tstate, timed, table, stackOf, free, current, onStack>>
      /\ job[t] \in Jobs /\ job[t] # NoJob
  BY <1>1 DEF ForgetTask, TypeOK
<1>3. \A x : Without(x) \in [Sides -> [Objects -> Seq(Tasks)]]
  <2>1. \A x : \A si \in Sides, o \in Objects : Remove(list[si][o], x) \in Seq(Tasks)
    BY <1>1, RemoveType DEF TypeOK
  <2> QED
    BY <2>1 DEF Without
<1>4. PICK j \in Jobs :
        /\ job' = [job EXCEPT ![t] = j]
        /\ j.op \in {"forget", "free"} =>
             job[t].op \in {"forget", "free"} /\ j.stack = job[t].stack
  <2>1. CASE job[t].op = "forget"
    <3>1. job[t] \in [op : {"forget", "free"}, id : Tasks, stack : Stacks \cup {NoStack}]
      BY <1>2, <2>1, JobKinds
    <3>a. /\ [job[t] EXCEPT !.op = "free"]
               \in [op : {"forget", "free"}, id : Tasks, stack : Stacks \cup {NoStack}]
          /\ [job[t] EXCEPT !.op = "free"].stack = job[t].stack
      BY <3>1
    <3>2. PICK j \in Jobs : j = [job[t] EXCEPT !.op = "free"] /\ j.stack = job[t].stack
      BY <3>a DEF Jobs
    <3> QED
      BY <2>1, <3>2 DEF ForgetTask, Does
  <2>2. CASE job[t].op = "dying"
    <3>a. [op |-> "dead"] \in [op : {"dying", "dead"}]
      OBVIOUS
    <3>1. PICK j \in Jobs : j = [op |-> "dead"] /\ j.op = "dead"
      BY <3>a DEF Jobs
    <3> QED
      BY <2>2, <3>1 DEF ForgetTask, Does
  <2> QED
    BY <2>1, <2>2 DEF ForgetTask
<1>5. TypeOK'
  <2>1. list' \in [Sides -> [Objects -> Seq(Tasks)]]
    BY <1>3 DEF ForgetTask
  <2> QED
    BY <1>1, <1>2, <1>4, <2>1 DEF TypeOK
<1>6. \A u \in Tasks : Alive(u)' <=> Alive(u)
  BY <1>2 DEF Alive
<1>7. \A u \in Tasks : Pending(u)' => Pending(u) /\ job'[u].stack = job[u].stack
  BY <1>1, <1>2, <1>4, <1>6 DEF Pending, TypeOK
<1> QED
  BY <1>2, <1>5, <1>6, <1>7, QuietStep

(* heap::free: the block was on its way here and nobody's.                 *)
LEMMA FreeStep ==
  ASSUME LifeInv, NEW c \in Cores, NEW t \in Tasks, FreeStack(c, t), machine' = machine
  PROVE  LifeInv'
<1>1. TypeOK /\ Alive(t)
  BY DEF LifeInv, FreeStack, Executes, CurrentNotReaped
<1>2. /\ UNCHANGED <<tstate, timed, table, list, stackOf, current, onStack>>
      /\ job[t] \in Jobs /\ job[t] # NoJob /\ job[t].op = "free"
      /\ job' = [job EXCEPT ![t] = NoJob]
      /\ free' = free \cup ({job[t].stack} \ {NoStack})
  BY <1>1 DEF FreeStack, TypeOK, Does, waiterVars
<1>3. job[t].stack \in Stacks \cup {NoStack}
  BY <1>2, JobKinds
<1>4. TypeOK'
  BY <1>1, <1>2, <1>3 DEF TypeOK
<1>5. \A x : x \in free' => x \in free \/ (x = job[t].stack /\ Pending(t))
  BY <1>1, <1>2 DEF Pending
<1>6. \A u \in Tasks : Alive(u)' <=> Alive(u)
  BY <1>2 DEF Alive
<1>7. \A u \in Tasks : Pending(u)' => Pending(u) /\ job'[u].stack = job[u].stack /\ u # t
  BY <1>1, <1>2, <1>6 DEF Pending, TypeOK
<1>8. StacksPlaced'
  BY <1>2, <1>5, <1>6 DEF LifeInv, StacksPlaced, PendingIsNobodys
<1>9. StacksUnshared'
  BY <1>2, <1>6 DEF LifeInv, StacksUnshared
<1>10. PendingIsNobodys'
  BY <1>2, <1>5, <1>6, <1>7 DEF LifeInv, PendingIsNobodys
<1>11. CurrentNotReaped' /\ CoresApart'
  BY <1>1, <1>2, <1>6 DEF LifeInv, CurrentNotReaped, CoresApart, TypeOK, XTENSA
<1> QED
  BY <1>4, <1>8, <1>9, <1>10, <1>11 DEF LifeInv

LEMMA SwitchStep ==
  ASSUME LifeInv, NEW c \in Cores, NEW next \in Tasks, Switch(c, next), machine' = machine
  PROVE  LifeInv'
<1>1. TypeOK /\ Alive(current[c]) /\ current[c] \in Tasks
  BY DEF LifeInv, CurrentNotReaped, TypeOK
<1>2. /\ UNCHANGED <<timed, table, list, stackOf, free, job>>
      /\ current' = [current EXCEPT ![c] = next]
      /\ onStack' = IF XTENSA THEN onStack ELSE [onStack EXCEPT ![c] = stackOf[next]]
      /\ Alive(next) /\ ~CurrentAnywhere(next)
  BY DEF Switch, Alive, Runnable
<1>3. \A t \in Tasks : tstate'[t] \in States /\ (tstate'[t] = "None" <=> tstate[t] = "None")
  BY <1>1, <1>2 DEF Switch, Alive, TypeOK, States
<1>4. \A t \in Tasks : Alive(t)' <=> Alive(t)
  BY <1>3 DEF Alive
<1>5. stackOf[next] \in Stacks \cup PoolStacks
  BY <1>2 DEF LifeInv, StacksPlaced, PoolStacks
<1>6. tstate' \in [Tasks -> States]
  BY <1>3 DEF Switch
<1>7. TypeOK'
  BY <1>1, <1>2, <1>5, <1>6 DEF TypeOK
<1>8. StacksPlaced' /\ StacksUnshared'
  BY <1>2, <1>4 DEF LifeInv, StacksPlaced, StacksUnshared
<1>9. \A u \in Tasks : Pending(u)' <=> Pending(u)
  BY <1>2, <1>4 DEF Pending
<1>10. PendingIsNobodys'
  BY <1>2, <1>4, <1>9 DEF LifeInv, PendingIsNobodys
<1>11. CurrentNotReaped'
  BY <1>1, <1>2, <1>4 DEF LifeInv, CurrentNotReaped, TypeOK
<1>12. CoresApart'
  BY <1>1, <1>2 DEF LifeInv, CoresApart, CurrentAnywhere, TypeOK, XTENSA
<1> QED
  BY <1>7, <1>8, <1>10, <1>11, <1>12 DEF LifeInv

LEMMA LeaveTrapStep ==
  ASSUME LifeInv, NEW c \in Cores, LeaveTrap(c), machine' = machine
  PROVE  LifeInv'
<1>1. TypeOK /\ Alive(current[c]) /\ current[c] \in Tasks
  BY DEF LifeInv, CurrentNotReaped, TypeOK
<1>2. /\ UNCHANGED <<tstate, timed, table, list, stackOf, free, current, job>>
      /\ onStack' = [onStack EXCEPT ![c] = stackOf[current[c]]]
  BY DEF LeaveTrap, waiterVars
<1>3. stackOf[current[c]] \in Stacks \cup PoolStacks
  BY <1>1 DEF LifeInv, StacksPlaced, PoolStacks
<1>4. TypeOK'
  BY <1>1, <1>2, <1>3 DEF TypeOK
<1>5. CoresApart'
  BY <1>1, <1>2 DEF LifeInv, CoresApart, TypeOK, XTENSA
<1> QED
  BY <1>2, <1>4, <1>5 DEF LifeInv, StacksPlaced, StacksUnshared, PendingIsNobodys, Pending,
                          CurrentNotReaped, Alive

LEMMA NextLifeInv == LifeInv /\ [Next]_vars => LifeInv'
<1> SUFFICES ASSUME LifeInv, [Next]_vars PROVE LifeInv'
  OBVIOUS
<1>1. CASE UNCHANGED vars
  <2>1. TypeOK'
    BY <1>1 DEF vars, waiterVars, LifeInv, TypeOK
  <2> QED
    BY <1>1, <2>1, QuietStep DEF vars, waiterVars, Alive, Pending
<1>2. CASE Next
  BY <1>2, SpawnStep, WaitStep, DeleteStep, ResumeStep, EndStep, ForgetStep, FreeStep,
     SwitchStep, LeaveTrapStep, WakeStep DEF Next
<1> QED
  BY <1>1, <1>2

(* However tasks are spawned, exit, delete themselves and are deleted or   *)
(* reaped, and however the cores switch between those steps, each heap     *)
(* block is free, one live task's stack or on its way to heap::free        *)
(* (dynobj.rs delete_task, reap_deleted; spawn.rs).                        *)
THEOREM LifeAccounted == Spec => []LifeInv
  BY InitLifeInv, NextLifeInv, PTL DEF Spec

(* A stack is its task's until no core needs it: owned once, never freed   *)
(* under the task that current_per_core names, and on Cortex-M0+ never     *)
(* freed or shared while a stack pointer is in it.                         *)
THEOREM StacksAreSafe == Spec => []StacksSafe
<1>1. LifeInv => StacksSafe
  <2> SUFFICES ASSUME LifeInv PROVE StacksSafe
    OBVIOUS
  <2>1. \A t \in Tasks : Alive(t) => stackOf[t] \notin free /\ stackOf[t] # NoStack
    BY TaskLifeAssumption DEF LifeInv, StacksPlaced, TypeOK, PoolStacks
  <2>2. StacksOwnedOnce
    BY <2>1 DEF LifeInv, StacksUnshared, PendingIsNobodys, Pending, StacksOwnedOnce
  <2>3. StackNotFreed /\ OneCorePerStack
    BY <2>1 DEF LifeInv, CurrentNotReaped, CoresApart, StacksUnshared, StackNotFreed,
                OneCorePerStack, TypeOK
  <2> QED
    BY <2>2, <2>3 DEF LifeInv, StacksSafe
<1> QED
  BY <1>1, LifeAccounted, PTL

(***************************************************************************)
(* Their waits on the queue of api/src/queue.rs.                           *)
(***************************************************************************)

(* The types of what the argument looks at.                                *)
TypeWaiting ==
  /\ tstate \in [Tasks -> {"Ready", "BlockedSend", "BlockedRecv"}]
  /\ list \in [Sides -> [Objects -> Seq(Tasks)]]
  /\ pc \in [Callers -> {"idle", "try", "copy", "wake", "block", "resume"}]
  /\ timedOut \in [Tasks -> BOOLEAN]

(* The queue's two lists name no task twice, and only tasks of their side  *)
(* that are inside block_send or block_recv.                               *)
Distinct(s) == \A i, j \in DOMAIN s : s[i] = s[j] => i = j
ListsOfCallers ==
  \A side \in Sides :
    /\ Distinct(list[side][Q])
    /\ \A t \in Members(list[side][Q]) : Side(t) = side /\ pc[t] = "resume"

(* Who sleeps can be found by a wake.                                      *)
SleepersListed == \A t \in Tasks : tstate[t] # "Ready" => Listed(t, Side(t), Q)

(* Who was timed out by the tick is awake, not yet resumed, and listed.    *)
TimedOutListed ==
  \A t \in Tasks : timedOut[t] =>
    pc[t] = "resume" /\ tstate[t] = "Ready" /\ Listed(t, Side(t), Q)

WaitInv == TypeWaiting /\ ListsOfCallers /\ SleepersListed /\ TimedOutListed

(***************************************************************************)
(* The lists.                                                              *)
(***************************************************************************)

LEMMA Constants ==
  /\ Q \in Objects /\ Tasks \subseteq Callers
  /\ \A x : Side(x) \in Sides /\ Opposite(Side(x)) \in Sides /\ Opposite(Side(x)) # Side(x)
  BY ApiQueueAssumption DEF Callers, Side, Sides, Opposite

LEMMA MembersAreTasks ==
  ASSUME NEW s \in Seq(Tasks) PROVE Members(s) \subseteq Tasks
  BY LenProperties, ElementOfSeq DEF Members

LEMMA AppendMembers ==
  ASSUME NEW s \in Seq(Tasks), NEW t \in Tasks
  PROVE  /\ Append(s, t) \in Seq(Tasks) /\ Members(Append(s, t)) = Members(s) \cup {t}
         /\ Distinct(s) /\ t \notin Members(s) => Distinct(Append(s, t))
<1>1. /\ DOMAIN s = 1 .. Len(s) /\ Len(s) \in Nat /\ Append(s, t) \in Seq(Tasks)
      /\ DOMAIN Append(s, t) = 1 .. Len(s) + 1
      /\ \A i \in 1 .. Len(s) : Append(s, t)[i] = s[i]
      /\ Append(s, t)[Len(s) + 1] = t
  BY LenProperties, AppendProperties
<1> QED
  BY <1>1 DEF Members, Distinct

(* Taking out one entry keeps the others, in a list without repetitions.   *)
LEMMA DropAtMembers ==
  ASSUME NEW s \in Seq(Tasks), NEW i \in DOMAIN s, Distinct(s)
  PROVE  /\ DropAt(s, i) \in Seq(Tasks) /\ Members(DropAt(s, i)) = Members(s) \ {s[i]}
         /\ Distinct(DropAt(s, i))
<1> DEFINE r == DropAt(s, i)
           from(j) == IF j < i THEN j ELSE j + 1
<1>1. /\ DOMAIN s = 1 .. Len(s) /\ Len(s) \in Nat /\ i \in 1 .. Len(s)
      /\ \A j \in 1 .. Len(s) : s[j] \in Tasks
  BY LenProperties, ElementOfSeq
<1>2. DOMAIN r = 1 .. Len(s) - 1 /\ \A j \in 1 .. Len(s) - 1 : r[j] = s[from(j)]
  BY <1>1 DEF DropAt
<1>3. /\ \A j \in 1 .. Len(s) - 1 : from(j) \in 1 .. Len(s) /\ from(j) # i
      /\ \A j, k \in 1 .. Len(s) - 1 : from(j) = from(k) => j = k
      /\ \A k \in 1 .. Len(s) : k # i => \E j \in 1 .. Len(s) - 1 : from(j) = k
  <2>1. \A j \in 1 .. Len(s) - 1 : from(j) \in 1 .. Len(s) /\ from(j) # i
    BY <1>1
  <2>2. \A j, k \in 1 .. Len(s) - 1 : from(j) = from(k) => j = k
    BY <1>1
  <2>3. ASSUME NEW k \in 1 .. Len(s), k # i PROVE \E j \in 1 .. Len(s) - 1 : from(j) = k
    <3>1. CASE k < i
      <4>1. k \in 1 .. Len(s) - 1 /\ from(k) = k
        BY <1>1, <3>1
      <4> QED
        BY <4>1
    <3>2. CASE k > i
      <4>1. k - 1 \in 1 .. Len(s) - 1 /\ from(k - 1) = k
        BY <1>1, <3>2
      <4> QED
        BY <4>1
    <3> QED
      BY <1>1, <2>3, <3>1, <3>2
  <2> QED
    BY <2>1, <2>2, <2>3
<1>4. r \in Seq(Tasks)
  <2>1. r \in [1 .. Len(s) - 1 -> Tasks]
    BY <1>1, <1>2, <1>3 DEF DropAt
  <2>2. Len(s) - 1 \in Nat
    BY <1>1
  <2> QED
    BY <2>1, <2>2, SeqDef
<1> HIDE DEF r, from
<1>5. Members(r) = Members(s) \ {s[i]}
  <2>1. \A x \in Members(r) : x \in Members(s) /\ x # s[i]
    BY <1>1, <1>2, <1>3 DEF Members, Distinct
  <2>2. ASSUME NEW x \in Members(s), x # s[i] PROVE x \in Members(r)
    <3>1. PICK k \in 1 .. Len(s) : x = s[k]
      BY <1>1 DEF Members
    <3>2. PICK j \in 1 .. Len(s) - 1 : from(j) = k
      BY <1>3, <2>2, <3>1
    <3> QED
      BY <1>2, <3>1, <3>2 DEF Members
  <2> QED
    BY <2>1, <2>2
<1>6. Distinct(r)
  BY <1>1, <1>2, <1>3 DEF Distinct
<1> QED
  BY <1>4, <1>5, <1>6 DEF r

(* remove takes the task out: it is in there once at most.                 *)
LEMMA RemoveMembers ==
  ASSUME NEW s \in Seq(Tasks), NEW t \in Tasks, Distinct(s)
  PROVE  /\ Remove(s, t) \in Seq(Tasks) /\ Members(Remove(s, t)) = Members(s) \ {t}
         /\ Distinct(Remove(s, t))
<1>1. CASE t \notin Members(s)
  BY <1>1 DEF Remove
<1>2. CASE t \in Members(s)
  <2> DEFINE i == CHOOSE i \in DOMAIN s : s[i] = t /\ \A j \in 1 .. i - 1 : s[j] # t
  <2>1. PICK k \in DOMAIN s : s[k] = t
    BY <1>2 DEF Members
  <2>2. DOMAIN s = 1 .. Len(s) /\ Len(s) \in Nat
    BY LenProperties
  <2>3. \A j \in 1 .. k - 1 : s[j] # t
    BY <2>1, <2>2 DEF Distinct
  <2>4. i \in DOMAIN s /\ s[i] = t
    BY <2>1, <2>3
  <2>5. Remove(s, t) = DropAt(s, i)
    BY <1>2 DEF Remove
  <2> HIDE DEF i
  <2> QED
    BY <2>4, <2>5, DropAtMembers
<1> QED
  BY <1>1, <1>2

(* A non-empty set of naturals has a least element.                        *)
LEMMA HasLeast ==
  ASSUME NEW S \in SUBSET Nat, S # {}
  PROVE  \E k \in S : \A j \in S : k <= j
<1> DEFINE R == {ss \in Nat \X Nat : ss[1] < ss[2]}
<1>1. IsWellFoundedOn(R, Nat)
  BY NatLessThanWellFounded DEF OpToRel
<1> HIDE DEF R
<1>2. PICK k \in S : \A j \in S : <<j, k>> \notin R
  BY <1>1, WFMin, Zenon
<1>3. \A j \in S : ~(j < k)
  BY <1>2, Zenon DEF R
<1> QED
  BY <1>3

(* The lists when one of them is replaced.                                 *)
LEMMA ListReplaced ==
  ASSUME list \in [Sides -> [Objects -> Seq(Tasks)]], NEW side \in Sides, NEW s \in Seq(Tasks),
         list' = [list EXCEPT ![side][Q] = s]
  PROVE  /\ list' \in [Sides -> [Objects -> Seq(Tasks)]]
         /\ list'[side][Q] = s
         /\ \A d \in Sides : d # side => list'[d][Q] = list[d][Q]
  BY Constants

(***************************************************************************)
(* The invariant.                                                          *)
(***************************************************************************)

LEMMA InitWaitInv == ApiInit => WaitInv
<1> SUFFICES ASSUME ApiInit PROVE WaitInv
  OBVIOUS
<1>1. PICK T : WaitersInit(T)
  BY DEF ApiInit
<1>2. \A side \in Sides : list[side][Q] = <<>> /\ Members(list[side][Q]) = {} /\ Distinct(list[side][Q])
  BY <1>1, Constants DEF WaitersInit, Members, Distinct
<1>3. TypeWaiting
  BY <1>1 DEF ApiInit, WaitersInit, TypeWaiting
<1> QED
  BY <1>1, <1>2, <1>3 DEF ApiInit, WaitersInit, WaitInv, ListsOfCallers, SleepersListed, TimedOutListed

(* A step of a caller that is not waiting, and leaves the waiters alone.   *)
LEMMA CallerMoves ==
  ASSUME WaitInv, NEW x \in Callers, pc[x] # "resume",
         NEW l \in {"idle", "try", "copy", "wake", "block"}, pc' = [pc EXCEPT ![x] = l],
         UNCHANGED <<tstate, list, timedOut>>
  PROVE  WaitInv'
<1>1. \A t \in Callers : pc[t] = "resume" => pc'[t] = "resume"
  BY DEF WaitInv, TypeWaiting
<1>2. TypeWaiting'
  BY DEF WaitInv, TypeWaiting
<1>3. \A side \in Sides : Members(list[side][Q]) \subseteq Callers
  BY Constants, MembersAreTasks DEF WaitInv, TypeWaiting
<1>4. ListsOfCallers'
  BY <1>1, <1>3 DEF WaitInv, ListsOfCallers
<1>5. SleepersListed' /\ TimedOutListed'
  BY <1>1, Constants DEF WaitInv, SleepersListed, TimedOutListed, Listed
<1> QED
  BY <1>2, <1>4, <1>5 DEF WaitInv

(* A caller that is not inside block_* is awake and on no list.            *)
LEMMA OutsideIsAwake ==
  ASSUME WaitInv, NEW t \in Tasks, pc[t] # "resume"
  PROVE  /\ tstate[t] = "Ready" /\ ~timedOut[t]
         /\ \A side \in Sides : t \notin Members(list[side][Q])
  BY Constants DEF WaitInv, ListsOfCallers, SleepersListed, TimedOutListed, Listed

LEMMA EnrolPreserves ==
  ASSUME WaitInv, NEW t \in Tasks, pc[t] = "block", Enrol(t, Side(t), Q, mode[t] = "finite"),
         pc' = [pc EXCEPT ![t] = "resume"], UNCHANGED timedOut
  PROVE  WaitInv'
<1> DEFINE side == Side(t)
           s == Append(list[side][Q], t)
<1>1. side \in Sides /\ list[side][Q] \in Seq(Tasks) /\ t \notin Members(list[side][Q]) /\ ~timedOut[t]
  BY Constants, OutsideIsAwake DEF WaitInv, TypeWaiting
<1>2. s \in Seq(Tasks) /\ Members(s) = Members(list[side][Q]) \cup {t} /\ Distinct(s)
  BY <1>1, AppendMembers DEF WaitInv, ListsOfCallers
<1>3. /\ list' = [list EXCEPT ![side][Q] = s]
      /\ tstate' = [tstate EXCEPT ![t] = BlockedState(side)]
  BY DEF Enrol
<1>4. /\ list' \in [Sides -> [Objects -> Seq(Tasks)]] /\ list'[side][Q] = s
      /\ \A d \in Sides : d # side => list'[d][Q] = list[d][Q]
  BY <1>1, <1>2, <1>3, ListReplaced DEF WaitInv, TypeWaiting
<1> HIDE DEF s
<1>5. TypeWaiting'
  BY <1>3, <1>4, Constants DEF WaitInv, TypeWaiting, BlockedState
<1>6. \A u \in Callers : u # t => pc'[u] = pc[u]
  BY DEF WaitInv, TypeWaiting
<1>7. pc'[t] = "resume"
  BY Constants DEF WaitInv, TypeWaiting
<1>8. \A d \in Sides : Members(list[d][Q]) \subseteq Callers
  BY Constants, MembersAreTasks DEF WaitInv, TypeWaiting
<1>9. ListsOfCallers'
  <2> SUFFICES ASSUME NEW d \in Sides
               PROVE  /\ Distinct(list'[d][Q])
                      /\ \A u \in Members(list'[d][Q]) : Side(u) = d /\ pc'[u] = "resume"
    BY DEF ListsOfCallers
  <2>1. CASE d = side
    BY <1>2, <1>4, <1>6, <1>7, <1>8, <2>1 DEF WaitInv, ListsOfCallers
  <2>2. CASE d # side
    BY <1>4, <1>6, <1>7, <1>8, <2>2 DEF WaitInv, ListsOfCallers
  <2> QED
    BY <2>1, <2>2
<1>10. \A u \in Tasks : Listed(u, Side(u), Q) => Listed(u, Side(u), Q)'
  BY <1>2, <1>4, Constants DEF Listed
<1>11. \A u \in Tasks : u # t => tstate'[u] = tstate[u]
  BY <1>3 DEF WaitInv, TypeWaiting
<1>12. Listed(t, Side(t), Q)'
  BY <1>2, <1>4 DEF Listed
<1>13. SleepersListed' /\ TimedOutListed'
  BY <1>1, <1>6, <1>10, <1>11, <1>12, Constants DEF WaitInv, SleepersListed, TimedOutListed
<1> QED
  BY <1>5, <1>9, <1>13 DEF WaitInv

(* wake_one skips who was timed out, so it takes a sleeper or nobody.      *)
LEMMA WakePreserves ==
  ASSUME WaitInv, NEW x \in Callers, pc[x] = "wake", WakeOne(Opposite(Side(x)), Q),
         pc' = [pc EXCEPT ![x] = "idle"], UNCHANGED timedOut
  PROVE  WaitInv'
<1> DEFINE side == Opposite(Side(x))
           old == list[side][Q]
<1>1. CASE UNCHANGED <<tstate, list>>
  BY <1>1, CallerMoves
<1>2. CASE StillBlocked(side, Q) # {}
  <2> DEFINE B == StillBlocked(side, Q)
             i == CHOOSE k \in B : \A j \in B : k <= j
  <2>1. side \in Sides /\ old \in Seq(Tasks) /\ Distinct(old)
    BY Constants DEF WaitInv, TypeWaiting, ListsOfCallers
  <2>2. DOMAIN old = 1 .. Len(old) /\ Len(old) \in Nat
    BY <2>1, LenProperties
  <2>3. B \in SUBSET Nat
    BY <2>2 DEF StillBlocked
  <2>4. i \in B
    <3>1. \E k \in B : \A j \in B : k <= j
      BY <1>2, <2>3, HasLeast
    <3> HIDE DEF B
    <3> QED
      BY <3>1
  <2>5. /\ list' = [list EXCEPT ![side][Q] = DropAt(old, i)]
        /\ tstate' = [tstate EXCEPT ![old[i]] = "Ready"]
    BY <1>2 DEF WakeOne
  <2> HIDE DEF i
  <2>6. PICK n \in DOMAIN old : n = i /\ tstate[old[n]] # "Ready"
    BY <2>4 DEF StillBlocked, BlockedState
  <2> HIDE DEF B
  <2>7. PICK w \in Tasks : w = old[n] /\ w \in Members(old)
    BY <2>1, <2>2, ElementOfSeq DEF Members
  <2>8. ~timedOut[w] /\ tstate[w] # "Ready"
    BY <2>6, <2>7 DEF WaitInv, TimedOutListed
  <2>9. PICK s \in Seq(Tasks) : s = DropAt(old, n) /\ Members(s) = Members(old) \ {w} /\ Distinct(s)
    BY <2>1, <2>7, DropAtMembers
  <2>10. /\ list' \in [Sides -> [Objects -> Seq(Tasks)]] /\ list'[side][Q] = s
         /\ \A d \in Sides : d # side => list'[d][Q] = list[d][Q]
    BY <2>1, <2>5, <2>6, <2>9, ListReplaced DEF WaitInv, TypeWaiting
  <2>11. /\ tstate' \in [Tasks -> {"Ready", "BlockedSend", "BlockedRecv"}] /\ tstate'[w] = "Ready"
         /\ \A u \in Tasks : u # w => tstate'[u] = tstate[u]
    BY <2>5, <2>6, <2>7 DEF WaitInv, TypeWaiting
  <2>12. \A u \in Callers : pc[u] = "resume" => pc'[u] = "resume"
    BY DEF WaitInv, TypeWaiting
  <2>13. TypeWaiting'
    BY <2>10, <2>11 DEF WaitInv, TypeWaiting
  <2>14. \A d \in Sides : Members(list[d][Q]) \subseteq Callers
    BY Constants, MembersAreTasks DEF WaitInv, TypeWaiting
  <2>15. ListsOfCallers'
    <3> SUFFICES ASSUME NEW d \in Sides
                 PROVE  /\ Distinct(list'[d][Q])
                        /\ \A u \in Members(list'[d][Q]) : Side(u) = d /\ pc'[u] = "resume"
      BY DEF ListsOfCallers
    <3>1. CASE d = side
      BY <2>9, <2>10, <2>12, <2>14, <3>1 DEF WaitInv, ListsOfCallers
    <3>2. CASE d # side
      BY <2>10, <2>12, <2>14, <3>2 DEF WaitInv, ListsOfCallers
    <3> QED
      BY <3>1, <3>2
  <2>16. \A u \in Tasks : u # w /\ Listed(u, Side(u), Q) => Listed(u, Side(u), Q)'
    BY <2>9, <2>10, Constants DEF Listed
  <2>17. SleepersListed' /\ TimedOutListed'
    BY <2>8, <2>11, <2>12, <2>16, Constants DEF WaitInv, SleepersListed, TimedOutListed
  <2> QED
    BY <2>13, <2>15, <2>17 DEF WaitInv
<1> QED
  BY <1>1, <1>2 DEF WakeOne

(* The resume path takes the task off its list, timed out or not.          *)
LEMMA ResumePreserves ==
  ASSUME WaitInv, NEW t \in Tasks, ApiResume(t) PROVE WaitInv'
<1> DEFINE side == Side(t)
           old == list[side][Q]
<1>1. /\ pc[t] = "resume" /\ list' = [list EXCEPT ![side][Q] = Remove(old, t)]
      /\ timedOut' = [timedOut EXCEPT ![t] = FALSE] /\ UNCHANGED tstate
      /\ \E l \in {"idle", "try"} : pc' = [pc EXCEPT ![t] = l]
  BY DEF ApiResume, Delist, Finish, GoOn, Goto
<1>2. tstate[t] = "Ready"
  BY ApiQueueAssumption DEF ApiResume, Runs
<1>3. side \in Sides /\ old \in Seq(Tasks) /\ Distinct(old)
  BY Constants DEF WaitInv, TypeWaiting, ListsOfCallers
<1>4. PICK s \in Seq(Tasks) : s = Remove(old, t) /\ Members(s) = Members(old) \ {t} /\ Distinct(s)
  BY <1>3, RemoveMembers
<1>5. /\ list' \in [Sides -> [Objects -> Seq(Tasks)]] /\ list'[side][Q] = s
      /\ \A d \in Sides : d # side => list'[d][Q] = list[d][Q]
  BY <1>1, <1>3, <1>4, ListReplaced DEF WaitInv, TypeWaiting
<1>6. \A u \in Callers : u # t => pc'[u] = pc[u]
  BY <1>1 DEF WaitInv, TypeWaiting
<1>7. /\ timedOut' \in [Tasks -> BOOLEAN] /\ ~timedOut'[t]
      /\ \A u \in Tasks : u # t => timedOut'[u] = timedOut[u]
  BY <1>1 DEF WaitInv, TypeWaiting
<1>8. TypeWaiting'
  BY <1>1, <1>5, <1>7 DEF WaitInv, TypeWaiting
<1>9. \A d \in Sides : Members(list[d][Q]) \subseteq Callers
  BY Constants, MembersAreTasks DEF WaitInv, TypeWaiting
<1>10. ListsOfCallers'
  <2> SUFFICES ASSUME NEW d \in Sides
               PROVE  /\ Distinct(list'[d][Q])
                      /\ \A u \in Members(list'[d][Q]) : Side(u) = d /\ pc'[u] = "resume"
    BY DEF ListsOfCallers
  <2>1. CASE d = side
    BY <1>4, <1>5, <1>6, <1>9, <2>1 DEF WaitInv, ListsOfCallers
  <2>2. CASE d # side
    BY <1>5, <1>6, <1>9, <2>2 DEF WaitInv, ListsOfCallers
  <2> QED
    BY <2>1, <2>2
<1>11. \A u \in Tasks : u # t /\ Listed(u, Side(u), Q) => Listed(u, Side(u), Q)'
  BY <1>4, <1>5, Constants DEF Listed
<1>12. SleepersListed' /\ TimedOutListed'
  BY <1>1, <1>2, <1>6, <1>7, <1>11, Constants DEF WaitInv, SleepersListed, TimedOutListed
<1> QED
  BY <1>8, <1>10, <1>12 DEF WaitInv

(* The tick wakes a sleeper and leaves it on its list.                     *)
LEMMA TickPreserves ==
  ASSUME WaitInv, NEW t \in Tasks, Tick(t) PROVE WaitInv'
<1>1. /\ tstate[t] # "Ready" /\ tstate' = [tstate EXCEPT ![t] = "Ready"]
      /\ timedOut' = [timedOut EXCEPT ![t] = TRUE] /\ UNCHANGED <<list, pc>>
  BY DEF Tick, TickWakes
<1>2. Listed(t, Side(t), Q) /\ pc[t] = "resume"
  BY <1>1, Constants DEF WaitInv, SleepersListed, ListsOfCallers, Listed
<1>3. TypeWaiting'
  BY <1>1 DEF WaitInv, TypeWaiting
<1>4. /\ tstate'[t] = "Ready" /\ \A u \in Tasks : u # t => tstate'[u] = tstate[u]
      /\ \A u \in Tasks : u # t => timedOut'[u] = timedOut[u]
  BY <1>1 DEF WaitInv, TypeWaiting
<1>5. ListsOfCallers'
  BY <1>1 DEF WaitInv, ListsOfCallers
<1>6. SleepersListed' /\ TimedOutListed'
  BY <1>1, <1>2, <1>4 DEF WaitInv, SleepersListed, TimedOutListed, Listed
<1> QED
  BY <1>3, <1>5, <1>6 DEF WaitInv

LEMMA BlockPreserves ==
  ASSUME WaitInv, NEW t \in Tasks, Block(t) PROVE WaitInv'
<1>1. pc[t] = "block" /\ UNCHANGED timedOut /\ t \in Callers
  BY Constants DEF Block
<1>2. CASE Enrol(t, Side(t), Q, mode[t] = "finite") /\ GoOn(t, "resume")
  BY <1>1, <1>2, EnrolPreserves DEF GoOn, Goto
<1>3. CASE Finish(t) /\ UNCHANGED <<tstate, list>>
  BY <1>1, <1>3, CallerMoves DEF Finish, Goto
<1> QED
  BY <1>2, <1>3 DEF Block, CannotEnrol, waiterVars

LEMMA NextWaitInv == WaitInv /\ [ApiNext]_apiVars => WaitInv'
<1> SUFFICES ASSUME WaitInv, [ApiNext]_apiVars PROVE WaitInv'
  OBVIOUS
<1>1. ASSUME NEW x \in Callers, NEW md \in Modes, Call(x, md) PROVE WaitInv'
  BY <1>1, CallerMoves DEF Call, Goto, waiterVars
<1>2. ASSUME NEW x \in Callers, TryOk(x) PROVE WaitInv'
  BY <1>2, CallerMoves DEF TryOk, Goto, waiterVars
<1>3. ASSUME NEW x \in Callers, TryFails(x) PROVE WaitInv'
  BY <1>3, CallerMoves DEF TryFails, GoOn, Finish, Goto, waiterVars
<1>4. ASSUME NEW x \in Callers, Publish(x) PROVE WaitInv'
  BY <1>4, CallerMoves DEF Publish, Goto, waiterVars
<1>5. ASSUME NEW x \in Callers, WakeOther(x) PROVE WaitInv'
  BY <1>5, WakePreserves DEF WakeOther, Finish, Goto
<1>6. CASE UNCHANGED <<tstate, list, pc, timedOut>>
  BY <1>6 DEF WaitInv, TypeWaiting, ListsOfCallers, SleepersListed, TimedOutListed, Listed
<1>7. ASSUME NEW t \in Tasks, DeadlinePasses(t) PROVE WaitInv'
  BY <1>6, <1>7 DEF DeadlinePasses, waiterVars
<1>8. CASE UNCHANGED apiVars
  BY <1>6, <1>8 DEF apiVars, waiterVars
<1> QED
  BY <1>1, <1>2, <1>3, <1>4, <1>5, <1>7, <1>8, BlockPreserves, ResumePreserves, TickPreserves DEF ApiNext

(***************************************************************************)
(* The theorem.                                                            *)
(***************************************************************************)

(* A set of indices of one task in a list without repetitions.             *)
LEMMA OnceListed ==
  ASSUME NEW s \in Seq(Tasks), Distinct(s), NEW t
  PROVE  Cardinality({i \in DOMAIN s : s[i] = t}) <= 1
<1> DEFINE I == {i \in DOMAIN s : s[i] = t}
<1>1. CASE I = {}
  <2>1. Cardinality(I) = 0
    BY <1>1, FS_EmptySet
  <2> QED
    BY <2>1
<1>2. CASE I # {}
  <2>1. PICK i \in I : TRUE
    BY <1>2
  <2>2. I = {i}
    BY <2>1 DEF Distinct
  <2>3. Cardinality(I) = 1
    BY <2>2, FS_Singleton
  <2> QED
    BY <2>3
<1> QED
  BY <1>1, <1>2

(* A caller's place on a waiter list tells what happened to it: a blocked  *)
(* task can be found by a wake, one that was timed out stays listed, and a *)
(* wake is never spent on one (kernel/src/queue.rs pop_first_blocked,      *)
(* block_recv; api/src/queue.rs).                                          *)
THEOREM ListsTell == ApiSpec => []ListTellsOutcome
<1>1. WaitInv => ListTellsOutcome
  <2> SUFFICES ASSUME WaitInv PROVE ListTellsOutcome
    OBVIOUS
  <2>1. TimeoutIsNotADelivery
    BY DEF WaitInv, TimedOutListed, TimeoutIsNotADelivery
  <2>2. ASSUME NEW t \in Tasks
        PROVE  /\ ~Listed(t, Opposite(Side(t)), Q)
               /\ Listed(t, Side(t), Q) => pc[t] = "resume"
               /\ tstate[t] # "Ready" => Listed(t, Side(t), Q)
    BY Constants DEF WaitInv, ListsOfCallers, SleepersListed, Listed
  <2>3. ASSUME NEW t \in Tasks
        PROVE  Cardinality({i \in DOMAIN list[Side(t)][Q] : list[Side(t)][Q][i] = t}) <= 1
    <3>1. list[Side(t)][Q] \in Seq(Tasks) /\ Distinct(list[Side(t)][Q])
      BY Constants DEF WaitInv, TypeWaiting, ListsOfCallers
    <3> QED
      BY <3>1, OnceListed
  <2> QED
    BY <2>1, <2>2, <2>3 DEF ListTellsOutcome, ListsMatchCallers
<1> QED
  BY InitWaitInv, NextWaitInv, <1>1, PTL DEF ApiSpec
=============================================================================
